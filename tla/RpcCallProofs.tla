--------------------------- MODULE RpcCallProofs ---------------------------
(***************************************************************************)
(* Proofs about RpcCall: for any calls, timers, connections and codes.     *)
(*                                                                         *)
(* TInv is inductive for the whole specification and gives TypeOK.  Inv    *)
(* holds until the application calls Destroy, and IInv, which is inductive,*)
(* says so; DestroySockets leaves "idle" for good, so from there on IInv   *)
(* asks for no more than TInv.                                             *)
(***************************************************************************)
EXTENDS RpcCall, TLAPS

(* A call in flight has a connection and a Sid, a reader at work has a      *)
(* message and, past the lookup, an RLock, and destroy closes channels that *)
(* are there.                                                               *)
TInv ==
  /\ TypeOK
  /\ \A c \in Calls : pc[c] \notin {"start", "done"} => conn[c] \in Conns
  /\ \A c \in Calls : pc[c] \notin {"start", "call", "done"} => sid[c] \in Sids
  /\ \A k \in Conns : hpc[k] \in {"lookup", "send", "unlock"} => hmsg[k] \in Response
  /\ \A k \in Conns : hpc[k] \in {"send", "unlock"} => rlocks[k] >= 1
  /\ dpc = "items" => \A s \in dTodo : callItem[s] # Nil

-----------------------------------------------------------------------------

Unsent  == {"start", "call", "register", "registering", "write", "closing"}
Waiting == {"written", "select", "timeout", "timingOut"}
Replied == {"reply", "replying"}
InMap   == {"write", "closing"} \cup Waiting \cup Replied

(* Sids are drawn once. *)
SidInv ==
  /\ \A c \in Calls : sid[c] <= counter
  /\ \A c \in Calls : pc[c] \in {"start", "call"} => sid[c] = 0
  /\ \A c, d \in Calls : sid[c] = sid[d] /\ sid[c] # 0 => c = d

(* The map holds the calls in flight and those whose write failed ...       *)
MapInv ==
  \A s \in Sids : callItem[s] # Nil =>
    /\ sid[callItem[s].ch] = s
    /\ callItem[s].ch \notin OnlyCalls
    /\ \/ pc[callItem[s].ch] \in InMap
       \/ /\ pc[callItem[s].ch] = "done"
          /\ callItem[s].ch \in closed
          /\ ret[callItem[s].ch] # Nil
          /\ ret[callItem[s].ch].rpcCode = 500

(* ... and every call in flight, under its Sid.                             *)
InMapInv ==
  \A c \in Calls \ OnlyCalls : pc[c] \in InMap =>
    callItem[sid[c]] # Nil /\ callItem[sid[c]].ch = c

PhaseInv ==
  /\ \A c \in OnlyCalls : pc[c] \in {"start", "call", "write", "closing", "done"}
  /\ \A c \in closed : pc[c] = "done"
  /\ \A c \in Calls : pc[c] \in {"timeout", "timingOut"} => c \in Timers

LockInv ==
  /\ \A c \in Calls : wWriter = c <=> pc[c] \in {"registering", "timingOut", "replying"}
  /\ \A k \in Conns : rlocks[k] = IF hpc[k] \in {"send", "unlock"} THEN 1 ELSE 0

(* A request on its way is the only one of its call and is not answered yet.*)
WireInv ==
  /\ \A r \in wire : /\ r.sid = sid[r.call]
                     /\ served[r.call] = Nil
                     /\ pc[r.call] \in Waiting \cup {"done"}
  /\ \A r, q \in wire : r.call = q.call => r = q
  /\ \A c \in Calls : pc[c] \in Unsent => served[c] = Nil

PacketOf(c, code) == IF code = 0 THEN c ELSE Nil

(* A response is the answer to the call that drew its Sid.                  *)
Genuine(m) ==
  /\ m.sid <= counter
  /\ \A c \in Calls : sid[c] = m.sid =>
       /\ served[c] = m.code
       /\ m.packet = PacketOf(c, m.code)
       /\ pc[c] \in Waiting \cup {"done"}

Dispatching(k) == hpc[k] \in {"lookup", "send"}

(* The responses on their way are genuine, and at most one has a given Sid. *)
ReplyInv ==
  /\ \A m \in inbox : Genuine(m)
  /\ \A k \in Conns : Dispatching(k) => Genuine(hmsg[k])
  /\ \A m, n \in inbox : m.sid = n.sid => m = n
  /\ \A m \in inbox, k \in Conns : Dispatching(k) => hmsg[k].sid # m.sid
  /\ \A k, l \in Conns : Dispatching(k) /\ Dispatching(l)
                           /\ hmsg[k].sid = hmsg[l].sid => k = l

(* The reader sends to a waiting call, after it has stored its answer.      *)
SendInv ==
  \A k \in Conns : hpc[k] = "send" =>
    /\ callItem[hmsg[k].sid] # Nil
    /\ callItem[hmsg[k].sid].code = hmsg[k].code
    /\ callItem[hmsg[k].sid].packet = hmsg[k].packet
    /\ pc[callItem[hmsg[k].sid].ch] \in Waiting

(* A call that has received finds its own answer in the map.                *)
RepliedInv ==
  \A c \in Calls : pc[c] \in Replied =>
    /\ served[c] = callItem[sid[c]].code
    /\ callItem[sid[c]].packet = PacketOf(c, served[c])

Inv == /\ SidInv /\ MapInv /\ InMapInv /\ PhaseInv /\ LockInv /\ WireInv
       /\ ReplyInv /\ SendInv /\ RepliedInv /\ AnswerToOwnRequest

IInv == TInv /\ UntilDestroy(Inv)

-----------------------------------------------------------------------------

LEMMA TInvInit == Init => TInv
  BY ConstantsOK DEF ConstantsOK, Init, TInv, TypeOK, CallPCs, Sids, Packets, Codes

LEMMA TInvNext == TInv /\ [Next]_vars => TInv'
<1> SUFFICES ASSUME TInv, [Next]_vars PROVE TInv'
  OBVIOUS
<1> USE ConstantsOK DEF ConstantsOK
<1>1. ASSUME NEW c \in Calls, CallStep(c) \/ TimerFires(c) PROVE TInv'
  <2> USE DEF TInv, TypeOK, callVars, itemVars, readVars, netVars, destVars
  <2>1. CASE GetConn(c)
    <3>1. CASE UNCHANGED ret
      BY <2>1, <3>1 DEF GetConn, Finish, Goto, CallPCs
    <3>2. CASE Finish(c, TRUE, Nil, -1) /\ UNCHANGED conn
      <4>1. [err |-> TRUE, packet |-> Nil, rpcCode |-> -1] \in Return
        BY DEF Return, Packets
      <4>2. pc' = [pc EXCEPT ![c] = "done"] /\ ret' \in [Calls -> Return \cup {Nil}]
        BY <3>2, <4>1 DEF Finish, Goto
      <4> QED
        BY <2>1, <3>2, <4>2 DEF GetConn, CallPCs
    <3> QED
      BY <2>1, <3>1, <3>2 DEF GetConn
  <2>2. CASE TakeSid(c)
    BY <2>2 DEF TakeSid, Goto, CallPCs, Sids
  <2>3. CASE LockToRegister(c)
    BY <2>3 DEF LockToRegister, Announce, CallPCs
  <2>4. CASE Register(c)
    <3>1. [ch |-> c, code |-> 0, packet |-> Nil] \in CallCond
      BY DEF CallCond, Codes, Packets
    <3> QED
      BY <2>4, <3>1 DEF Register, Goto, CallPCs
  <2>5. CASE Write(c)
    <3>1. [conn |-> conn[c], sid |-> sid[c], call |-> c, onlyCall |-> c \in OnlyCalls]
            \in Request
      BY <2>5 DEF Write, Request
    <3>2. CASE c \in OnlyCalls
      <4>1. [err |-> FALSE, packet |-> Nil, rpcCode |-> 0] \in Return
        BY DEF Return, Packets, Codes
      <4>2. pc' = [pc EXCEPT ![c] = "done"] /\ ret' \in [Calls -> Return \cup {Nil}]
        <5>1. Finish(c, FALSE, Nil, 0)
          BY <2>5, <3>2 DEF Write
        <5> QED
          BY <4>1, <5>1 DEF Finish, Goto
      <4> QED
        BY <2>5, <3>1, <3>2, <4>1, <4>2 DEF Write, CallPCs
    <3>3. CASE c \notin OnlyCalls
      BY <2>5, <3>1, <3>3 DEF Write, Goto, CallPCs
    <3> QED
      BY <3>2, <3>3
  <2>6. CASE WriteFails(c)
    <3>1. CASE c \in closed
      <4>1. [err |-> TRUE, packet |-> Nil, rpcCode |-> 500] \in Return
        BY DEF Return, Packets
      <4>2. pc' = [pc EXCEPT ![c] = "done"] /\ ret' \in [Calls -> Return \cup {Nil}]
        <5>1. Finish(c, TRUE, Nil, 500)
          BY <2>6, <3>1 DEF WriteFails
        <5> QED
          BY <4>1, <5>1 DEF Finish, Goto
      <4> QED
        BY <2>6, <3>1, <4>2 DEF WriteFails, CallPCs
    <3>2. CASE c \notin closed
      BY <2>6, <3>2 DEF WriteFails, Goto, CallPCs
    <3> QED
      BY <3>1, <3>2
  <2>7. CASE CloseWaitCh(c)
    <3>1. Finish(c, FALSE, Nil, 500) \/ Finish(c, TRUE, Nil, 500)
      BY <2>7 DEF CloseWaitCh, Recovered
    <3>2. pc' = [pc EXCEPT ![c] = "done"] /\ ret' \in [Calls -> Return \cup {Nil}]
      <4>1. \A e \in BOOLEAN : [err |-> e, packet |-> Nil, rpcCode |-> 500] \in Return
        BY DEF Return, Packets
      <4>2. CASE Finish(c, FALSE, Nil, 500)
        BY <4>1, <4>2 DEF Finish, Goto
      <4>3. CASE Finish(c, TRUE, Nil, 500)
        BY <4>1, <4>3 DEF Finish, Goto
      <4> QED
        BY <3>1, <4>2, <4>3
    <3> QED
      BY <2>7, <3>2 DEF CloseWaitCh, CallPCs
  <2>8. CASE EnterSelect(c) \/ TimerFires(c) \/ ReceiveClosed(c)
    BY <2>8 DEF EnterSelect, TimerFires, ReceiveClosed, Goto, CallPCs
  <2>9. CASE LockAfterTimeout(c) \/ LockAfterReply(c)
    BY <2>9 DEF LockAfterTimeout, LockAfterReply, Announce, CallPCs
  <2>10. CASE FinishTimeout(c)
    <3>1. CASE ClosePanics(c) /\ Recovered(c, -1) /\ UNCHANGED itemVars
      <4>1. [err |-> FALSE, packet |-> Nil, rpcCode |-> -1] \in Return
        BY DEF Return, Packets
      <4> QED
        BY <2>10, <3>1, <4>1 DEF Finish, Goto, CallPCs, FinishTimeout, Recovered
    <3>2. CASE ~ ClosePanics(c) /\ DropItem(c) /\ wWriter' = Nil /\ Finish(c, TRUE, Nil, 408)
      <4>1. /\ pc' = [pc EXCEPT ![c] = "done"] /\ pc' \in [Calls -> CallPCs]
            /\ ret' \in [Calls -> Return \cup {Nil}]
        <5>1. [err |-> TRUE, packet |-> Nil, rpcCode |-> 408]
                \in Return
          BY DEF Return, Packets
        <5> QED
          BY <3>2, <5>1 DEF Finish, Goto, CallPCs
      <4>2. sid[c] \in Sids /\ callItem[sid[c]] \in CallCond
        BY <2>10, <3>2 DEF FinishTimeout, ClosePanics
      <4>3. closed' \subseteq Calls /\ callItem' \in [Sids -> CallCond \cup {Nil}]
        BY <3>2, <4>2 DEF DropItem, CallCond
      <4>4. dpc # "items"
        BY <2>10 DEF FinishTimeout, NoReader
      <4> QED
        BY <2>10, <3>2, <4>1, <4>3, <4>4 DEF FinishTimeout
    <3> QED
      BY <2>10, <3>1, <3>2 DEF FinishTimeout
  <2>11. CASE FinishReply(c)
    <3> DEFINE item == callItem[sid[c]]
    <3>1. sid[c] \in Sids /\ item \in CallCond \cup {Nil} /\ dpc # "items"
      BY <2>11 DEF FinishReply, NoReader
    <3>2. item # Nil => item.code \in Codes /\ item.packet \in Packets /\ item.ch \in Calls
      BY <3>1 DEF CallCond
    <3>3. CASE ClosePanics(c)
      <4>1. Finish(c, FALSE, Nil, IF item = Nil THEN -1 ELSE item.code)
        BY <2>11, <3>3 DEF FinishReply, Recovered
      <4>2. /\ pc' = [pc EXCEPT ![c] = "done"] /\ pc' \in [Calls -> CallPCs]
            /\ ret' \in [Calls -> Return \cup {Nil}]
        <5>1. [err |-> FALSE, packet |-> Nil, rpcCode |-> IF item = Nil THEN -1 ELSE item.code]
                \in Return
          BY <3>2 DEF Return, Packets
        <5> QED
          BY <4>1, <5>1 DEF Finish, Goto, CallPCs
      <4>3. callItem' = IF item = Nil THEN callItem
                        ELSE [callItem EXCEPT ![sid[c]] = [item EXCEPT !.packet = Nil]]
        BY <2>11, <3>3 DEF FinishReply
      <4>4. item # Nil => [item EXCEPT !.packet = Nil] \in CallCond
        BY <3>1 DEF CallCond, Packets
      <4>5. callItem' \in [Sids -> CallCond \cup {Nil}]
        BY <3>1, <4>3, <4>4
      <4>6. UNCHANGED <<closed, wWriter>>
        BY <2>11, <3>3 DEF FinishReply
      <4> HIDE DEF item
      <4> QED
        BY <2>11, <3>1, <4>2, <4>5, <4>6 DEF FinishReply
    <3>4. CASE ~ ClosePanics(c)
      <4>1. Finish(c, item.code # 0, IF item.code = 0 THEN item.packet ELSE Nil, item.code)
        BY <2>11, <3>4 DEF FinishReply
      <4>2. item # Nil
        BY <3>4 DEF ClosePanics
      <4>3. /\ pc' = [pc EXCEPT ![c] = "done"] /\ pc' \in [Calls -> CallPCs]
            /\ ret' \in [Calls -> Return \cup {Nil}]
        <5> HIDE DEF item
        <5>1. [err |-> item.code # 0, packet |-> IF item.code = 0 THEN item.packet ELSE Nil,
               rpcCode |-> item.code]
                \in Return
          BY <4>2, <3>2 DEF Return, Packets
        <5> QED
          BY <4>1, <5>1 DEF Finish, Goto, CallPCs
      <4>4. closed' \subseteq Calls /\ callItem' \in [Sids -> CallCond \cup {Nil}] /\ wWriter' = Nil
        BY <2>11, <3>1, <3>2, <3>4, <4>2 DEF FinishReply, DropItem
      <4> HIDE DEF item
      <4> QED
        BY <2>11, <3>1, <4>3, <4>4 DEF FinishReply
    <3> QED
      BY <3>3, <3>4
  <2> QED
    BY <1>1, <2>1, <2>2, <2>3, <2>4, <2>5, <2>6, <2>7, <2>8, <2>9, <2>10, <2>11 DEF CallStep
<1>2. ASSUME NEW k \in Conns, ReaderStep(k) \/ ReaderExits(k) PROVE TInv'
  <2> USE DEF TInv, TypeOK, callVars, itemVars, readVars, netVars, destVars
  <2>1. CASE ReadResponse(k)
    <3>1. PICK m \in inbox : /\ inbox' = inbox \ {m}
                             /\ \/ UNCHANGED <<hpc, hmsg>>
                                \/ /\ hpc' = [hpc EXCEPT ![k] = "lookup"]
                                   /\ hmsg' = [hmsg EXCEPT ![k] = m]
      BY <2>1 DEF ReadResponse
    <3> QED
      BY <2>1, <3>1 DEF ReadResponse
  <2>2. CASE Dispatch(k)
    <3> DEFINE m == hmsg[k]
    <3>1. m \in Response /\ m.sid \in Sids /\ m.code \in Codes /\ m.packet \in Packets
      BY <2>2 DEF Dispatch, Response
    <3>2. callItem[m.sid] # Nil =>
            [ch |-> callItem[m.sid].ch, code |-> m.code, packet |-> m.packet] \in CallCond
      BY <3>1 DEF CallCond
    <3>3. /\ callItem' \in [Sids -> CallCond \cup {Nil}]
          /\ \A s \in Sids : callItem[s] # Nil => callItem'[s] # Nil
      BY <2>2, <3>1, <3>2 DEF Dispatch
    <3>4. \/ /\ hpc' = [hpc EXCEPT ![k] = "send"]
             /\ rlocks' = [rlocks EXCEPT ![k] = @ + 1]
          \/ /\ hpc' = [hpc EXCEPT ![k] = "read"]
             /\ UNCHANGED rlocks
      BY <2>2 DEF Dispatch
    <3> HIDE DEF m
    <3> QED
      BY <2>2, <3>3, <3>4 DEF Dispatch
  <2>3. CASE Deliver(k)
    BY <2>3 DEF Deliver, CallPCs
  <2>4. CASE SendPanics(k)
    BY <2>4 DEF SendPanics
  <2>5. CASE Unlock(k)
    BY <2>5 DEF Unlock
  <2>6. CASE ReaderExits(k)
    BY <2>6 DEF ReaderExits
  <2> QED
    BY <1>2, <2>1, <2>2, <2>3, <2>4, <2>5, <2>6 DEF ReaderStep
<1>3. CASE ServerStep
  <2> USE DEF TInv, TypeOK, callVars, itemVars, readVars, netVars, destVars
  <2>1. ASSUME NEW r \in wire, Lose(r) PROVE TInv'
    BY <2>1 DEF Lose
  <2>2. ASSUME NEW r \in wire, NEW code \in Codes, Answer(r, code) PROVE TInv'
    <3>1. r \in Request /\ r.call \in Calls
      BY DEF Request
    <3>2. [conn |-> r.conn, sid |-> r.sid, code |-> code,
           packet |-> IF code = 0 THEN r.call ELSE Nil, onlyCall |-> r.onlyCall] \in Response
      BY <3>1 DEF Request, Response, Packets
    <3> QED
      BY <2>2, <3>1, <3>2 DEF Answer
  <2> QED
    BY <1>3, <2>1, <2>2 DEF ServerStep
<1>4. CASE DestroySockets \/ DestroyStep
  <2> USE DEF TInv, TypeOK, callVars, itemVars, readVars, netVars, destVars
  <2>1. CASE DestroySockets
    BY <2>1 DEF DestroySockets
  <2>2. CASE DestroyRLock
    BY <2>2 DEF DestroyRLock
  <2>3. CASE DestroyEnds
    BY <2>3 DEF DestroyEnds
  <2>4. ASSUME NEW s \in Sids, DestroyClose(s) PROVE TInv'
    <3>1. callItem[s].ch \in Calls
      BY <2>4 DEF DestroyClose, CallCond
    <3> QED
      BY <2>4, <3>1 DEF DestroyClose
  <2> QED
    BY <1>4, <2>1, <2>2, <2>3, <2>4 DEF DestroyStep
<1>5. CASE UNCHANGED vars
  BY <1>5 DEF TInv, TypeOK, vars, callVars, itemVars, readVars, netVars, destVars
<1> QED
  BY <1>1, <1>2, <1>3, <1>4, <1>5 DEF Next

(* Every variable of a running client keeps its type, whatever the calls,   *)
(* the connections, the timers, the server and Destroy do.                  *)
THEOREM TypeCorrect == Spec => []TypeOK
<1>1. TInv => TypeOK
  BY DEF TInv
<1> QED
  BY <1>1, TInvInit, TInvNext, PTL DEF Spec

-----------------------------------------------------------------------------
(* From here on: every step a client takes before Destroy keeps Inv.        *)

Step == TInv /\ Inv /\ dpc = "idle"

Others(c) == \A d \in Calls \ {c} : pc'[d] = pc[d] /\ ret'[d] = ret[d]

LEMMA SidUnique ==
  ASSUME Step, NEW c \in Calls, sid[c] \in Sids
  PROVE  \A d \in Calls : d # c => sid[d] # sid[c]
  BY ConstantsOK DEF ConstantsOK, Step, Inv, SidInv, Sids

(* GetConn.                                                                 *)
LEMMA GetConnEffect ==
  ASSUME Step, NEW c \in Calls, GetConn(c)
  PROVE  /\ pc[c] = "start" /\ pc'[c] \in {"call", "done"} /\ Others(c)
         /\ IF pc'[c] = "done" THEN ret'[c].err ELSE ret' = ret
         /\ UNCHANGED <<sid, counter, itemVars, readVars, netVars, destVars>>
  BY DEF Step, Others, TInv, TypeOK, GetConn, Finish, Goto

LEMMA GetConnKeepsInv == ASSUME Step, NEW c \in Calls, GetConn(c) PROVE Inv'
<1> USE DEF Step, Inv, TInv, TypeOK, callVars, itemVars, readVars, netVars, destVars, Others
<1>1. SidInv'
  BY GetConnEffect DEF SidInv
<1>2. MapInv'
  BY GetConnEffect DEF MapInv, InMap, Waiting, Replied, CallCond
<1>3. InMapInv'
  BY GetConnEffect DEF InMapInv, InMap, Waiting, Replied
<1>4. PhaseInv'
  BY GetConnEffect, ConstantsOK DEF PhaseInv, ConstantsOK
<1>5. LockInv'
  BY GetConnEffect DEF LockInv
<1>6. WireInv'
  BY GetConnEffect DEF WireInv, Unsent, Waiting, Request
<1>7. ReplyInv'
  BY GetConnEffect DEF ReplyInv, Genuine, Dispatching, PacketOf, Waiting, Response
<1>8. SendInv'
  BY GetConnEffect DEF SendInv, Waiting, CallCond, Response
<1>9. RepliedInv'
  BY GetConnEffect DEF RepliedInv, Replied, PacketOf
<1>10. AnswerToOwnRequest'
  BY GetConnEffect DEF AnswerToOwnRequest
<1> QED
  BY <1>1, <1>2, <1>3, <1>4, <1>5, <1>6, <1>7, <1>8, <1>9, <1>10

LEMMA TakeSidKeepsInv == ASSUME Step, NEW c \in Calls, TakeSid(c) PROVE Inv'
<1> USE DEF Step, Inv, TInv, TypeOK, callVars, itemVars, readVars, netVars, destVars, TakeSid, Goto
<1>1. SidInv'
  BY ConstantsOK DEF SidInv, ConstantsOK, Sids
<1>2. MapInv'
  BY DEF MapInv, InMap, Waiting, Replied, CallCond, SidInv, Sids
<1>3. InMapInv'
  BY DEF InMapInv, InMap, Waiting, Replied
<1>4. PhaseInv'
  BY ConstantsOK DEF PhaseInv, ConstantsOK
<1>5. LockInv'
  BY DEF LockInv
<1>6. WireInv'
  BY DEF WireInv, Unsent, Waiting, Request
<1>7. ReplyInv'
  <2>1. \A m \in Response : Genuine(m) => Genuine(m)'
    BY ConstantsOK DEF ConstantsOK, SidInv, Sids, Genuine, Waiting, PacketOf, Response
  <2> QED
    BY <2>1 DEF ReplyInv, Dispatching
<1>8. SendInv'
  BY DEF SendInv, Waiting, CallCond, Response
<1>9. RepliedInv'
  BY DEF RepliedInv, Replied, PacketOf
<1>10. AnswerToOwnRequest'
  BY DEF AnswerToOwnRequest
<1> QED
  BY <1>1, <1>2, <1>3, <1>4, <1>5, <1>6, <1>7, <1>8, <1>9, <1>10

(* The steps that only advance a call, and may announce it to wrw.          *)
Moves(c) ==
  /\ \/ /\ \/ pc[c] = "register" /\ pc'[c] = "registering"
           \/ pc[c] = "timeout"  /\ pc'[c] = "timingOut"
           \/ pc[c] = "reply"    /\ pc'[c] = "replying"
        /\ wWriter = Nil /\ wWriter' = c
     \/ /\ \/ pc[c] = "write"    /\ pc'[c] = "closing"
           \/ pc[c] = "written"  /\ pc'[c] = "select"
           \/ pc[c] = "select"   /\ pc'[c] = "timeout" /\ c \in Timers
        /\ UNCHANGED wWriter
  /\ Others(c)
  /\ UNCHANGED <<sid, conn, ret, counter, callItem, closed, readVars, netVars, destVars>>

LEMMA MovesSteps ==
  ASSUME Step, NEW c \in Calls,
         \/ LockToRegister(c) \/ LockAfterTimeout(c) \/ LockAfterReply(c)
         \/ WriteFails(c) \/ EnterSelect(c) \/ TimerFires(c)
  PROVE  Moves(c)
<1> USE DEF Step, TInv, TypeOK, Moves, Others, itemVars
<1>1. CASE LockToRegister(c)
  BY <1>1 DEF LockToRegister, Announce
<1>2. CASE LockAfterTimeout(c)
  BY <1>2 DEF LockAfterTimeout, Announce
<1>3. CASE LockAfterReply(c)
  BY <1>3 DEF LockAfterReply, Announce
<1>4. CASE WriteFails(c)
  <2>1. c \notin closed
    BY <1>4 DEF WriteFails, Inv, PhaseInv
  <2> QED
    BY <1>4, <2>1 DEF WriteFails, Goto
<1>5. CASE EnterSelect(c)
  BY <1>5 DEF EnterSelect, Goto
<1>6. CASE TimerFires(c)
  BY <1>6 DEF TimerFires, Goto
<1> QED
  BY <1>1, <1>2, <1>3, <1>4, <1>5, <1>6

LEMMA MovesKeepsInv == ASSUME Step, NEW c \in Calls, Moves(c) PROVE Inv'
<1> USE DEF Step, Inv, TInv, TypeOK, callVars, itemVars, readVars, netVars, destVars, Moves, Others
<1>1. SidInv'
  BY DEF SidInv
<1>2. MapInv'
  BY DEF MapInv, InMap, Waiting, Replied, CallCond
<1>3. InMapInv'
  BY DEF InMapInv, InMap, Waiting, Replied
<1>4. PhaseInv'
  BY ConstantsOK DEF PhaseInv, ConstantsOK
<1>5. LockInv'
  BY ConstantsOK DEF LockInv, ConstantsOK
<1>6. WireInv'
  BY DEF WireInv, Unsent, Waiting, Request
<1>7. ReplyInv'
  BY DEF ReplyInv, Genuine, Dispatching, PacketOf, Waiting, Response
<1>8. SendInv'
  BY DEF SendInv, Waiting, CallCond, Response
<1>9. RepliedInv'
  BY DEF RepliedInv, Replied, PacketOf
<1>10. AnswerToOwnRequest'
  BY DEF AnswerToOwnRequest
<1> QED
  BY <1>1, <1>2, <1>3, <1>4, <1>5, <1>6, <1>7, <1>8, <1>9, <1>10

(* Register.                                                                *)
LEMMA RegisterEffect == ASSUME Step, NEW c \in Calls, Register(c)
  PROVE /\ pc[c] = "registering" /\ pc'[c] = "write" /\ Others(c)
        /\ c \notin OnlyCalls /\ sid[c] \in Sids /\ wWriter' = Nil
        /\ callItem'[sid[c]] # Nil /\ callItem'[sid[c]].ch = c
        /\ \A s \in Sids : s # sid[c] => callItem'[s] = callItem[s]
        /\ UNCHANGED <<sid, conn, ret, counter, closed, readVars, netVars, destVars>>
<1> DEFINE item == [ch |-> c, code |-> 0, packet |-> Nil]
<1>1. item \in CallCond /\ item # Nil /\ item.ch = c
  BY ConstantsOK DEF ConstantsOK, CallCond, Codes, Packets
<1>2. callItem' = [callItem EXCEPT ![sid[c]] = item]
  BY DEF Register
<1>3. pc[c] = "registering" /\ c \notin OnlyCalls /\ sid[c] \in Sids
  BY DEF Register, Step, Inv, PhaseInv, TInv
<1> HIDE DEF item
<1> QED
  BY <1>1, <1>2, <1>3 DEF Register, Goto, Step, Others, TInv, TypeOK

LEMMA RegisterKeepsInv == ASSUME Step, NEW c \in Calls, Register(c) PROVE Inv'
<1> USE DEF Step, Inv, TInv, TypeOK, callVars, itemVars, readVars, netVars, destVars, Others
<1>1. SidInv'
  BY RegisterEffect DEF SidInv
<1>2. MapInv'
  BY RegisterEffect DEF MapInv, InMap, Waiting, Replied, CallCond, SidInv
<1>3. InMapInv'
  BY RegisterEffect, SidUnique DEF InMapInv, InMap, Waiting, Replied
<1>4. PhaseInv'
  BY RegisterEffect, ConstantsOK DEF PhaseInv, ConstantsOK
<1>5. LockInv'
  BY RegisterEffect, ConstantsOK DEF LockInv, ConstantsOK
<1>6. WireInv'
  BY RegisterEffect DEF WireInv, Unsent, Waiting, Request
<1>7. ReplyInv'
  BY RegisterEffect DEF ReplyInv, Genuine, Dispatching, PacketOf, Waiting, Response
<1>8. SendInv'
  <2>1. \A k \in Conns : hpc[k] # "send"
    BY DEF Register, NoReader, LockInv
  <2> QED
    BY <2>1, RegisterEffect DEF SendInv
<1>9. RepliedInv'
  BY RegisterEffect, SidUnique DEF RepliedInv, Replied, PacketOf
<1>10. AnswerToOwnRequest'
  BY RegisterEffect DEF AnswerToOwnRequest
<1> QED
  BY <1>1, <1>2, <1>3, <1>4, <1>5, <1>6, <1>7, <1>8, <1>9, <1>10

(* Write.                                                                   *)
LEMMA WriteEffect ==
  ASSUME Step, NEW c \in Calls, Write(c)
  PROVE  /\ pc[c] = "write" /\ Others(c)
         /\ \/ c \in OnlyCalls /\ pc'[c] = "done" /\ closed' = closed \cup {c}
            \/ c \notin OnlyCalls /\ pc'[c] = "written" /\ UNCHANGED <<closed, ret>>
         /\ UNCHANGED <<sid, conn, counter, callItem, wWriter, readVars, open, inbox,
                        served, destVars>>
  BY DEF Step, Others, TInv, TypeOK, Write, Finish, Goto

LEMMA WriteKeepsInv == ASSUME Step, NEW c \in Calls, Write(c) PROVE Inv'
<1> USE DEF Step, Inv, TInv, TypeOK, callVars, itemVars, readVars, netVars, destVars, Others
<1>1. SidInv'
  BY WriteEffect DEF SidInv
<1>2. MapInv'
  BY WriteEffect DEF MapInv, InMap, Waiting, Replied, CallCond
<1>3. InMapInv'
  BY WriteEffect DEF InMapInv, InMap, Waiting, Replied
<1>4. PhaseInv'
  BY WriteEffect, ConstantsOK DEF PhaseInv, ConstantsOK
<1>5. LockInv'
  BY WriteEffect DEF LockInv
<1>6. WireInv'
  <2>1. wire' = wire \cup {[conn |-> conn[c], sid |-> sid[c], call |-> c,
                            onlyCall |-> c \in OnlyCalls]}
    BY DEF Write
  <2>2. \A r \in wire : r.call # c
    BY WriteEffect DEF WireInv, Waiting
  <2> QED
    BY WriteEffect, <2>1, <2>2 DEF Request, WireInv, Unsent, Waiting
<1>7. ReplyInv'
  BY WriteEffect DEF ReplyInv, Genuine, Dispatching, PacketOf, Waiting, Response
<1>8. SendInv'
  BY WriteEffect DEF SendInv, Waiting, CallCond, Response
<1>9. RepliedInv'
  BY WriteEffect DEF RepliedInv, Replied, PacketOf
<1>10. AnswerToOwnRequest'
  BY WriteEffect DEF AnswerToOwnRequest
<1> QED
  BY <1>1, <1>2, <1>3, <1>4, <1>5, <1>6, <1>7, <1>8, <1>9, <1>10

(* CloseWaitCh.                                                             *)
LEMMA CloseEffect ==
  ASSUME Step, NEW c \in Calls, CloseWaitCh(c)
  PROVE  /\ pc[c] = "closing" /\ pc'[c] = "done" /\ Others(c)
         /\ ret'[c].err /\ ret'[c].rpcCode = 500 /\ ret'[c] # Nil
         /\ closed' = closed \cup {c}
         /\ UNCHANGED <<sid, conn, counter, callItem, wWriter, readVars, netVars, destVars>>
<1>1. c \notin closed
  BY DEF Step, Inv, PhaseInv, CloseWaitCh
<1>2. Finish(c, TRUE, Nil, 500)
  BY <1>1 DEF CloseWaitCh
<1>3. [err |-> TRUE, packet |-> Nil, rpcCode |-> 500] # Nil
  <2> DEFINE r == [err |-> TRUE, packet |-> Nil, rpcCode |-> 500]
  <2>1. r \in Return
    BY DEF Return, Packets
  <2> HIDE DEF r
  <2>2. r # Nil
    BY <2>1, ConstantsOK DEF ConstantsOK
  <2> QED
    BY <2>2 DEF r
<1> QED
  BY <1>2, <1>3 DEF Step, Others, TInv, TypeOK, CloseWaitCh, Finish, Goto

LEMMA CloseKeepsInv == ASSUME Step, NEW c \in Calls, CloseWaitCh(c) PROVE Inv'
<1> USE DEF Step, Inv, TInv, TypeOK, callVars, itemVars, readVars, netVars, destVars, Others
<1>1. SidInv'
  BY CloseEffect DEF SidInv
<1>2. MapInv'
  BY CloseEffect DEF MapInv, InMap, Waiting, Replied, CallCond
<1>3. InMapInv'
  BY CloseEffect DEF InMapInv, InMap, Waiting, Replied
<1>4. PhaseInv'
  BY CloseEffect, ConstantsOK DEF PhaseInv, ConstantsOK
<1>5. LockInv'
  BY CloseEffect DEF LockInv
<1>6. WireInv'
  BY CloseEffect DEF WireInv, Unsent, Waiting, Request
<1>7. ReplyInv'
  BY CloseEffect DEF ReplyInv, Genuine, Dispatching, PacketOf, Waiting, Response
<1>8. SendInv'
  BY CloseEffect DEF SendInv, Waiting, CallCond, Response
<1>9. RepliedInv'
  BY CloseEffect DEF RepliedInv, Replied, PacketOf
<1>10. AnswerToOwnRequest'
  BY CloseEffect DEF AnswerToOwnRequest
<1> QED
  BY <1>1, <1>2, <1>3, <1>4, <1>5, <1>6, <1>7, <1>8, <1>9, <1>10

(* FinishTimeout and FinishReply both drop the item of the call.            *)
LEMMA OwnItem ==
  ASSUME Step, NEW c \in Calls, pc[c] \in {"timingOut", "replying"}
  PROVE  /\ sid[c] \in Sids /\ callItem[sid[c]] # Nil /\ callItem[sid[c]].ch = c
         /\ ~ ClosePanics(c)
<1>1. c \notin OnlyCalls /\ callItem[sid[c]] # Nil /\ callItem[sid[c]].ch = c /\ c \notin closed
  BY DEF Step, Inv, InMapInv, PhaseInv, InMap, Waiting, Replied
<1> QED
  BY <1>1 DEF Step, TInv, TypeOK, ClosePanics

Drops(c) ==
  /\ pc[c] \in {"timingOut", "replying"} /\ pc'[c] = "done" /\ Others(c)
  /\ sid[c] \in Sids /\ callItem[sid[c]] # Nil /\ callItem[sid[c]].ch = c
  /\ closed' = closed \cup {c} /\ wWriter' = Nil
  /\ callItem' = [callItem EXCEPT ![sid[c]] = Nil]
  /\ \A k \in Conns : rlocks[k] = 0
  /\ UNCHANGED <<sid, conn, counter, readVars, netVars, destVars>>

(* It fails, or returns the packet of a code 0 reply.                       *)
Returns(c) ==
  ret'[c].err \/ (/\ pc[c] = "replying"
                  /\ callItem[sid[c]].code = 0
                  /\ ret'[c].packet = callItem[sid[c]].packet)

LEMMA TimeoutDrops ==
  ASSUME Step, NEW c \in Calls, FinishTimeout(c)
  PROVE  Drops(c) /\ Returns(c)
<1>1. pc[c] = "timingOut" /\ \A k \in Conns : rlocks[k] = 0
  BY DEF FinishTimeout, NoReader
<1>2. DropItem(c) /\ wWriter' = Nil /\ Finish(c, TRUE, Nil, 408)
  BY <1>1, OwnItem DEF FinishTimeout
<1>3. pc'[c] = "done" /\ Others(c) /\ ret'[c].err
  BY <1>2 DEF Step, Others, TInv, TypeOK, Finish, Goto
<1> QED
  BY <1>1, <1>2, <1>3, OwnItem DEF FinishTimeout, DropItem, Drops, Returns

LEMMA ReplyDrops ==
  ASSUME Step, NEW c \in Calls, FinishReply(c)
  PROVE  Drops(c) /\ Returns(c)
<1> DEFINE item == callItem[sid[c]]
<1>1. pc[c] = "replying" /\ \A k \in Conns : rlocks[k] = 0
  BY DEF FinishReply, NoReader
<1>2. /\ DropItem(c) /\ wWriter' = Nil
      /\ Finish(c, item.code # 0, IF item.code = 0 THEN item.packet ELSE Nil, item.code)
  BY <1>1, OwnItem DEF FinishReply
<1>3. pc'[c] = "done" /\ Others(c)
  BY <1>2 DEF Step, Others, TInv, TypeOK, Finish, Goto
<1>4. ret'[c] = [err |-> item.code # 0, packet |-> IF item.code = 0 THEN item.packet ELSE Nil,
                 rpcCode |-> item.code]
  BY <1>2 DEF Step, TInv, TypeOK, Finish
<1>5. CASE item.code = 0
  <2>1. ret'[c].packet = item.packet
    BY <1>4, <1>5
  <2> HIDE DEF item
  <2>2. Returns(c)
    BY <1>1, <1>5, <2>1 DEF Returns, item
  <2> QED
    BY <1>1, <1>2, <1>3, <2>2, OwnItem DEF FinishReply, DropItem, Drops
<1>6. CASE item.code # 0
  <2>1. (item.code # 0) = TRUE
    BY <1>6
  <2>2. ret'[c] = [err |-> TRUE, packet |-> IF item.code = 0 THEN item.packet ELSE Nil,
                   rpcCode |-> item.code]
    BY <1>4, <2>1, Zenon
  <2>3. Returns(c)
    BY <2>2 DEF Returns
  <2> QED
    BY <1>1, <1>2, <1>3, <2>3, OwnItem DEF FinishReply, DropItem, Drops
<1> QED
  BY <1>5, <1>6

LEMMA DropsKeepsInv == ASSUME Step, NEW c \in Calls, Drops(c), Returns(c) PROVE Inv'
<1> USE DEF Step, Inv, TInv, TypeOK, callVars, itemVars, readVars, netVars, destVars, Drops, Others
<1>1. SidInv'
  BY DEF SidInv
<1>2. MapInv'
  BY DEF MapInv, InMap, Waiting, Replied, CallCond, SidInv, Sids
<1>3. InMapInv'
  BY SidUnique DEF InMapInv, InMap, Waiting, Replied, SidInv
<1>4. PhaseInv'
  BY ConstantsOK DEF PhaseInv, ConstantsOK
<1>5. LockInv'
  BY ConstantsOK DEF LockInv, ConstantsOK
<1>6. WireInv'
  BY DEF WireInv, Unsent, Waiting, Request
<1>7. ReplyInv'
  BY DEF ReplyInv, Genuine, Dispatching, PacketOf, Waiting, Response
<1>8. SendInv'
  BY DEF SendInv, Waiting, CallCond, Response, LockInv
<1>9. RepliedInv'
  BY SidUnique DEF RepliedInv, Replied, PacketOf
<1>10. AnswerToOwnRequest'
  <2>1. pc[c] = "replying" => /\ served[c] = callItem[sid[c]].code
                              /\ callItem[sid[c]].packet = PacketOf(c, served[c])
    BY DEF RepliedInv, Replied
  <2> QED
    BY <2>1 DEF Returns, AnswerToOwnRequest, PacketOf
<1> QED
  BY <1>1, <1>2, <1>3, <1>4, <1>5, <1>6, <1>7, <1>8, <1>9, <1>10

-----------------------------------------------------------------------------
(* The readers.                                                             *)

LEMMA ReadKeepsInv == ASSUME Step, NEW k \in Conns, ReadResponse(k) PROVE Inv'
<1> USE DEF Step, Inv, TInv, TypeOK, callVars, itemVars, readVars, netVars, destVars, ReadResponse
<1>1. SidInv'
  BY DEF SidInv
<1>2. MapInv'
  BY DEF MapInv, InMap, Waiting, Replied, CallCond
<1>3. InMapInv'
  BY DEF InMapInv, InMap, Waiting, Replied
<1>4. PhaseInv'
  BY DEF PhaseInv
<1>5. LockInv'
  BY DEF LockInv
<1>6. WireInv'
  BY DEF WireInv, Unsent, Waiting, Request
<1>7. ReplyInv'
  BY DEF ReplyInv, Genuine, Dispatching, PacketOf, Waiting, Response
<1>8. SendInv'
  BY DEF SendInv, Waiting, CallCond, Response
<1>9. RepliedInv'
  BY DEF RepliedInv, Replied, PacketOf
<1>10. AnswerToOwnRequest'
  BY DEF AnswerToOwnRequest
<1> QED
  BY <1>1, <1>2, <1>3, <1>4, <1>5, <1>6, <1>7, <1>8, <1>9, <1>10

LEMMA SendFacts == ASSUME Step, NEW k \in Conns, hpc[k] = "send"
  PROVE /\ hmsg[k] \in Response /\ hmsg[k].sid \in Sids /\ callItem[hmsg[k].sid] # Nil /\ Target(k) \in Calls
        /\ sid[Target(k)] = hmsg[k].sid /\ pc[Target(k)] \in Waiting
        /\ served[Target(k)] = hmsg[k].code /\ hmsg[k].packet = PacketOf(Target(k), hmsg[k].code)
<1>1. hmsg[k] \in Response /\ hmsg[k].sid \in Sids /\ callItem[hmsg[k].sid] # Nil /\ Target(k) \in Calls
  BY DEF Step, TInv, TypeOK, Inv, SendInv, Target, Response, CallCond
<1>2. sid[Target(k)] = hmsg[k].sid /\ pc[Target(k)] \in Waiting
  BY <1>1 DEF Step, Inv, MapInv, SendInv, Target
<1>3. Genuine(hmsg[k])
  BY DEF Step, Inv, ReplyInv, Dispatching
<1> QED
  BY <1>1, <1>2, <1>3 DEF Genuine

LEMMA DispatchEffect == ASSUME Step, NEW k \in Conns, Dispatch(k)
  PROVE /\ hpc[k] = "lookup" /\ hmsg[k] \in Response /\ hmsg[k].sid \in Sids
        /\ wWriter = Nil
        /\ \A s \in Sids : callItem'[s] = Nil <=> callItem[s] = Nil
        /\ \A s \in Sids : callItem[s] # Nil => callItem'[s].ch = callItem[s].ch
        /\ \A s \in Sids : s # hmsg[k].sid => callItem'[s] = callItem[s]
        /\ callItem[hmsg[k].sid] # Nil => /\ callItem'[hmsg[k].sid].code = hmsg[k].code
                                         /\ callItem'[hmsg[k].sid].packet = hmsg[k].packet
        /\ \A l \in Conns \ {k} : hpc'[l] = hpc[l] /\ rlocks'[l] = rlocks[l]
        /\ \/ /\ hpc'[k] = "send" /\ rlocks'[k] = rlocks[k] + 1
              /\ callItem[hmsg[k].sid] # Nil /\ callItem[hmsg[k].sid].ch \notin closed
           \/ hpc'[k] = "read" /\ rlocks' = rlocks
        /\ UNCHANGED <<callVars, closed, wWriter, hmsg, netVars, destVars>>
<1> DEFINE m == hmsg[k]
           item == [ch |-> callItem[m.sid].ch, code |-> m.code, packet |-> m.packet]
<1>1. hpc[k] = "lookup" /\ m \in Response /\ m.sid \in Sids /\ m.code \in Codes /\ m.packet \in Packets
  BY DEF Dispatch, Step, TInv, Response
<1>2. callItem[m.sid] # Nil => item \in CallCond /\ item # Nil
  BY <1>1, ConstantsOK DEF ConstantsOK, Step, TInv, TypeOK, CallCond
<1>3. item.ch = callItem[m.sid].ch /\ item.code = m.code /\ item.packet = m.packet
  OBVIOUS
<1>4. callItem' = IF callItem[m.sid] = Nil THEN callItem ELSE [callItem EXCEPT ![m.sid] = item]
  BY DEF Dispatch
<1>5. /\ UNCHANGED <<callVars, closed, wWriter, hmsg, netVars, destVars>> /\ wWriter = Nil
      /\ \/ /\ hpc' = [hpc EXCEPT ![k] = "send"] /\ rlocks' = [rlocks EXCEPT ![k] = @ + 1]
            /\ callItem[m.sid] # Nil /\ callItem[m.sid].ch \notin closed
         \/ hpc' = [hpc EXCEPT ![k] = "read"] /\ rlocks' = rlocks
  BY DEF Dispatch, CanRLock
<1> HIDE DEF item, m
<1> QED
  BY <1>1, <1>2, <1>3, <1>4, <1>5 DEF Step, TInv, TypeOK, m

LEMMA DispatchKeepsInv == ASSUME Step, NEW k \in Conns, Dispatch(k) PROVE Inv'
<1> USE DEF Step, Inv, TInv, TypeOK, callVars, itemVars, readVars, netVars, destVars
<1>1. SidInv'
  BY DispatchEffect DEF SidInv
<1>2. MapInv'
  BY DispatchEffect DEF MapInv, InMap, Waiting, Replied, CallCond
<1>3. InMapInv'
  BY DispatchEffect DEF InMapInv, InMap, Waiting, Replied
<1>4. PhaseInv'
  BY DispatchEffect DEF PhaseInv
<1>5. LockInv'
  BY DispatchEffect DEF LockInv
<1>6. WireInv'
  BY DispatchEffect DEF WireInv, Unsent, Waiting, Request
<1>7. ReplyInv'
  BY DispatchEffect DEF ReplyInv, Genuine, Dispatching, PacketOf, Waiting, Response
<1>8. SendInv'
  <2>1. Genuine(hmsg[k])
    BY DispatchEffect DEF ReplyInv, Dispatching
  <2>2. hpc'[k] = "send" => pc[callItem[hmsg[k].sid].ch] \in Waiting
    BY <2>1, DispatchEffect DEF Genuine, CallCond, MapInv, InMap, Waiting, Replied
  <2>3. \A l \in Conns \ {k} : hpc[l] = "send" =>
          hmsg[l].sid \in Sids /\ hmsg[l].sid # hmsg[k].sid
    BY SendFacts, DispatchEffect DEF ReplyInv, Dispatching
  <2> QED
    BY <2>2, <2>3, DispatchEffect DEF SendInv
<1>9. RepliedInv'
  <2>1. \A c \in Calls : pc[c] \in Replied => sid[c] \in Sids /\ sid[c] # hmsg[k].sid
    BY DispatchEffect DEF ReplyInv, Genuine, Dispatching, Replied, Waiting
  <2> QED
    BY <2>1, DispatchEffect DEF RepliedInv, PacketOf
<1>10. AnswerToOwnRequest'
  BY DispatchEffect DEF AnswerToOwnRequest
<1> QED
  BY <1>1, <1>2, <1>3, <1>4, <1>5, <1>6, <1>7, <1>8, <1>9, <1>10

LEMMA DeliverEffect == ASSUME Step, NEW k \in Conns, Deliver(k)
  PROVE LET c == Target(k) IN
        /\ hpc[k] = "send" /\ pc[c] = "select" /\ pc'[c] = "reply" 
        /\ \A d \in Calls \ {c} : pc'[d] = pc[d]
        /\ hpc'[k] = "unlock" /\ \A l \in Conns \ {k} : hpc'[l] = hpc[l]
        /\ UNCHANGED <<sid, conn, ret, counter, itemVars, rlocks, hmsg, netVars,
                 destVars>>
<1>1. Target(k) \in Calls
  BY SendFacts DEF Deliver
<1> QED
  BY <1>1 DEF Step, Deliver, TInv, TypeOK

LEMMA DeliverKeepsInv == ASSUME Step, NEW k \in Conns, Deliver(k) PROVE Inv'
<1> USE DEF Step, Inv, TInv, TypeOK, callVars, itemVars, readVars, netVars, destVars
<1>1. SidInv'
  BY DeliverEffect, SendFacts DEF SidInv
<1>2. MapInv'
  BY DeliverEffect, SendFacts DEF MapInv, InMap, Waiting, Replied, CallCond
<1>3. InMapInv'
  BY DeliverEffect, SendFacts DEF InMapInv, InMap, Waiting, Replied
<1>4. PhaseInv'
  BY DeliverEffect, SendFacts, ConstantsOK DEF PhaseInv, ConstantsOK
<1>5. LockInv'
  BY DeliverEffect, SendFacts DEF LockInv
<1>6. WireInv'
  <2> DEFINE c == Target(k)
  <2>1. \A r \in wire : r.call # c
    BY SendFacts, DeliverEffect, ConstantsOK DEF ConstantsOK, WireInv, Response
  <2> QED
    BY <2>1, SendFacts, DeliverEffect DEF Request, WireInv, Unsent, Waiting
<1>7. ReplyInv'
  <2> DEFINE c == Target(k)
  <2>1. \A m \in inbox : m.sid # sid[c]
    BY SendFacts, DeliverEffect DEF ReplyInv, Dispatching
  <2>2. \A l \in Conns \ {k} : Dispatching(l) => hmsg[l].sid # sid[c]
    BY SendFacts, DeliverEffect DEF ReplyInv, Dispatching
  <2>3. \A m \in Response : m.sid # sid[c] /\ Genuine(m) => Genuine(m)'
    BY DeliverEffect DEF Genuine, PacketOf
  <2>4. \A l \in Conns : Dispatching(l)' =>
          l # k /\ Dispatching(l) /\ hmsg'[l] = hmsg[l] /\ hmsg[l] \in Response
    BY DeliverEffect DEF Dispatching
  <2>5. inbox' = inbox /\ inbox \subseteq Response
    BY DeliverEffect
  <2> HIDE DEF c
  <2> QED
    BY <2>1, <2>2, <2>3, <2>4, <2>5 DEF ReplyInv
<1>8. SendInv'
  <2>1. \A l \in Conns \ {k} : hpc[l] = "send" => Target(l) # Target(k)
    BY SendFacts, DeliverEffect DEF ReplyInv, Dispatching
  <2>2. \A l \in Conns : hpc[l] = "send" => Target(l) \in Calls
    BY SendFacts
  <2> QED
    BY <2>1, <2>2, DeliverEffect DEF SendInv, Target
<1>9. RepliedInv'
  BY DeliverEffect, SendFacts DEF RepliedInv, Replied, PacketOf, SendInv, Target
<1>10. AnswerToOwnRequest'
  BY DeliverEffect, SendFacts DEF AnswerToOwnRequest
<1> QED
  BY <1>1, <1>2, <1>3, <1>4, <1>5, <1>6, <1>7, <1>8, <1>9, <1>10

LEMMA UnlockKeepsInv == ASSUME Step, NEW k \in Conns, Unlock(k) PROVE Inv'
<1> USE DEF Step, Inv, TInv, TypeOK, callVars, itemVars, readVars, netVars, destVars, Unlock
<1>1. SidInv'
  BY DEF SidInv
<1>2. MapInv'
  BY DEF MapInv, InMap, Waiting, Replied, CallCond
<1>3. InMapInv'
  BY DEF InMapInv, InMap, Waiting, Replied
<1>4. PhaseInv'
  BY DEF PhaseInv
<1>5. LockInv'
  BY DEF LockInv
<1>6. WireInv'
  BY DEF WireInv, Unsent, Waiting, Request
<1>7. ReplyInv'
  BY DEF ReplyInv, Genuine, Dispatching, PacketOf, Waiting, Response
<1>8. SendInv'
  BY DEF SendInv, Waiting, CallCond, Response
<1>9. RepliedInv'
  BY DEF RepliedInv, Replied, PacketOf
<1>10. AnswerToOwnRequest'
  BY DEF AnswerToOwnRequest
<1> QED
  BY <1>1, <1>2, <1>3, <1>4, <1>5, <1>6, <1>7, <1>8, <1>9, <1>10

LEMMA ExitKeepsInv == ASSUME Step, NEW k \in Conns, ReaderExits(k) PROVE Inv'
<1> USE DEF Step, Inv, TInv, TypeOK, callVars, itemVars, readVars, netVars, destVars, ReaderExits
<1>1. SidInv'
  BY DEF SidInv
<1>2. MapInv'
  BY DEF MapInv, InMap, Waiting, Replied, CallCond
<1>3. InMapInv'
  BY DEF InMapInv, InMap, Waiting, Replied
<1>4. PhaseInv'
  BY DEF PhaseInv
<1>5. LockInv'
  BY DEF LockInv
<1>6. WireInv'
  BY DEF WireInv, Unsent, Waiting, Request
<1>7. ReplyInv'
  BY DEF ReplyInv, Genuine, Dispatching, PacketOf, Waiting, Response
<1>8. SendInv'
  BY DEF SendInv, Waiting, CallCond, Response
<1>9. RepliedInv'
  BY DEF RepliedInv, Replied, PacketOf
<1>10. AnswerToOwnRequest'
  BY DEF AnswerToOwnRequest
<1> QED
  BY <1>1, <1>2, <1>3, <1>4, <1>5, <1>6, <1>7, <1>8, <1>9, <1>10

-----------------------------------------------------------------------------
(* The server.                                                              *)

LEMMA LoseKeepsInv == ASSUME Step, NEW r \in wire, Lose(r) PROVE Inv'
<1> USE DEF Step, Inv, TInv, TypeOK, callVars, itemVars, readVars, netVars, destVars, Lose
<1>1. SidInv'
  BY DEF SidInv
<1>2. MapInv'
  BY DEF MapInv, InMap, Waiting, Replied, CallCond
<1>3. InMapInv'
  BY DEF InMapInv, InMap, Waiting, Replied
<1>4. PhaseInv'
  BY DEF PhaseInv
<1>5. LockInv'
  BY DEF LockInv
<1>6. WireInv'
  BY DEF WireInv, Unsent, Waiting, Request
<1>7. ReplyInv'
  BY DEF ReplyInv, Genuine, Dispatching, PacketOf, Waiting, Response
<1>8. SendInv'
  BY DEF SendInv, Waiting, CallCond, Response
<1>9. RepliedInv'
  BY DEF RepliedInv, Replied, PacketOf
<1>10. AnswerToOwnRequest'
  BY DEF AnswerToOwnRequest
<1> QED
  BY <1>1, <1>2, <1>3, <1>4, <1>5, <1>6, <1>7, <1>8, <1>9, <1>10

LEMMA AnswerKeepsInv == ASSUME Step, NEW r \in wire, NEW code \in Codes, Answer(r, code) PROVE Inv'
<1> USE DEF Step, Inv, TInv, TypeOK, callVars, itemVars, readVars, netVars, destVars, Answer
<1>1. SidInv'
  BY DEF SidInv
<1>2. MapInv'
  BY DEF MapInv, InMap, Waiting, Replied, CallCond
<1>3. InMapInv'
  BY DEF InMapInv, InMap, Waiting, Replied
<1>4. PhaseInv'
  BY DEF PhaseInv
<1>5. LockInv'
  BY DEF LockInv
<1>6. WireInv'
  BY DEF WireInv, Unsent, Waiting, Request
<1>7. ReplyInv'
  <2>1. r \in Request /\ r.call \in Calls /\ r.sid = sid[r.call] /\ r.sid \in Sids /\ served[r.call] = Nil /\ pc[r.call] \in Waiting \cup {"done"}
    BY DEF WireInv, Request
  <2>2. \A n \in Response : Genuine(n) => n.sid # r.sid
    BY <2>1, ConstantsOK DEF ConstantsOK, Genuine, Response
  <2>3. \A n \in Response : Genuine(n) => Genuine(n)'
    BY <2>1, <2>2 DEF Answer, Genuine, PacketOf
  <2>4. PICK m \in Response : /\ m.sid = r.sid /\ m.code = code /\ m.packet = PacketOf(r.call, code)
                              /\ inbox' \subseteq inbox \cup {m}
    <3> DEFINE n == [conn |-> r.conn, sid |-> r.sid, code |-> code,
             packet |-> IF code = 0 THEN r.call ELSE Nil, onlyCall |-> r.onlyCall]
    <3>1. n \in Response
      BY <2>1 DEF Request, Response, Packets
    <3>2. inbox' \subseteq inbox \cup {n}
      BY DEF Answer
    <3> QED
      BY <3>1, <3>2 DEF PacketOf
  <2>6. \A d \in Calls : sid[d] = r.sid => d = r.call
    BY <2>1, ConstantsOK DEF ConstantsOK, SidInv, Sids
  <2>7. Genuine(m)'
    BY <2>1, <2>4, <2>6 DEF Answer, Genuine, SidInv
  <2>8. inbox \subseteq Response /\ \A k \in Conns : Dispatching(k) => hmsg[k] \in Response
    BY DEF Dispatching
  <2>9. UNCHANGED <<hpc, hmsg>>
    BY DEF Answer
  <2>10. (\A n \in inbox : Genuine(n))'
    BY <2>3, <2>4, <2>7, <2>8 DEF ReplyInv
  <2>11. (\A k \in Conns : Dispatching(k) => Genuine(hmsg[k]))'
    BY <2>3, <2>8, <2>9 DEF ReplyInv, Dispatching
  <2>12. \A n \in inbox : n.sid # m.sid
    BY <2>2, <2>4, <2>8 DEF ReplyInv
  <2>13. \A k \in Conns : Dispatching(k) => hmsg[k].sid # m.sid
    BY <2>2, <2>4, <2>8 DEF ReplyInv
  <2> QED
    BY <2>4, <2>9, <2>10, <2>11, <2>12, <2>13 DEF ReplyInv, Dispatching
<1>8. SendInv'
  BY DEF SendInv, Waiting, CallCond, Response
<1>9. RepliedInv'
  BY ConstantsOK DEF RepliedInv, Replied, PacketOf, ConstantsOK, WireInv, Waiting, Request
<1>10. AnswerToOwnRequest'
  BY ConstantsOK DEF AnswerToOwnRequest, ConstantsOK, Codes, WireInv, Request
<1> QED
  BY <1>1, <1>2, <1>3, <1>4, <1>5, <1>6, <1>7, <1>8, <1>9, <1>10

-----------------------------------------------------------------------------

LEMMA InvInit == Init => Inv
  BY ConstantsOK DEF ConstantsOK, Init, Inv, SidInv, MapInv, InMapInv, PhaseInv, LockInv,
     WireInv, ReplyInv, SendInv, RepliedInv, AnswerToOwnRequest, Dispatching, Waiting,
     Replied, InMap, Sids

LEMMA NoPanic == Step => ~ AboutToPanic
<1> SUFFICES ASSUME Step, AboutToPanic PROVE FALSE
  OBVIOUS
<1>1. ASSUME NEW c \in Calls, pc[c] = "closing", c \in closed PROVE FALSE
  BY <1>1 DEF Step, Inv, PhaseInv
<1>2. ASSUME NEW c \in Calls, pc[c] \in {"timingOut", "replying"}, ClosePanics(c) PROVE FALSE
  BY <1>2, OwnItem
<1>3. ASSUME NEW k \in Conns, hpc[k] = "send",
             callItem[hmsg[k].sid] = Nil \/ Target(k) \in closed
      PROVE FALSE
  BY <1>3, SendFacts DEF Step, Inv, PhaseInv, Waiting
<1> QED
  BY <1>1, <1>2, <1>3 DEF AboutToPanic

LEMMA IInvInit == Init => IInv
  BY TInvInit, InvInit DEF IInv, UntilDestroy

(* Destroy is begun once, and nothing undoes it.                            *)
LEMMA IdleBefore == [Next]_vars /\ dpc' = "idle" => dpc = "idle"
<1>1. ASSUME NEW c \in Calls, CallStep(c) \/ TimerFires(c) PROVE dpc' = dpc
  BY <1>1 DEF CallStep, TimerFires, GetConn, TakeSid, LockToRegister, LockAfterTimeout,
     LockAfterReply, Announce, Register, Write, WriteFails, CloseWaitCh, EnterSelect,
     ReceiveClosed, FinishTimeout, FinishReply, destVars
<1>2. ASSUME NEW k \in Conns, ReaderStep(k) \/ ReaderExits(k) PROVE dpc' = dpc
  BY <1>2 DEF ReaderStep, ReaderExits, ReadResponse, Dispatch, Deliver, SendPanics, Unlock, destVars
<1>3. ServerStep => dpc' = dpc
  BY DEF ServerStep, Lose, Answer, destVars
<1>4. DestroySockets \/ DestroyStep => dpc' # "idle"
  BY DEF DestroySockets, DestroyStep, DestroyRLock, DestroyEnds, DestroyClose
<1>5. UNCHANGED vars => dpc' = dpc
  BY DEF vars, destVars
<1> QED
  BY <1>1, <1>2, <1>3, <1>4, <1>5 DEF Next

LEMMA IInvNext == IInv /\ [Next]_vars => IInv'
<1> SUFFICES ASSUME IInv, [Next]_vars, (dpc = "idle")' PROVE Inv'
  BY TInvNext DEF IInv, UntilDestroy
<1>1. dpc = "idle"
  BY IdleBefore
<1>2. Step
  BY <1>1 DEF Step, IInv, UntilDestroy
<1>3. ASSUME NEW c \in Calls, CallStep(c) \/ TimerFires(c) PROVE Inv'
  <2>1. ~ ReceiveClosed(c)
    BY <1>2 DEF Step, Inv, PhaseInv, ReceiveClosed
  <2> QED
    BY <1>2, <1>3, <2>1, GetConnKeepsInv, TakeSidKeepsInv, MovesSteps, MovesKeepsInv,
       RegisterKeepsInv, WriteKeepsInv, CloseKeepsInv, TimeoutDrops, ReplyDrops,
       DropsKeepsInv DEF CallStep
<1>4. ASSUME NEW k \in Conns, ReaderStep(k) \/ ReaderExits(k) PROVE Inv'
  <2>1. ~ SendPanics(k)
    BY <1>2, SendFacts DEF Step, Inv, PhaseInv, Waiting, SendPanics
  <2> QED
    BY <1>2, <1>4, <2>1, ReadKeepsInv, DispatchKeepsInv, DeliverKeepsInv, UnlockKeepsInv,
       ExitKeepsInv DEF ReaderStep
<1>5. CASE ServerStep
  BY <1>2, <1>5, LoseKeepsInv, AnswerKeepsInv DEF ServerStep
<1>6. CASE DestroySockets \/ DestroyStep
  BY <1>1, <1>6 DEF DestroySockets, DestroyStep, DestroyRLock, DestroyEnds, DestroyClose
<1>7. CASE UNCHANGED vars
  <2> USE <1>7 DEF vars, callVars, itemVars, readVars, netVars, destVars
  <2> USE <1>2 DEF Step, Inv
  <2>1. SidInv' /\ MapInv' /\ InMapInv' /\ PhaseInv' /\ LockInv'
    BY DEF SidInv, MapInv, InMapInv, PhaseInv, LockInv
  <2>2. WireInv' /\ SendInv' /\ RepliedInv' /\ AnswerToOwnRequest'
    BY DEF WireInv, SendInv, RepliedInv, AnswerToOwnRequest
  <2>3. ReplyInv'
    BY DEF ReplyInv, Genuine, Dispatching
  <2> QED
    BY <2>1, <2>2, <2>3
<1> QED
  BY <1>3, <1>4, <1>5, <1>6, <1>7 DEF Next

(* The strengthened invariant from which the theorems below follow.        *)
THEOREM InvariantHolds == Spec => []IInv
  BY IInvInit, IInvNext, PTL DEF Spec

(* Until Destroy, a call that returns without an error holds the packet a   *)
(* server answered to that very call: replies are never mixed up, however   *)
(* many calls share the map, the connections and the lock.                  *)
THEOREM AnswersCorrect == Spec => []AnswersUntilDestroy
<1>1. IInv => AnswersUntilDestroy
  BY DEF IInv, Inv, AnswersUntilDestroy, UntilDestroy
<1> QED
  BY <1>1, InvariantHolds, PTL

(* Until Destroy, no channel is closed twice, none is sent on after it was  *)
(* closed, and nobody reaches through a missing entry of callItem.          *)
THEOREM NoPanicBeforeDestroy == Spec => []PanicOnlyAfterDestroy
<1>1. IInv => PanicOnlyAfterDestroy
  BY NoPanic DEF IInv, Step, PanicOnlyAfterDestroy, UntilDestroy
<1> QED
  BY <1>1, InvariantHolds, PTL

(* Until Destroy, callItem holds calls in flight and failed writes only.    *)
THEOREM NoLeftovers == Spec => []ItemsAccountedFor
<1>1. IInv => ItemsAccountedFor
  BY DEF IInv, Inv, MapInv, InMap, Waiting, Replied, ItemsAccountedFor, UntilDestroy
<1> QED
  BY <1>1, InvariantHolds, PTL

(* Until Destroy, a reader that finds no receiver waits for a call whose    *)
(* timer expired: the only way the client can lock up.                      *)
THEOREM OnlyTimers == Spec => []OnlyTimersStrandReaders
<1>1. ASSUME Step, NEW k \in Conns, hpc[k] = "send"
      PROVE  \/ pc[Target(k)] \in {"written", "select"}
             \/ Stranded(k) /\ Target(k) \in Timers
  BY <1>1, SendFacts DEF Waiting, Stranded, Step, Inv, PhaseInv
<1>2. IInv => OnlyTimersStrandReaders
  BY <1>1 DEF IInv, Step, OnlyTimersStrandReaders, UntilDestroy
<1> QED
  BY <1>2, InvariantHolds, PTL

-----------------------------------------------------------------------------
(* Whatever Destroy does, a packet stays with the call it answers.          *)

(* A packet p under the Sid s is the answer to the call that drew s.        *)
Owned(p, s) == p # Nil => sid[p] = s /\ served[p] = 0

OwnItems ==
  \A s \in Sids : callItem[s] # Nil =>
    sid[callItem[s].ch] = s /\ Owned(callItem[s].packet, s)

OwnReplies ==
  /\ \A m \in inbox : Owned(m.packet, m.sid)
  /\ \A k \in Conns : Dispatching(k) => Owned(hmsg[k].packet, hmsg[k].sid)

(* A request on its way is the only one of its call and is not answered yet.*)
OwnRequests ==
  /\ \A r \in wire : /\ r.sid = sid[r.call]
                     /\ served[r.call] = Nil
                     /\ pc[r.call] \notin Unsent
  /\ \A r, q \in wire : r.call = q.call => r = q
  /\ \A c \in Calls : pc[c] \in Unsent => served[c] = Nil

OwnInv == SidInv /\ OwnItems /\ OwnReplies /\ OwnRequests /\ OwnPacketOnly

(* A step that draws no Sid, puts nothing on its way, and stores and        *)
(* returns a packet only to the call it answers.                            *)
Quiet ==
  /\ UNCHANGED <<sid, counter, served>>
  /\ inbox' \subseteq inbox /\ wire' \subseteq wire
  /\ \A k \in Conns : Dispatching(k)' => Dispatching(k) /\ hmsg'[k] = hmsg[k]
  /\ \A c \in Calls : /\ pc'[c] \in Unsent => pc[c] \in Unsent
                      /\ pc'[c] \in {"start", "call"} => pc[c] \in {"start", "call"}
  /\ \A s \in Sids : callItem'[s] # Nil =>
       sid[callItem'[s].ch] = s /\ Owned(callItem'[s].packet, s)
  /\ \A c \in Calls : \/ ret'[c] = ret[c]
                      \/ ret'[c].packet # Nil => ret'[c].packet = c /\ served[c] = 0

LEMMA QuietKeepsOwn ==
  ASSUME TInv, OwnInv, Quiet
  PROVE  OwnInv'
<1> USE DEF OwnInv, Quiet
<1>1. SidInv'
  BY DEF SidInv
<1>2. OwnItems'
  BY DEF OwnItems, Owned
<1>3. OwnReplies'
  BY DEF OwnReplies, Owned
<1>4. OwnRequests'
  BY DEF OwnRequests, TInv, TypeOK, Request
<1>5. OwnPacketOnly'
  BY DEF OwnPacketOnly
<1> QED
  BY <1>1, <1>2, <1>3, <1>4, <1>5

(* A call that returns without a packet, and one that returns what the map  *)
(* holds for it.                                                            *)
Returned(c) == pc'[c] = "done" /\ Others(c)

LEMMA NoPacketEffect ==
  ASSUME TypeOK, NEW c \in Calls, NEW code,
         Finish(c, TRUE, Nil, code) \/ Finish(c, FALSE, Nil, code)
  PROVE  Returned(c) /\ ret'[c].packet = Nil /\ ret'[c].rpcCode = code
<1>1. CASE Finish(c, TRUE, Nil, code)
  BY <1>1 DEF TypeOK, Finish, Goto, Others, Returned
<1>2. CASE Finish(c, FALSE, Nil, code)
  BY <1>2 DEF TypeOK, Finish, Goto, Others, Returned
<1> QED
  BY <1>1, <1>2

LEMMA ReturnsWithoutPacket ==
  ASSUME TypeOK, NEW c \in Calls,
         CloseWaitCh(c) \/ FinishTimeout(c) \/ (WriteFails(c) /\ c \in closed)
  PROVE  pc'[c] = "done" /\ Others(c) /\ ret'[c].packet = Nil
<1>1. CASE CloseWaitCh(c)
  BY <1>1 DEF TypeOK, CloseWaitCh, Recovered, Finish, Goto, Others
<1>2. CASE FinishTimeout(c)
  BY <1>2 DEF TypeOK, FinishTimeout, Recovered, Finish, Goto, Others
<1>3. CASE WriteFails(c) /\ c \in closed
  BY <1>3 DEF TypeOK, WriteFails, Finish, Goto, Others
<1> QED
  BY <1>1, <1>2, <1>3

LEMMA FinishReplyReturns ==
  ASSUME TypeOK, NEW c \in Calls, FinishReply(c), ~ ClosePanics(c)
  PROVE  /\ pc'[c] = "done" /\ Others(c) /\ DropItem(c)
         /\ ret'[c].packet = IF callItem[sid[c]].code = 0 THEN callItem[sid[c]].packet ELSE Nil
<1> DEFINE item == callItem[sid[c]]
           r == [err |-> item.code # 0, packet |-> IF item.code = 0 THEN item.packet ELSE Nil,
                 rpcCode |-> item.code]
<1>1. DropItem(c) /\ Goto(c, "done") /\ ret' = [ret EXCEPT ![c] = r]
  BY DEF FinishReply, Finish
<1>2. r.packet = IF item.code = 0 THEN item.packet ELSE Nil
  OBVIOUS
<1> HIDE DEF r
<1> QED
  BY <1>1, <1>2 DEF TypeOK, Goto, Others

(* The steps of a call that neither draw a Sid nor send the request.        *)
LEMMA CallQuiet ==
  ASSUME TInv, OwnInv, NEW c \in Calls, CallStep(c) \/ TimerFires(c),
         ~ TakeSid(c), ~ Write(c)
  PROVE  Quiet
<1> USE DEF TInv, TypeOK, Quiet, itemVars, readVars, netVars, destVars, Dispatching, Unsent
<1>0. ASSUME UNCHANGED callItem
      PROVE  \A s \in Sids : callItem'[s] # Nil =>
               sid[callItem'[s].ch] = s /\ Owned(callItem'[s].packet, s)
  BY <1>0 DEF OwnInv, OwnItems
<1>1. CASE GetConn(c)
  <2>1. CASE UNCHANGED ret
    BY <1>0, <1>1, <2>1 DEF GetConn, Goto, Finish
  <2>2. CASE Finish(c, TRUE, Nil, -1)
    BY <1>0, <1>1, <2>2, NoPacketEffect DEF GetConn, Others, Returned
  <2> QED
    BY <1>1, <2>1, <2>2 DEF GetConn
<1>2. CASE LockToRegister(c) \/ LockAfterTimeout(c) \/ LockAfterReply(c)
  BY <1>0, <1>2 DEF LockToRegister, LockAfterTimeout, LockAfterReply, Announce
<1>3. CASE Register(c)
  <2> DEFINE item == [ch |-> c, code |-> 0, packet |-> Nil]
  <2>1. sid[c] \in Sids
    BY <1>3 DEF Register
  <2>2. \A s \in Sids : callItem'[s] = IF s = sid[c] THEN item ELSE callItem[s]
    BY <1>3, <2>1 DEF Register
  <2>3. \A s \in Sids : callItem'[s] # Nil =>
          sid[callItem'[s].ch] = s /\ Owned(callItem'[s].packet, s)
    BY <2>1, <2>2 DEF OwnInv, OwnItems, Owned
  <2> HIDE DEF item
  <2> QED
    BY <1>3, <2>3 DEF Register, Goto
<1>4. CASE WriteFails(c)
  <2>1. CASE c \in closed
    <3>2. pc'[c] = "done" /\ Others(c) /\ ret'[c].packet = Nil
      BY <1>4, <2>1, ReturnsWithoutPacket
    <3> QED
      BY <1>0, <1>4, <3>2 DEF WriteFails, Others
  <2>2. CASE c \notin closed
    BY <1>0, <1>4, <2>2 DEF WriteFails, Goto
  <2> QED
    BY <2>1, <2>2
<1>5. CASE CloseWaitCh(c)
  <2>2. pc'[c] = "done" /\ Others(c) /\ ret'[c].packet = Nil
    BY <1>5, ReturnsWithoutPacket
  <2> QED
    BY <1>0, <1>5, <2>2 DEF CloseWaitCh, Others
<1>6. CASE EnterSelect(c) \/ TimerFires(c) \/ ReceiveClosed(c)
  BY <1>0, <1>6 DEF EnterSelect, TimerFires, ReceiveClosed, Goto
<1>7. CASE FinishTimeout(c)
  <2>1. pc'[c] = "done" /\ Others(c) /\ ret'[c].packet = Nil
    BY <1>7, ReturnsWithoutPacket
  <2>2. \A s \in Sids : callItem'[s] = callItem[s] \/ callItem'[s] = Nil
    BY <1>7 DEF FinishTimeout, DropItem
  <2>3. \A s \in Sids : callItem'[s] # Nil =>
          sid[callItem'[s].ch] = s /\ Owned(callItem'[s].packet, s)
    BY <2>2 DEF OwnInv, OwnItems
  <2> QED
    BY <1>7, <2>1, <2>3 DEF FinishTimeout, Others
<1>8. CASE FinishReply(c)
  <2> DEFINE item == callItem[sid[c]]
  <2>1. sid[c] \in Sids /\ item \in CallCond \cup {Nil}
    BY <1>8 DEF FinishReply
  <2>2. CASE ClosePanics(c)
    <3>1. pc'[c] = "done" /\ Others(c) /\ ret'[c].packet = Nil
      <4>1. Finish(c, FALSE, Nil, IF item = Nil THEN -1 ELSE item.code)
        BY <1>8, <2>2 DEF FinishReply, Recovered
      <4> QED
        BY <4>1, NoPacketEffect DEF Returned
    <3>2. \A s \in Sids : \/ callItem'[s] = callItem[s]
                          \/ callItem[s] # Nil /\ callItem'[s].ch = callItem[s].ch
                                               /\ callItem'[s].packet = Nil
      BY <1>8, <2>1, <2>2 DEF FinishReply, CallCond
    <3>3. \A s \in Sids : callItem'[s] # Nil =>
            sid[callItem'[s].ch] = s /\ Owned(callItem'[s].packet, s)
      BY <3>2 DEF OwnInv, OwnItems, Owned
    <3> HIDE DEF item
    <3> QED
      BY <1>8, <3>1, <3>3 DEF FinishReply, Others
  <2>3. CASE ~ ClosePanics(c)
    <3>1. item # Nil /\ item \in CallCond
      BY <2>1, <2>3 DEF ClosePanics
    <3>2. item.ch \in Calls /\ sid[item.ch] = sid[c] /\ Owned(item.packet, sid[c])
          /\ item.packet \in Calls \cup {Nil}
      BY <2>1, <3>1 DEF OwnInv, OwnItems, CallCond, Packets
    <3>3. item.packet # Nil => item.packet = c /\ served[c] = 0
      <4>1. \A d \in Calls : sid[d] = sid[c] => d = c
        BY <2>1 DEF OwnInv, SidInv, Sids
      <4> HIDE DEF item
      <4> QED
        BY <3>2, <4>1 DEF Owned
    <3>5. /\ pc'[c] = "done" /\ Others(c) /\ DropItem(c)
          /\ ret'[c].packet = IF item.code = 0 THEN item.packet ELSE Nil
      BY <1>8, <2>3, FinishReplyReturns
    <3>6. \A s \in Sids : callItem'[s] = callItem[s] \/ callItem'[s] = Nil
      BY <3>5 DEF DropItem
    <3>7. \A s \in Sids : callItem'[s] # Nil =>
            sid[callItem'[s].ch] = s /\ Owned(callItem'[s].packet, s)
      BY <3>6 DEF OwnInv, OwnItems
    <3> HIDE DEF item
    <3> QED
      BY <1>8, <3>3, <3>5, <3>7 DEF FinishReply, Others
  <2> QED
    BY <2>2, <2>3
<1> QED
  BY <1>1, <1>2, <1>3, <1>4, <1>5, <1>6, <1>7, <1>8 DEF CallStep

(* The steps of readers, servers and Destroy that hand on no packet.        *)
LEMMA OtherQuiet ==
  ASSUME TInv, OwnInv,
         \/ \E k \in Conns : Deliver(k) \/ SendPanics(k) \/ Unlock(k) \/ ReaderExits(k)
         \/ \E r \in wire : Lose(r)
         \/ DestroySockets \/ DestroyStep
         \/ UNCHANGED vars
  PROVE  Quiet
<1> USE DEF TInv, TypeOK, Quiet, callVars, itemVars, readVars, netVars, destVars,
            Dispatching, Unsent
<1>0. ASSUME UNCHANGED callItem
      PROVE  \A s \in Sids : callItem'[s] # Nil =>
               sid[callItem'[s].ch] = s /\ Owned(callItem'[s].packet, s)
  BY <1>0 DEF OwnInv, OwnItems
<1>1. ASSUME NEW k \in Conns, Deliver(k) \/ SendPanics(k) \/ Unlock(k) \/ ReaderExits(k)
      PROVE  Quiet
  BY <1>0, <1>1 DEF Deliver, SendPanics, Unlock, ReaderExits
<1>2. ASSUME NEW r \in wire, Lose(r)
      PROVE  Quiet
  BY <1>0, <1>2 DEF Lose
<1>3. CASE DestroySockets \/ DestroyStep
  BY <1>0, <1>3 DEF DestroySockets, DestroyStep, DestroyRLock, DestroyClose, DestroyEnds
<1>4. CASE UNCHANGED vars
  BY <1>0, <1>4 DEF vars
<1> QED
  BY <1>1, <1>2, <1>3, <1>4

LEMMA TakeSidKeepsOwn ==
  ASSUME TInv, OwnInv, NEW c \in Calls, TakeSid(c)
  PROVE  OwnInv'
<1>1. SidInv'
  BY ConstantsOK DEF ConstantsOK, OwnInv, SidInv, Sids, TInv, TypeOK, TakeSid, Goto
<1> USE DEF OwnInv, TInv, TypeOK, TakeSid, Goto, itemVars, readVars, netVars, destVars
<1>2. sid[c] = 0 /\ \A d \in Calls : d # c => sid'[d] = sid[d]
  BY DEF SidInv
<1>3. \A p \in Calls, s \in Sids : sid[p] = s => sid'[p] = s
  BY <1>2 DEF Sids
<1>4. \A p \in Packets, s \in Sids : Owned(p, s) => Owned(p, s)'
  BY <1>3 DEF Owned, Packets
<1>5. OwnItems'
  BY <1>3, <1>4 DEF OwnItems, CallCond
<1>6. OwnReplies'
  BY <1>4 DEF OwnReplies, Dispatching, Response
<1>7. OwnRequests'
  BY <1>2 DEF OwnRequests, Unsent, Request
<1>8. OwnPacketOnly'
  BY DEF OwnPacketOnly
<1> QED
  BY <1>1, <1>5, <1>6, <1>7, <1>8

LEMMA WriteKeepsOwn ==
  ASSUME TInv, OwnInv, NEW c \in Calls, Write(c)
  PROVE  OwnInv'
<1> USE DEF OwnInv, TInv, TypeOK, itemVars, readVars, netVars, destVars
<1>1. /\ pc[c] = "write" /\ pc'[c] \in {"done", "written"}
      /\ \A d \in Calls \ {c} : pc'[d] = pc[d] /\ ret'[d] = ret[d]
      /\ ret'[c] = ret[c] \/ ret'[c].packet = Nil
  <2>1. CASE c \in OnlyCalls
    <3>1. pc[c] = "write" /\ Finish(c, FALSE, Nil, 0)
      BY <2>1 DEF Write
    <3> QED
      BY <3>1, NoPacketEffect DEF Others, Returned
  <2>2. CASE c \notin OnlyCalls
    BY <2>2 DEF Write, Goto
  <2> QED
    BY <2>1, <2>2
<1>2. /\ UNCHANGED <<sid, counter, callItem, hpc, hmsg, inbox, served>>
      /\ wire' = wire \cup {[conn |-> conn[c], sid |-> sid[c], call |-> c,
                             onlyCall |-> c \in OnlyCalls]}
  BY DEF Write
<1>3. SidInv'
  BY <1>1, <1>2 DEF SidInv
<1>4. OwnItems' /\ OwnReplies'
  BY <1>2 DEF OwnItems, OwnReplies, Owned, Dispatching
<1>5. OwnRequests'
  <2>1. \A r \in wire : r.call # c
    BY <1>1 DEF OwnRequests, Unsent
  <2>2. served[c] = Nil
    BY <1>1 DEF OwnRequests, Unsent
  <2> QED
    BY <1>1, <1>2, <2>1, <2>2 DEF OwnRequests, Unsent, Request
<1>6. OwnPacketOnly'
  BY <1>1, <1>2 DEF OwnPacketOnly
<1> QED
  BY <1>3, <1>4, <1>5, <1>6

LEMMA ReadKeepsOwn ==
  ASSUME TInv, OwnInv, NEW k \in Conns, ReadResponse(k)
  PROVE  OwnInv'
<1> USE DEF OwnInv, TInv, TypeOK, callVars, itemVars, readVars, netVars, destVars
<1>1. PICK m \in inbox : /\ inbox' = inbox \ {m}
                         /\ \/ UNCHANGED <<hpc, hmsg>>
                            \/ /\ hpc' = [hpc EXCEPT ![k] = "lookup"]
                               /\ hmsg' = [hmsg EXCEPT ![k] = m]
  BY DEF ReadResponse
<1>2. UNCHANGED <<pc, sid, ret, counter, callItem, wire, served>>
  BY DEF ReadResponse
<1>3. SidInv' /\ OwnItems' /\ OwnRequests' /\ OwnPacketOnly'
  BY <1>2 DEF SidInv, OwnItems, Owned, OwnRequests, OwnPacketOnly
<1>4. OwnReplies'
  BY <1>1, <1>2 DEF OwnReplies, Owned, Dispatching
<1> QED
  BY <1>3, <1>4

LEMMA DispatchKeepsOwn ==
  ASSUME TInv, OwnInv, NEW k \in Conns, Dispatch(k)
  PROVE  OwnInv'
<1> USE DEF OwnInv, TInv, TypeOK
<1>1. hpc[k] = "lookup" /\ Owned(hmsg[k].packet, hmsg[k].sid) /\ hmsg[k].sid \in Sids
  BY DEF Dispatch, OwnReplies, Dispatching, Response
<1>2. \A s \in Sids : \/ callItem'[s] = callItem[s]
                      \/ /\ s = hmsg[k].sid /\ callItem[s] # Nil
                         /\ callItem'[s].ch = callItem[s].ch
                         /\ callItem'[s].packet = hmsg[k].packet
  BY <1>1 DEF Dispatch
<1>3. \A s \in Sids : callItem'[s] # Nil =>
        sid[callItem'[s].ch] = s /\ Owned(callItem'[s].packet, s)
  BY <1>1, <1>2 DEF OwnItems
<1>4. Quiet
  BY <1>3 DEF Dispatch, Quiet, callVars, netVars, Dispatching
<1> QED
  BY <1>4, QuietKeepsOwn

LEMMA AnswerKeepsOwn ==
  ASSUME TInv, OwnInv, NEW r \in wire, NEW code \in Codes, Answer(r, code)
  PROVE  OwnInv'
<1> USE DEF OwnInv, TInv, TypeOK, callVars, itemVars, readVars, destVars
<1>1. /\ r \in Request /\ r.call \in Calls /\ r.sid = sid[r.call]
      /\ served[r.call] = Nil /\ pc[r.call] \notin Unsent
  BY DEF OwnRequests, Request
<1>2. /\ wire' = wire \ {r}
      /\ served' = [served EXCEPT ![r.call] = code]
      /\ UNCHANGED <<pc, sid, ret, counter, callItem, hpc, hmsg>>
  BY DEF Answer
<1>3. \A p \in Packets, s \in Sids : Owned(p, s) => Owned(p, s)'
  <2>1. 0 # Nil
    BY ConstantsOK DEF ConstantsOK, Codes
  <2> QED
    BY <1>1, <1>2, <2>1 DEF Owned, Packets
<1>4. SidInv'
  BY <1>2 DEF SidInv
<1>5. OwnItems'
  BY <1>2, <1>3 DEF OwnItems, CallCond
<1>6. OwnReplies'
  <2> DEFINE m0 == [conn |-> r.conn, sid |-> r.sid, code |-> code,
                    packet |-> IF code = 0 THEN r.call ELSE Nil, onlyCall |-> r.onlyCall]
  <2>0. m0.sid = r.sid /\ m0.packet = IF code = 0 THEN r.call ELSE Nil
    OBVIOUS
  <2>1. inbox' = inbox \/ inbox' = inbox \cup {m0}
    BY DEF Answer
  <2> HIDE DEF m0
  <2>2. \A m \in inbox' : Owned(m.packet, m.sid)'
    BY <1>1, <1>2, <1>3, <2>0, <2>1 DEF OwnReplies, Owned, Response
  <2> QED
    BY <1>2, <1>3, <2>2 DEF OwnReplies, Dispatching, Response
<1>7. OwnRequests'
  BY <1>1, <1>2 DEF OwnRequests, Request
<1>8. OwnPacketOnly'
  <2>1. 0 # Nil
    BY ConstantsOK DEF ConstantsOK, Codes
  <2> QED
    BY <1>1, <1>2, <2>1 DEF OwnPacketOnly
<1> QED
  BY <1>4, <1>5, <1>6, <1>7, <1>8

LEMMA OwnNext == TInv /\ OwnInv /\ [Next]_vars => OwnInv'
<1> SUFFICES ASSUME TInv, OwnInv, [Next]_vars PROVE OwnInv'
  OBVIOUS
<1>1. ASSUME NEW c \in Calls, CallStep(c) \/ TimerFires(c) PROVE OwnInv'
  BY <1>1, CallQuiet, QuietKeepsOwn, TakeSidKeepsOwn, WriteKeepsOwn
<1>2. ASSUME NEW k \in Conns, ReaderStep(k) \/ ReaderExits(k) PROVE OwnInv'
  BY <1>2, OtherQuiet, QuietKeepsOwn, ReadKeepsOwn, DispatchKeepsOwn DEF ReaderStep
<1>3. CASE ServerStep
  BY <1>3, OtherQuiet, QuietKeepsOwn, AnswerKeepsOwn DEF ServerStep
<1>4. CASE DestroySockets \/ DestroyStep \/ UNCHANGED vars
  BY <1>4, OtherQuiet, QuietKeepsOwn
<1> QED
  BY <1>1, <1>2, <1>3, <1>4 DEF Next

LEMMA OwnInit == Init => OwnInv
BY ConstantsOK DEF ConstantsOK, Init, OwnInv, SidInv, OwnItems, OwnReplies, OwnRequests,
                   OwnPacketOnly, Dispatching

(* Destroy or not, a call is handed the packet a server answered to that    *)
(* very call, or none.                                                      *)
THEOREM OwnPackets == Spec => []OwnPacketOnly
<1>1. Spec => [](TInv /\ OwnInv)
  BY TInvInit, TInvNext, OwnInit, OwnNext, PTL DEF Spec
<1> QED
  BY <1>1, PTL DEF OwnInv

-----------------------------------------------------------------------------
(* What is left in the map when Destroy walks over it.                      *)

FailedWrite(c) == ret[c] # Nil /\ ret[c].rpcCode = 500

(* An entry with a closed channel is what a failed write left behind.       *)
LeftByWrite(s) == callItem[s].ch \in closed => FailedWrite(callItem[s].ch)

Leftover(c) == sid[c] \in Sids /\ FailedWrite(c) /\ callItem[sid[c]] # Nil

LeftInv ==
  /\ \A c \in Calls : ret[c] # Nil => pc[c] = "done"
  /\ \A c \in OnlyCalls : pc[c] \in {"start", "call", "write", "closing", "done"}
  /\ \A s \in Sids : callItem[s] # Nil => callItem[s].ch \notin OnlyCalls
  /\ dpc \in {"idle", "sockets"} =>
       /\ \A c \in closed : pc[c] = "done"
       /\ \A s \in Sids : callItem[s] # Nil => LeftByWrite(s)
  /\ dpc = "items" => \A s \in dTodo : LeftByWrite(s)
  /\ dpc = "panicked" => \E c \in Calls : Leftover(c)

(* A step of c touches only what belongs to c, closes its channel only on   *)
(* the way out, and leaves a closed channel in the map only after a failed  *)
(* write.                                                                   *)
OwnAffair(c) ==
  /\ pc[c] # "done" /\ UNCHANGED <<dpc, dTodo>>
  /\ \A d \in Calls \ {c} : pc'[d] = pc[d] /\ ret'[d] = ret[d] /\ sid'[d] = sid[d]
  /\ ret'[c] # Nil => pc'[c] = "done"
  /\ c \in OnlyCalls => pc'[c] \in {"start", "call", "write", "closing", "done"}
  /\ closed' \subseteq closed \cup {c}
  /\ closed' # closed => /\ pc'[c] = "done"
                         /\ \/ ret'[c] # Nil /\ ret'[c].rpcCode = 500
                            \/ c \in OnlyCalls
                            \/ sid[c] \in Sids /\ callItem'[sid[c]] = Nil
  /\ \A s \in Sids : callItem'[s] # Nil =>
       \/ callItem[s] # Nil /\ callItem'[s].ch = callItem[s].ch
       \/ /\ s = sid[c] /\ dpc # "items" /\ callItem'[s].ch = c
          /\ c \notin OnlyCalls /\ UNCHANGED closed /\ pc[c] = "registering"
  /\ \A s \in Sids : s # sid[c] => (callItem'[s] = Nil <=> callItem[s] = Nil)
  /\ dpc = "items" => UNCHANGED callItem

LEMMA OwnAffairKeepsLeft ==
  ASSUME TInv, OwnInv, LeftInv, NEW c \in Calls, OwnAffair(c)
  PROVE  LeftInv'
<1> USE DEF TInv, TypeOK, OwnInv, LeftInv, OwnAffair
<1>1. ret[c] = Nil
  OBVIOUS
<1>2. \A s \in Sids : callItem[s] # Nil => callItem[s].ch \in Calls /\ sid[callItem[s].ch] = s
  BY DEF OwnItems, CallCond
<1>3. \A d \in Calls : FailedWrite(d) => d # c /\ FailedWrite(d)'
  BY <1>1 DEF FailedWrite
<1>4. ASSUME NEW s \in Sids, callItem[s] # Nil, callItem'[s] # Nil,
             callItem'[s].ch = callItem[s].ch, LeftByWrite(s)
      PROVE  LeftByWrite(s)'
  <2> DEFINE d == callItem[s].ch
  <2>1. CASE d \in closed
    BY <1>2, <1>3, <1>4, <2>1 DEF LeftByWrite
  <2>2. CASE d \notin closed /\ d \in closed'
    <3>1. d = c /\ s = sid[c] /\ c \notin OnlyCalls
      BY <1>2, <1>4, <2>2
    <3>2. FailedWrite(c)'
      BY <1>4, <2>2, <3>1 DEF FailedWrite
    <3> QED
      BY <1>4, <3>1, <3>2 DEF LeftByWrite
  <2>3. CASE d \notin closed'
    BY <1>4, <2>3 DEF LeftByWrite
  <2> QED
    BY <2>1, <2>2, <2>3
<1>5. /\ \A d \in Calls : ret'[d] # Nil => pc'[d] = "done"
      /\ \A d \in OnlyCalls : pc'[d] \in {"start", "call", "write", "closing", "done"}
      /\ \A s \in Sids : callItem'[s] # Nil => callItem'[s].ch \notin OnlyCalls
  BY ConstantsOK DEF ConstantsOK
<1>6. CASE dpc \in {"idle", "sockets"}
  <2>1. \A d \in closed' : pc'[d] = "done"
    BY <1>6
  <2>2. ASSUME NEW s \in Sids, callItem'[s] # Nil PROVE LeftByWrite(s)'
    <3>1. CASE callItem[s] # Nil /\ callItem'[s].ch = callItem[s].ch
      BY <1>4, <1>6, <2>2, <3>1
    <3>2. CASE callItem'[s].ch = c /\ UNCHANGED closed /\ pc[c] = "registering"
      BY <1>6, <3>2 DEF LeftByWrite
    <3> QED
      BY <2>2, <3>1, <3>2
  <2> QED
    BY <1>5, <1>6, <2>1, <2>2
<1>7. CASE dpc = "items"
  <2>1. ASSUME NEW s \in dTodo PROVE LeftByWrite(s)'
    BY <1>4, <1>7, <2>1
  <2> QED
    BY <1>5, <1>7, <2>1
<1>8. CASE dpc = "panicked"
  <2>1. PICK d \in Calls : Leftover(d)
    BY <1>8
  <2>2. d # c /\ FailedWrite(d)' /\ sid'[d] = sid[d] /\ sid[d] \in Sids /\ callItem[sid[d]] # Nil
    BY <1>3, <2>1 DEF Leftover
  <2>3. sid[d] # sid[c]
    BY <2>2 DEF SidInv, Sids
  <2>4. Leftover(d)'
    BY <2>2, <2>3 DEF Leftover
  <2> QED
    BY <1>5, <1>8, <2>4
<1>9. CASE dpc = "done"
  BY <1>5, <1>9
<1> QED
  BY <1>6, <1>7, <1>8, <1>9

LEMMA CallOwnAffair ==
  ASSUME TInv, OwnInv, LeftInv, NEW c \in Calls, CallStep(c) \/ TimerFires(c)
  PROVE  OwnAffair(c)
<1> USE DEF TInv, TypeOK, OwnAffair, itemVars, readVars, netVars, destVars
<1>0. pc[c] # "done" => ret[c] = Nil
  BY DEF LeftInv
<1>p. c \in OnlyCalls => pc[c] \in {"start", "call", "write", "closing", "done"}
  BY DEF LeftInv
<1>1. CASE GetConn(c)
  BY <1>0, <1>1, NoPacketEffect DEF GetConn, Goto, Finish, Others, Returned
<1>2. CASE TakeSid(c) \/ LockToRegister(c) \/ LockAfterTimeout(c) \/ LockAfterReply(c)
           \/ EnterSelect(c) \/ TimerFires(c) \/ ReceiveClosed(c)
  BY <1>0, <1>p, <1>2 DEF TakeSid, LockToRegister, LockAfterTimeout, LockAfterReply, Announce,
                    EnterSelect, TimerFires, ReceiveClosed, Goto
<1>3. CASE Register(c)
  <2> DEFINE item == [ch |-> c, code |-> 0, packet |-> Nil]
  <2>1. item.ch = c
    OBVIOUS
  <2>2. sid[c] \in Sids /\ callItem' = [callItem EXCEPT ![sid[c]] = item]
    BY <1>3 DEF Register
  <2> HIDE DEF item
  <2> QED
    BY <1>0, <1>p, <1>3, <2>1, <2>2 DEF Register, NoReader, Goto
<1>4. CASE Write(c)
  <2>1. CASE c \in OnlyCalls
    <3>1. pc[c] = "write" /\ Finish(c, FALSE, Nil, 0)
      BY <1>4, <2>1 DEF Write
    <3>2. pc'[c] = "done" /\ Others(c)
      BY <3>1, NoPacketEffect DEF Returned
    <3> QED
      BY <1>4, <2>1, <3>1, <3>2 DEF Write, Others
  <2>2. CASE c \notin OnlyCalls
    BY <1>0, <1>4, <2>2 DEF Write, Goto
  <2> QED
    BY <2>1, <2>2
<1>5. CASE WriteFails(c)
  <2>1. CASE c \in closed
    <3>1. pc'[c] = "done" /\ Others(c)
      BY <1>5, <2>1, ReturnsWithoutPacket
    <3> QED
      BY <1>5, <3>1 DEF WriteFails, Others
  <2>2. CASE c \notin closed
    BY <1>0, <1>5, <2>2 DEF WriteFails, Goto
  <2> QED
    BY <2>1, <2>2
<1>6. CASE CloseWaitCh(c)
  <2>1. pc'[c] = "done" /\ Others(c)
    BY <1>6, ReturnsWithoutPacket
  <2>2. ret'[c] # Nil /\ ret'[c].rpcCode = 500
    <3>1. CASE Finish(c, FALSE, Nil, 500)
      <4> DEFINE r == [err |-> FALSE, packet |-> Nil, rpcCode |-> 500]
      <4>1. ret'[c] = r /\ r.rpcCode = 500
        BY <3>1 DEF Finish
      <4>2. r \in Return
        BY DEF Return, Packets
      <4> HIDE DEF r
      <4> QED
        BY <4>1, <4>2, ConstantsOK DEF ConstantsOK
    <3>2. CASE Finish(c, TRUE, Nil, 500)
      <4> DEFINE r == [err |-> TRUE, packet |-> Nil, rpcCode |-> 500]
      <4>1. ret'[c] = r /\ r.rpcCode = 500
        BY <3>2 DEF Finish
      <4>2. r \in Return
        BY DEF Return, Packets
      <4> HIDE DEF r
      <4> QED
        BY <4>1, <4>2, ConstantsOK DEF ConstantsOK
    <3> QED
      BY <1>6, <3>1, <3>2 DEF CloseWaitCh, Recovered
  <2> QED
    BY <1>6, <2>1, <2>2 DEF CloseWaitCh, Others
<1>7. CASE FinishTimeout(c) \/ FinishReply(c)
  <2>1. pc[c] \in {"timingOut", "replying"} /\ NoReader /\ sid[c] \in Sids
    BY <1>7 DEF FinishTimeout, FinishReply
  <2>2. pc'[c] = "done" /\ Others(c)
    <3>1. CASE FinishTimeout(c)
      BY <3>1, ReturnsWithoutPacket
    <3>2. CASE FinishReply(c)
      BY <3>2 DEF FinishReply, Recovered, Finish, Goto, Others
    <3> QED
      BY <1>7, <3>1, <3>2
  <2>3. CASE ClosePanics(c)
    <3>1. UNCHANGED closed
      BY <1>7, <2>3 DEF FinishTimeout, FinishReply
    <3>2. \A s \in Sids : /\ callItem'[s] = Nil <=> callItem[s] = Nil
                          /\ callItem'[s] # Nil => callItem'[s].ch = callItem[s].ch
      <4>1. CASE callItem[sid[c]] = Nil
        BY <1>7, <2>3, <4>1 DEF FinishTimeout, FinishReply
      <4>2. CASE UNCHANGED callItem
        BY <4>2
      <4>3. CASE callItem[sid[c]] # Nil /\ callItem' = [callItem EXCEPT ![sid[c]].packet = Nil]
        <5> DEFINE item == [callItem[sid[c]] EXCEPT !.packet = Nil]
        <5>1. callItem[sid[c]] \in CallCond
          BY <2>1, <4>3
        <5>2. item \in CallCond /\ item.ch = callItem[sid[c]].ch
          BY <5>1 DEF CallCond, Packets
        <5>3. item # Nil
          BY <5>2, ConstantsOK DEF ConstantsOK
        <5>4. \A s \in Sids : callItem'[s] = IF s = sid[c] THEN item ELSE callItem[s]
          BY <2>1, <4>3
        <5> HIDE DEF item
        <5> QED
          BY <4>3, <5>2, <5>3, <5>4
      <4> QED
        BY <1>7, <2>3, <4>1, <4>2, <4>3 DEF FinishTimeout, FinishReply
    <3>3. UNCHANGED <<dpc, dTodo, sid>>
      BY <1>7 DEF FinishTimeout, FinishReply
    <3> QED
      BY <2>1, <2>2, <3>1, <3>2, <3>3 DEF Others, NoReader
  <2>4. CASE ~ ClosePanics(c)
    <3>1. DropItem(c) /\ UNCHANGED <<sid, dpc, dTodo>>
      BY <1>7, <2>4 DEF FinishTimeout, FinishReply
    <3>2. callItem[sid[c]].ch = c
      BY <2>1, <2>4 DEF ClosePanics, OwnInv, OwnItems, SidInv, Sids, CallCond
    <3> QED
      BY <2>1, <2>2, <3>1, <3>2 DEF DropItem, Others, NoReader
  <2> QED
    BY <2>3, <2>4
<1> QED
  BY <1>1, <1>2, <1>3, <1>4, <1>5, <1>6, <1>7 DEF CallStep

LEMMA OthersKeepLeft ==
  ASSUME TInv, OwnInv, LeftInv,
         \/ \E k \in Conns : ReaderStep(k) \/ ReaderExits(k)
         \/ ServerStep \/ UNCHANGED vars
  PROVE  LeftInv'
<1> USE DEF TInv, TypeOK, LeftInv, callVars, itemVars, readVars, netVars, destVars
<1>0. ASSUME UNCHANGED <<callVars, closed, destVars>>,
             \A s \in Sids : /\ callItem'[s] = Nil <=> callItem[s] = Nil
                             /\ callItem'[s] # Nil => callItem'[s].ch = callItem[s].ch
      PROVE  LeftInv'
  BY <1>0 DEF LeftByWrite, Leftover, FailedWrite
<1>1. ASSUME NEW k \in Conns, Deliver(k) PROVE LeftInv'
  <2>1. hpc[k] = "send" /\ pc[Target(k)] = "select" /\ pc' = [pc EXCEPT ![Target(k)] = "reply"]
        /\ UNCHANGED <<sid, ret, callItem, closed, destVars>>
    BY <1>1 DEF Deliver
  <2>2. \A c \in Calls : pc[c] # "select" => pc'[c] = pc[c]
    BY <2>1
  <2>3. \A c \in Calls : pc'[c] = pc[c] \/ pc[c] = "select"
    BY <2>2
  <2> QED
    BY <2>1, <2>3, ConstantsOK DEF ConstantsOK, LeftByWrite, Leftover, FailedWrite
<1>2. ASSUME NEW k \in Conns, Dispatch(k) PROVE LeftInv'
  <2> DEFINE item == [ch |-> callItem[hmsg[k].sid].ch, code |-> hmsg[k].code,
                      packet |-> hmsg[k].packet]
  <2>1. hmsg[k] \in Response /\ hmsg[k].sid \in Sids
    BY <1>2 DEF Dispatch, Response
  <2>2. callItem[hmsg[k].sid] # Nil => item \in CallCond /\ item # Nil
    BY <2>1, ConstantsOK DEF ConstantsOK, CallCond, Response
  <2>3. item.ch = callItem[hmsg[k].sid].ch
    OBVIOUS
  <2>4. callItem' = IF callItem[hmsg[k].sid] = Nil THEN callItem
                    ELSE [callItem EXCEPT ![hmsg[k].sid] = item]
    BY <1>2 DEF Dispatch
  <2> HIDE DEF item
  <2>5. \A s \in Sids : /\ callItem'[s] = Nil <=> callItem[s] = Nil
                        /\ callItem'[s] # Nil => callItem'[s].ch = callItem[s].ch
    BY <2>1, <2>2, <2>3, <2>4
  <2>6. UNCHANGED <<callVars, closed, destVars>>
    BY <1>2 DEF Dispatch
  <2> QED
    BY <1>0, <2>5, <2>6
<1>3. ASSUME NEW k \in Conns, ReadResponse(k) \/ SendPanics(k) \/ Unlock(k) \/ ReaderExits(k)
      PROVE  LeftInv'
  <2>1. UNCHANGED <<callVars, callItem, closed, destVars>>
    BY <1>3 DEF ReadResponse, SendPanics, Unlock, ReaderExits
  <2> QED
    BY <1>0, <2>1
<1>4. CASE ServerStep \/ UNCHANGED vars
  <2>1. UNCHANGED <<callVars, callItem, closed, destVars>>
    BY <1>4 DEF ServerStep, Lose, Answer, vars
  <2> QED
    BY <1>0, <2>1
<1> QED
  BY <1>1, <1>2, <1>3, <1>4 DEF ReaderStep

LEMMA DestroyKeepsLeft ==
  ASSUME TInv, OwnInv, LeftInv, DestroySockets \/ DestroyStep
  PROVE  LeftInv'
<1> USE DEF TInv, TypeOK, LeftInv, callVars, itemVars, LeftByWrite, Leftover, FailedWrite
<1>1. CASE DestroySockets
  BY <1>1 DEF DestroySockets
<1>2. CASE DestroyRLock
  BY <1>2 DEF DestroyRLock
<1>3. CASE DestroyEnds
  BY <1>3 DEF DestroyEnds
<1>4. ASSUME NEW s \in Sids, DestroyClose(s) PROVE LeftInv'
  <2>1. /\ dpc = "items" /\ s \in dTodo /\ callItem[s] # Nil
        /\ UNCHANGED <<pc, sid, ret, callItem>>
        /\ callItem[s].ch \in Calls /\ sid[callItem[s].ch] = s
    BY <1>4 DEF DestroyClose, OwnInv, OwnItems, CallCond
  <2>2. CASE callItem[s].ch \in closed
    <3>1. dpc' = "panicked" /\ Leftover(callItem[s].ch)'
      BY <1>4, <2>1, <2>2 DEF DestroyClose
    <3> QED
      BY <2>1, <3>1
  <2>3. CASE callItem[s].ch \notin closed
    <3>1. /\ dpc' = "items" /\ dTodo' = dTodo \ {s}
          /\ closed' = closed \cup {callItem[s].ch}
      BY <1>4, <2>1, <2>3 DEF DestroyClose
    <3>2. \A t \in dTodo' : callItem[t].ch # callItem[s].ch
      BY <2>1, <3>1 DEF OwnInv, OwnItems
    <3> QED
      BY <2>1, <3>1, <3>2
  <2> QED
    BY <2>2, <2>3
<1> QED
  BY <1>1, <1>2, <1>3, <1>4 DEF DestroyStep

LEMMA LeftInit == Init => LeftInv
BY ConstantsOK DEF ConstantsOK, Init, LeftInv, LeftByWrite, Sids

LEMMA LeftNext == TInv /\ OwnInv /\ LeftInv /\ [Next]_vars => LeftInv'
BY CallOwnAffair, OwnAffairKeepsLeft, OthersKeepLeft, DestroyKeepsLeft DEF Next

(* Destroy panics over nothing but the entry of a call whose write failed.  *)
THEOREM OnlyLeftoversPanic == Spec => []DestroyPanicsOnLeftovers
<1>1. LeftInv => DestroyPanicsOnLeftovers
  BY DEF LeftInv, Leftover, FailedWrite, DestroyPanicsOnLeftovers
<1>2. Spec => [](TInv /\ OwnInv /\ LeftInv)
  BY TInvInit, TInvNext, OwnInit, OwnNext, LeftInit, LeftNext, PTL DEF Spec
<1> QED
  BY <1>1, <1>2, PTL

-----------------------------------------------------------------------------
(* Without Destroy the client keeps the contract of RpcContract.            *)

(* What the contract sees of a step that ends the call c.                   *)
Ends(c) ==
  /\ pc[c] # "done" /\ pc'[c] = "done" /\ Others(c)
  /\ ret[c] = Nil /\ ret'[c] # Nil /\ UNCHANGED served

LEMMA FailStep ==
  ASSUME TypeOK, NEW c \in Calls, Ends(c), ret'[c].err, ret'[c].packet = Nil
  PROVE  Contract!Fail(c)
<1>1. ret \in [Calls -> Return \cup {Nil}]
  BY DEF TypeOK
<1> QED
  BY <1>1 DEF Ends, Others, Contract!Fail

LEMMA SentStep ==
  ASSUME TypeOK, NEW c \in OnlyCalls, Ends(c), pc[c] # "start", ~ ret'[c].err,
         ret'[c].packet = Nil
  PROVE  Contract!Sent(c)
BY ConstantsOK DEF ConstantsOK, Ends, Others, Contract!Sent, Contract!Return

LEMMA SucceedStep ==
  ASSUME TypeOK, NEW c \in Calls \ OnlyCalls, Ends(c), pc[c] # "start", ~ ret'[c].err,
         ret'[c].packet = c, served[c] = 0
  PROVE  Contract!Succeed(c)
BY DEF Ends, Others, Contract!Succeed, Contract!Return

(* A step that starts or ends no call and answers none goes unseen.         *)
Unseen ==
  /\ \A c \in Calls : /\ pc'[c] = "start" <=> pc[c] = "start"
                      /\ pc'[c] = "done" <=> pc[c] = "done"
  /\ UNCHANGED <<ret, served>>

LEMMA UnseenStep == ASSUME Unseen PROVE UNCHANGED Contract!vars
BY DEF Unseen, Contract!vars

-----------------------------------------------------------------------------

LEMMA FailEnds ==
  ASSUME TypeOK, NEW c \in Calls, pc[c] # "done", ret[c] = Nil, UNCHANGED served,
         \/ Finish(c, TRUE, Nil, -1) \/ Finish(c, TRUE, Nil, 500) \/ Finish(c, TRUE, Nil, 408)
  PROVE  Contract!Fail(c)
<1>1. PICK code \in {-1, 500, 408} :
             /\ Goto(c, "done")
             /\ ret' = [ret EXCEPT ![c] = [err |-> TRUE, packet |-> Nil, rpcCode |-> code]]
  BY DEF Finish
<1> DEFINE r == [err |-> TRUE, packet |-> Nil, rpcCode |-> code]
<1>2. r.err /\ r.packet = Nil
  OBVIOUS
<1>3. r \in Return
  BY DEF Return, Packets
<1>4. Goto(c, "done") /\ ret' = [ret EXCEPT ![c] = r]
  BY <1>1
<1> HIDE DEF r
<1>5. r # Nil
  BY <1>3, ConstantsOK DEF ConstantsOK
<1>6. Ends(c) /\ ret'[c] = r
  BY <1>4, <1>5 DEF TypeOK, Goto, Ends, Others
<1> QED
  BY <1>2, <1>6, FailStep

LEMMA SentEnds ==
  ASSUME TypeOK, NEW c \in OnlyCalls, pc[c] = "write", ret[c] = Nil, UNCHANGED served,
         Finish(c, FALSE, Nil, 0)
  PROVE  Contract!Sent(c)
<1> DEFINE r == [err |-> FALSE, packet |-> Nil, rpcCode |-> 0]
<1>1. ~ r.err /\ r.packet = Nil
  OBVIOUS
<1>2. r \in Return
  BY DEF Return, Packets, Codes
<1>3. Goto(c, "done") /\ ret' = [ret EXCEPT ![c] = r] /\ c \in Calls
  BY ConstantsOK, Zenon DEF ConstantsOK, Finish
<1> HIDE DEF r
<1>4. r # Nil
  BY <1>2, ConstantsOK DEF ConstantsOK
<1>5. Ends(c) /\ ret'[c] = r
  BY <1>3, <1>4 DEF TypeOK, Goto, Ends, Others
<1> QED
  BY <1>1, <1>5, SentStep

LEMMA ReplyEnds ==
  ASSUME Step, NEW c \in Calls, ret[c] = Nil, FinishReply(c)
  PROVE  Contract!Succeed(c) \/ Contract!Fail(c)
<1> DEFINE item == callItem[sid[c]]
           packet == IF item.code = 0 THEN item.packet ELSE Nil
           r == [err |-> item.code # 0, packet |-> packet, rpcCode |-> item.code]
<1>1. pc[c] = "replying" /\ UNCHANGED served
  BY DEF FinishReply, netVars
<1>2. Goto(c, "done") /\ ret' = [ret EXCEPT ![c] = r]
  BY <1>1, OwnItem DEF FinishReply, Finish
<1>3. item \in CallCond
  BY <1>1, OwnItem DEF Step, TInv, TypeOK
<1>4. c \notin OnlyCalls /\ served[c] = item.code /\ item.packet = PacketOf(c, item.code)
  BY <1>1 DEF Step, Inv, RepliedInv, Replied, PhaseInv
<1>5. TypeOK
  BY DEF Step, TInv
<1>6. r.packet = packet /\ r # Nil
  <2>1. packet \in Packets /\ item.code \in Codes
    BY <1>3 DEF CallCond, Packets
  <2>2. r \in Return
    <3> HIDE DEF item, packet
    <3>1. (item.code # 0) \in BOOLEAN
      OBVIOUS
    <3> QED
      BY <2>1, <3>1 DEF Return
  <2> HIDE DEF item
  <2> QED
    BY <2>2, ConstantsOK DEF ConstantsOK
<1>7. CASE item.code = 0
  <2>1. ~ r.err /\ packet = c
    <3>1. (item.code # 0) = FALSE
      BY <1>7
    <3>2. r = [err |-> FALSE, packet |-> packet, rpcCode |-> item.code]
      BY <3>1, Zenon
    <3> QED
      BY <1>4, <1>7, <3>2 DEF PacketOf
  <2> HIDE DEF item, packet, r
  <2>2. Ends(c) /\ ret'[c] = r
    BY <1>1, <1>2, <1>5, <1>6 DEF TypeOK, Goto, Ends, Others
  <2> QED
    BY <1>1, <1>4, <1>5, <1>6, <1>7, <2>1, <2>2, SucceedStep
<1>8. CASE item.code # 0
  <2>1. r.err /\ packet = Nil
    <3>1. (item.code # 0) = TRUE
      BY <1>8
    <3>2. r = [err |-> TRUE, packet |-> packet, rpcCode |-> item.code]
      BY <3>1, Zenon
    <3> QED
      BY <1>8, <3>2
  <2> HIDE DEF item, packet, r
  <2>2. Ends(c) /\ ret'[c] = r
    BY <1>1, <1>2, <1>5, <1>6 DEF TypeOK, Goto, Ends, Others
  <2> QED
    BY <1>5, <1>6, <2>1, <2>2, FailStep
<1> QED
  BY <1>7, <1>8

LEMMA CallContract ==
  ASSUME Step, NEW c \in Calls, ret[c] # Nil => pc[c] = "done",
         CallStep(c) \/ TimerFires(c)
  PROVE  Contract!Next \/ UNCHANGED Contract!vars
<1>0. TypeOK /\ (pc[c] # "done" => ret[c] = Nil)
  BY DEF Step, TInv
<1>1. CASE GetConn(c)
  <2>1. pc[c] = "start" /\ UNCHANGED served
    BY <1>1 DEF GetConn, netVars
  <2>2. CASE Finish(c, TRUE, Nil, -1)
    BY <1>0, <2>1, <2>2, FailEnds DEF Contract!Next
  <2>3. CASE UNCHANGED ret /\ Goto(c, "call")
    <3>1. Contract!Issue(c)
      BY <1>0, <2>1, <2>3 DEF TypeOK, Goto, Contract!Issue
    <3> QED
      BY <3>1 DEF Contract!Next
  <2> QED
    BY <1>1, <2>2, <2>3 DEF GetConn
<1>2. CASE \/ TakeSid(c) \/ LockToRegister(c) \/ Register(c) \/ LockAfterTimeout(c)
           \/ LockAfterReply(c) \/ EnterSelect(c) \/ TimerFires(c) \/ ReceiveClosed(c)
  <2>1. Unseen
    BY <1>0, <1>2 DEF TypeOK, Unseen, TakeSid, LockToRegister, Register, LockAfterTimeout, LockAfterReply,
             Announce, EnterSelect, TimerFires, ReceiveClosed, Goto, netVars
  <2> QED
    BY <2>1, UnseenStep
<1>3. CASE Write(c)
  <2>1. pc[c] = "write" /\ UNCHANGED served
    BY <1>3 DEF Write
  <2>2. CASE c \in OnlyCalls
    BY <1>0, <1>3, <2>1, <2>2, SentEnds DEF Write, Contract!Next
  <2>3. CASE c \notin OnlyCalls
    <3>1. Unseen
      BY <1>0, <1>3, <2>1, <2>3 DEF TypeOK, Write, Unseen, Goto
    <3> QED
      BY <3>1, UnseenStep
  <2> QED
    BY <2>2, <2>3
<1>4. CASE WriteFails(c)
  <2>1. pc[c] = "write" /\ c \notin closed
    BY <1>4 DEF WriteFails, Step, Inv, PhaseInv
  <2>2. Unseen
    BY <1>0, <1>4, <2>1 DEF TypeOK, WriteFails, Unseen, Goto, netVars
  <2> QED
    BY <2>2, UnseenStep
<1>5. CASE CloseWaitCh(c)
  <2>1. pc[c] = "closing" /\ c \notin closed /\ UNCHANGED served
    BY <1>5 DEF CloseWaitCh, Step, Inv, PhaseInv, netVars
  <2>2. Finish(c, TRUE, Nil, 500)
    BY <1>5, <2>1 DEF CloseWaitCh
  <2> QED
    BY <1>0, <2>1, <2>2, FailEnds DEF Contract!Next
<1>6. CASE FinishTimeout(c)
  <2>1. pc[c] = "timingOut" /\ UNCHANGED served
    BY <1>6 DEF FinishTimeout, netVars
  <2>2. Finish(c, TRUE, Nil, 408)
    BY <1>6, <2>1, OwnItem DEF FinishTimeout
  <2> QED
    BY <1>0, <2>1, <2>2, FailEnds DEF Contract!Next
<1>7. CASE FinishReply(c)
  <2>1. pc[c] = "replying"
    BY <1>7 DEF FinishReply
  <2> QED
    BY <1>0, <1>7, <2>1, ReplyEnds DEF Contract!Next
<1> QED
  BY <1>1, <1>2, <1>3, <1>4, <1>5, <1>6, <1>7 DEF CallStep

LEMMA AnswerContract ==
  ASSUME Step, NEW r \in wire, NEW code \in Codes, Answer(r, code)
  PROVE  Contract!Next
<1>1. /\ r.call \in Calls /\ served[r.call] = Nil
      /\ pc[r.call] # "start"
  BY DEF Step, Inv, WireInv, TInv, TypeOK, Request, Waiting
<1>2. /\ served' = [served EXCEPT ![r.call] = code]
      /\ UNCHANGED <<pc, ret>>
  BY DEF Answer, callVars
<1>3. Contract!Serve(r.call, code)
  BY <1>1, <1>2 DEF Contract!Serve
<1> QED
  BY <1>1, <1>3 DEF Contract!Next

LEMMA ContractStep ==
  ASSUME Step, [Next]_vars, dpc' = "idle",
         \A c \in Calls : ret[c] # Nil => pc[c] = "done"
  PROVE  Contract!Next \/ UNCHANGED Contract!vars
<1>1. ASSUME NEW c \in Calls, CallStep(c) \/ TimerFires(c)
      PROVE  Contract!Next \/ UNCHANGED Contract!vars
  BY <1>1, CallContract
<1>2. ASSUME NEW k \in Conns, ReaderStep(k) \/ ReaderExits(k)
      PROVE  Contract!Next \/ UNCHANGED Contract!vars
  <2>1. Unseen
    BY <1>2, SendFacts DEF Unseen, ReaderStep, ReaderExits, ReadResponse, Dispatch, Deliver, SendPanics,
             Unlock, callVars, netVars, Step, TInv, TypeOK
  <2> QED
    BY <2>1, UnseenStep
<1>3. CASE ServerStep
  <2>1. ASSUME NEW r \in wire, Lose(r) PROVE Unseen
    BY <2>1 DEF Lose, Unseen, callVars
  <2> QED
    BY <1>3, <2>1, UnseenStep, AnswerContract DEF ServerStep
<1>4. CASE DestroySockets \/ DestroyStep
  BY <1>4 DEF DestroySockets, DestroyStep, DestroyRLock, DestroyClose, DestroyEnds, Step
<1>5. CASE UNCHANGED vars
  <2>1. Unseen
    BY <1>5 DEF Unseen, vars, callVars, netVars
  <2> QED
    BY <2>1, UnseenStep
<1> QED
  BY <1>1, <1>2, <1>3, <1>4, <1>5 DEF Next

LEMMA ContractInit == Init => Contract!Init
BY DEF Init, Contract!Init

Undestroyed == dpc = "idle"

(* A client that is not destroyed implements the contract: each of its      *)
(* steps is one of the contract's or goes unseen.                           *)
THEOREM KeepsContract == Spec /\ []Undestroyed => ContractHolds
<1>1. Spec => [](TInv /\ OwnInv /\ LeftInv)
  BY TInvInit, TInvNext, OwnInit, OwnNext, LeftInit, LeftNext, PTL DEF Spec
<1>2. IInv /\ LeftInv /\ Undestroyed /\ Undestroyed' /\ [Next]_vars
        => [Contract!Next]_Contract!vars
  BY ContractStep DEF IInv, UntilDestroy, Step, LeftInv, Undestroyed
<1> QED
  BY <1>1, <1>2, InvariantHolds, ContractInit, PTL DEF Spec, ContractHolds, Contract!Spec

(* An application that never calls Destroy gets the contract outright.      *)
THEOREM Implements == ASSUME ~ MayDestroy PROVE Spec => ContractHolds
<1>1. Init => Undestroyed
  BY DEF Init, Undestroyed
<1>2. Undestroyed /\ [Next]_vars => Undestroyed'
  BY DEF Undestroyed, Next, CallStep, GetConn, TakeSid, LockToRegister, Register, Write,
         WriteFails, CloseWaitCh, EnterSelect, ReceiveClosed, LockAfterTimeout, FinishTimeout,
         LockAfterReply, FinishReply, Announce, TimerFires, ReaderStep, ReadResponse, Dispatch,
         Deliver, SendPanics, Unlock, ReaderExits, ServerStep, Lose, Answer, DestroySockets,
         DestroyStep, DestroyRLock, DestroyClose, DestroyEnds, vars, destVars
<1> QED
  BY <1>1, <1>2, KeepsContract, PTL DEF Spec

-----------------------------------------------------------------------------
(* The codes of the server.                                                 *)

(* Until Destroy, of the codes that call logs and counts those the client   *)
(* does not use itself are the ones the server answered this call with.     *)
CodesOfServer ==
  \A c \in Calls \ OnlyCalls : ret[c] # Nil =>
    ret[c].rpcCode \in {-1, 0, 408, 500} \/ ret[c].rpcCode = served[c]

OwnCode(c, code) == code \in {-1, 0, 408, 500} \/ code = served[c]

(* The call c logs and counts code, and no other call does.                 *)
Logs(c, code) == ret'[c].rpcCode = code /\ \A d \in Calls \ {c} : ret'[d] = ret[d]

LEMMA FinishCode ==
  ASSUME TypeOK, NEW c \in Calls, NEW isErr, NEW packet, NEW code,
         Finish(c, isErr, packet, code)
  PROVE  Logs(c, code)
<1> DEFINE r == [err |-> isErr, packet |-> packet, rpcCode |-> code]
<1>1. ret' = [ret EXCEPT ![c] = r] /\ r.rpcCode = code
  BY DEF Finish
<1> HIDE DEF r
<1> QED
  BY <1>1 DEF TypeOK, Logs

LEMMA CallCodes ==
  ASSUME Step, NEW c \in Calls, CallStep(c) \/ TimerFires(c)
  PROVE  /\ served' = served
         /\ \A d \in Calls \ OnlyCalls : ret'[d] = ret[d] \/ OwnCode(d, ret'[d].rpcCode)
<1> USE DEF Step, TInv
<1>1. served' = served
  BY DEF CallStep, TimerFires, GetConn, TakeSid, LockToRegister, LockAfterTimeout,
       LockAfterReply, Announce, Register, Write, WriteFails, CloseWaitCh, EnterSelect,
       ReceiveClosed, FinishTimeout, FinishReply, netVars
<1>2. ASSUME NEW code, Logs(c, code), OwnCode(c, code)
      PROVE  \A d \in Calls \ OnlyCalls : ret'[d] = ret[d] \/ OwnCode(d, ret'[d].rpcCode)
  BY <1>2 DEF Logs
<1>3. \A code \in {-1, 0, 408, 500} : OwnCode(c, code)
  BY DEF OwnCode
<1>4. CASE UNCHANGED ret
  BY <1>1, <1>4
<1>5. \/ TakeSid(c) \/ LockToRegister(c) \/ Register(c) \/ EnterSelect(c) \/ TimerFires(c)
      \/ ReceiveClosed(c) \/ LockAfterTimeout(c) \/ LockAfterReply(c)
      => UNCHANGED ret
  BY DEF TakeSid, LockToRegister, LockAfterTimeout, LockAfterReply, Announce,
       Register, EnterSelect, ReceiveClosed, TimerFires
<1>6. GetConn(c) => UNCHANGED ret \/ Logs(c, -1)
  BY DEF GetConn, Finish, Logs, TypeOK
<1>7. Write(c) => UNCHANGED ret \/ Logs(c, 0)
  BY DEF Write, Finish, Logs, TypeOK
<1>8. WriteFails(c) \/ CloseWaitCh(c) => UNCHANGED ret \/ Logs(c, 500)
  BY DEF WriteFails, CloseWaitCh, Recovered, Finish, Logs, TypeOK
<1>9. FinishTimeout(c) => Logs(c, -1) \/ Logs(c, 408)
  BY DEF FinishTimeout, Recovered, Finish, Logs, TypeOK
<1>10. CASE FinishReply(c)
  <2> DEFINE item == callItem[sid[c]]
  <2>1. pc[c] = "replying"
    BY <1>10 DEF FinishReply
  <2>2. Finish(c, item.code # 0, IF item.code = 0 THEN item.packet ELSE Nil, item.code)
    BY <1>10, <2>1, OwnItem DEF FinishReply
  <2>3. item.code = served[c]
    BY <2>1 DEF Inv, RepliedInv, Replied
  <2> HIDE DEF item
  <2>4. Logs(c, item.code)
    BY <2>2, FinishCode
  <2> QED
    BY <1>1, <1>2, <2>3, <2>4 DEF OwnCode
<1> QED
  BY <1>1, <1>2, <1>3, <1>4, <1>5, <1>6, <1>7, <1>8, <1>9, <1>10 DEF CallStep

LEMMA CodesStep ==
  ASSUME Step, CodesOfServer, [Next]_vars
  PROVE  CodesOfServer'
<1> USE DEF CodesOfServer
<1>1. ASSUME NEW c \in Calls, CallStep(c) \/ TimerFires(c)
      PROVE  CodesOfServer'
  BY <1>1, CallCodes DEF OwnCode
<1>2. ASSUME NEW r \in wire, NEW code \in Codes, Answer(r, code)
      PROVE  CodesOfServer'
  <2>1. /\ r.call \in Calls /\ served[r.call] = Nil
        /\ served' = [served EXCEPT ![r.call] = code]
        /\ UNCHANGED ret
    BY <1>2 DEF Step, Inv, WireInv, TInv, TypeOK, Request, Answer, callVars
  <2>2. \A c \in Calls : ret[c] # Nil => ret[c].rpcCode # Nil \/ ret[c].rpcCode \in {-1, 408, 500}
    BY ConstantsOK DEF ConstantsOK, Step, TInv, TypeOK, Return
  <2> QED
    BY <2>1, <2>2 DEF Step, TInv, TypeOK
<1>3. ASSUME UNCHANGED <<ret, served>>
      PROVE  CodesOfServer'
  BY <1>3
<1>4. ASSUME NEW k \in Conns, ReaderStep(k) \/ ReaderExits(k)
      PROVE  UNCHANGED <<ret, served>>
  BY <1>4 DEF ReaderStep, ReaderExits, ReadResponse, Dispatch, Deliver, SendPanics, Unlock,
         callVars, netVars
<1>5. ASSUME NEW r \in wire, Lose(r)
      PROVE  UNCHANGED <<ret, served>>
  BY <1>5 DEF Lose, callVars
<1>6. CASE DestroySockets \/ DestroyStep \/ UNCHANGED vars
  BY <1>6 DEF DestroySockets, DestroyStep, DestroyRLock, DestroyClose, DestroyEnds, vars,
         callVars, netVars
<1> QED
  BY <1>1, <1>2, <1>3, <1>4, <1>5, <1>6 DEF Next, ServerStep

-----------------------------------------------------------------------------
(* Requests on their way.                                                   *)

RequestOf(c) == [conn |-> conn[c], sid |-> sid[c], call |-> c, onlyCall |-> c \in OnlyCalls]

(* They are as their calls have sent them.                                  *)
WireOwn == \A q \in wire : q = RequestOf(q.call)


(* A client sends, and never touches what has been sent.                    *)
Sends ==
  /\ served' = served
  /\ wire \subseteq wire'
  /\ \A q \in wire' \ wire : q.call \in Calls /\ q = RequestOf(q.call)'
  /\ \A c \in Calls : pc[c] \notin Unsent =>
       pc'[c] \notin Unsent /\ sid'[c] = sid[c] /\ conn'[c] = conn[c]

LEMMA CallSends ==
  ASSUME TInv, NEW c \in Calls, CallStep(c) \/ TimerFires(c)
  PROVE  Sends
<1> USE DEF TInv, TypeOK, Sends, netVars, Unsent
<1>1. CASE GetConn(c)
  BY <1>1 DEF GetConn, Goto, Finish
<1>2. CASE TakeSid(c)
  BY <1>2 DEF TakeSid, Goto
<1>3. CASE LockToRegister(c) \/ LockAfterTimeout(c) \/ LockAfterReply(c)
  BY <1>3 DEF LockToRegister, LockAfterTimeout, LockAfterReply, Announce
<1>4. CASE Register(c)
  BY <1>4 DEF Register, Goto
<1>5. CASE Write(c)
  <2>1. /\ UNCHANGED <<served, sid, conn>>
        /\ wire' = wire \cup {RequestOf(c)}
    BY <1>5 DEF Write, RequestOf
  <2>2. pc' = [pc EXCEPT ![c] = "done"] \/ pc' = [pc EXCEPT ![c] = "written"]
    BY <1>5 DEF Write, Finish, Goto
  <2> QED
    BY <2>1, <2>2 DEF RequestOf
<1>6. CASE WriteFails(c) \/ CloseWaitCh(c)
  <2>1. pc[c] \in Unsent /\ UNCHANGED <<served, wire, sid, conn>>
    BY <1>6 DEF WriteFails, CloseWaitCh
  <2>2. \A d \in Calls \ {c} : pc'[d] = pc[d]
    BY <1>6 DEF WriteFails, CloseWaitCh, Recovered, Finish, Goto
  <2> QED
    BY <2>1, <2>2
<1>7. CASE EnterSelect(c) \/ TimerFires(c) \/ ReceiveClosed(c)
  BY <1>7 DEF EnterSelect, TimerFires, ReceiveClosed, Goto
<1>8. CASE FinishTimeout(c) \/ FinishReply(c)
  <2>1. UNCHANGED <<served, wire, sid, conn>>
    BY <1>8 DEF FinishTimeout, FinishReply
  <2>2. pc' = [pc EXCEPT ![c] = "done"]
    BY <1>8 DEF FinishTimeout, FinishReply, Recovered, Finish, Goto
  <2> QED
    BY <2>1, <2>2
<1> QED
  BY <1>1, <1>2, <1>3, <1>4, <1>5, <1>6, <1>7, <1>8 DEF CallStep

LEMMA OthersSend ==
  ASSUME TInv, \/ \E k \in Conns : ReaderStep(k) \/ ReaderExits(k)
               \/ DestroySockets \/ DestroyStep
  PROVE  Sends
<1>1. ASSUME NEW k \in Conns, ReaderStep(k) \/ ReaderExits(k)
      PROVE  Sends
  <2>1. CASE Deliver(k)
    BY <2>1 DEF Deliver, Sends, netVars, TInv, TypeOK, Unsent
  <2>2. CASE ~ Deliver(k)
    <3>1. UNCHANGED <<pc, sid, conn, served, wire>>
      BY <1>1, <2>2 DEF ReaderStep, ReaderExits, ReadResponse, Dispatch, SendPanics, Unlock,
             callVars, netVars
    <3> QED
      BY <3>1 DEF Sends
  <2> QED
    BY <2>1, <2>2
<1>2. CASE DestroySockets \/ DestroyStep
  <2>1. UNCHANGED <<pc, sid, conn, served, wire>>
    BY <1>2 DEF DestroySockets, DestroyStep, DestroyRLock, DestroyClose, DestroyEnds,
           callVars, netVars
  <2> QED
    BY <2>1 DEF Sends
<1> QED
  BY <1>1, <1>2

LEMMA WireOwnStep ==
  ASSUME TInv, OwnInv, WireOwn, [Next]_vars
  PROVE  WireOwn'
<1>1. CASE Sends
  <2>1. ASSUME NEW q \in wire
        PROVE  q = RequestOf(q.call)'
    BY <1>1 DEF Sends, OwnInv, OwnRequests, WireOwn, TInv, TypeOK, Request, RequestOf
  <2> QED
    BY <1>1, <2>1 DEF Sends, WireOwn
<1>2. CASE ServerStep
  BY <1>2 DEF ServerStep, Answer, Lose, WireOwn, RequestOf, callVars
<1>3. CASE UNCHANGED vars
  BY <1>3 DEF WireOwn, RequestOf, vars, callVars, netVars
<1> QED
  BY <1>1, <1>2, <1>3, CallSends, OthersSend DEF Next

-----------------------------------------------------------------------------
(* No reply is lost on the way to a call that waits for it.                 *)

(* The answer that was given to a call is there to be read, or a reader is  *)
(* about to hand it over.                                                   *)
OnItsWay(c) ==
  \/ \E m \in inbox : m.conn = conn[c] /\ m.sid = sid[c]
  \/ Dispatching(conn[c]) /\ hmsg[conn[c]].sid = sid[c]

ReplyKept ==
  \A c \in Calls \ OnlyCalls :
    pc[c] \in Waiting /\ served[c] # Nil /\ open[conn[c]] => OnItsWay(c)

(* A reply is flagged as its request was.                                   *)
FlagInv ==
  \A m \in inbox, c \in Calls : m.onlyCall /\ sid[c] = m.sid => c \in OnlyCalls

KeptInv == FlagInv /\ ReplyKept

LEMMA CallKept ==
  ASSUME Step, KeptInv, NEW c \in Calls, CallStep(c) \/ TimerFires(c)
  PROVE  KeptInv'
<1> USE DEF Step
<1>1. Sends
  BY CallSends
<1>2. UNCHANGED <<inbox, hpc, hmsg, open>>
  BY DEF CallStep, GetConn, TakeSid, LockToRegister, LockAfterTimeout, LockAfterReply, Announce,
     Register, Write, WriteFails, CloseWaitCh, EnterSelect, TimerFires, ReceiveClosed,
     FinishTimeout, FinishReply, readVars, netVars
<1>3. ASSUME NEW d \in Calls, pc'[d] \in Waiting, served'[d] # Nil
      PROVE  pc[d] \in Waiting /\ served[d] # Nil /\ sid'[d] = sid[d] /\ conn'[d] = conn[d]
  <2>1. served[d] # Nil /\ pc[d] \notin Unsent
    BY <1>1, <1>3 DEF Sends, Inv, WireInv
  <2>2. sid'[d] = sid[d] /\ conn'[d] = conn[d]
    BY <1>1, <2>1 DEF Sends
  <2>3. d # c => pc'[d] = pc[d]
    BY DEF TInv, TypeOK, CallStep, GetConn, TakeSid, LockToRegister, LockAfterTimeout,
       LockAfterReply, Announce, Register, Write, WriteFails, CloseWaitCh, EnterSelect,
       TimerFires, ReceiveClosed, FinishTimeout, FinishReply, Recovered, Finish, Goto
  <2>4. CASE d = c /\ pc[c] \notin Waiting
    <3>1. pc'[c] = pc[c] \/ pc'[c] \in {"reply", "replying", "done"}
      BY <2>1, <2>4 DEF TInv, TypeOK, CallPCs, Unsent, Waiting, CallStep, GetConn, TakeSid,
         LockToRegister, LockAfterTimeout, LockAfterReply, Announce, Register, Write, WriteFails,
         CloseWaitCh, EnterSelect, TimerFires, ReceiveClosed, FinishTimeout, FinishReply,
         Recovered, Finish, Goto
    <3> QED
      BY <1>3, <2>4, <3>1 DEF Waiting
  <2> QED
    BY <1>3, <2>1, <2>2, <2>3, <2>4
<1>4. FlagInv'
  <2>1. ASSUME NEW m \in inbox, NEW d \in Calls, sid'[d] = m.sid
        PROVE  sid[d] = m.sid
    <3>1. m.sid <= counter /\ m.sid \in Sids /\ counter \in Int
      BY DEF Inv, ReplyInv, Genuine, TInv, TypeOK, Response
    <3>2. sid'[d] = sid[d] \/ sid'[d] = counter + 1
      BY DEF TInv, TypeOK, CallStep, GetConn, TakeSid, LockToRegister, LockAfterTimeout,
         LockAfterReply, Announce, Register, Write, WriteFails, CloseWaitCh, EnterSelect,
         TimerFires, ReceiveClosed, FinishTimeout, FinishReply
    <3> QED
      BY <2>1, <3>1, <3>2 DEF Sids
  <2> QED
    BY <1>2, <2>1 DEF KeptInv, FlagInv
<1>5. ReplyKept'
  BY <1>2, <1>3 DEF KeptInv, ReplyKept, OnItsWay, Dispatching
<1> QED
  BY <1>4, <1>5 DEF KeptInv

(* A reader keeps hold of the reply it takes, and gives it away only to the *)
(* call that waits for it.                                                  *)
LEMMA ReaderKept ==
  ASSUME Step, KeptInv, NEW k \in Conns, ReaderStep(k) \/ ReaderExits(k)
  PROVE  KeptInv'
<1> USE DEF Step, TInv, TypeOK
<1>1. UNCHANGED <<sid, conn, served>> /\ inbox' \subseteq inbox
  BY DEF ReaderStep, ReadResponse, Dispatch, Deliver, SendPanics, Unlock, ReaderExits, callVars,
         netVars
<1>2. FlagInv'
  BY <1>1 DEF KeptInv, FlagInv
<1>3. SUFFICES ASSUME NEW c \in Calls \ OnlyCalls, pc'[c] \in Waiting, served[c] # Nil,
                      open'[conn[c]]
               PROVE  OnItsWay(c)'
  BY <1>1, <1>2 DEF KeptInv, ReplyKept
<1>4. pc[c] \in Waiting /\ open[conn[c]] /\ conn[c] \in Conns
  <2>1. pc[c] \in Waiting
    BY <1>3 DEF ReaderStep, ReadResponse, Dispatch, Deliver, SendPanics, Unlock, ReaderExits,
           callVars, Waiting
  <2> QED
    BY <1>3, <2>1 DEF ReaderStep, ReadResponse, Dispatch, Deliver, SendPanics, Unlock,
           ReaderExits, netVars, Waiting
<1>5. OnItsWay(c)
  BY <1>3, <1>4 DEF KeptInv, ReplyKept
<1>6. /\ sid[c] \in Sids /\ callItem[sid[c]] # Nil /\ callItem[sid[c]].ch = c
      /\ c \notin closed
  BY <1>4 DEF Inv, InMapInv, PhaseInv, InMap, Waiting
<1>7. CASE ReadResponse(k)
  <2>1. PICK m \in inbox :
        /\ m.conn = k
        /\ inbox' = inbox \ {m}
        /\ IF m.onlyCall THEN UNCHANGED <<hpc, hmsg>>
            ELSE hpc' = [hpc EXCEPT ![k] = "lookup"] /\ hmsg' = [hmsg EXCEPT ![k] = m]
    BY <1>7 DEF ReadResponse
  <2>2. hpc[k] = "read"
    BY <1>7 DEF ReadResponse
  <2>3. m.sid = sid[c] => ~ m.onlyCall
    BY DEF KeptInv, FlagInv
  <2> QED
    BY <1>1, <1>4, <1>5, <2>1, <2>2, <2>3 DEF OnItsWay, Dispatching
<1>8. CASE Dispatch(k)
  <2>1. /\ hpc[k] = "lookup" /\ UNCHANGED <<inbox, hmsg>>
        /\ \/ hpc' = [hpc EXCEPT ![k] = "send"]
           \/ /\ hpc' = [hpc EXCEPT ![k] = "read"]
              /\ ~ (callItem[hmsg[k].sid] # Nil /\ callItem[hmsg[k].sid].ch \notin closed)
    BY <1>8 DEF Dispatch, netVars
  <2> QED
    BY <1>1, <1>4, <1>5, <1>6, <2>1 DEF OnItsWay, Dispatching
<1>9. CASE Deliver(k)
  <2>1. /\ hpc[k] = "send" /\ UNCHANGED <<inbox, hmsg>>
        /\ pc' = [pc EXCEPT ![Target(k)] = "reply"]
        /\ hpc' = [hpc EXCEPT ![k] = "unlock"]
    BY <1>9 DEF Deliver, netVars
  <2>2. Target(k) # c
    BY <1>3, <2>1 DEF Waiting
  <2>3. hmsg[k].sid # sid[c]
    BY <1>6, <2>2 DEF Target
  <2> QED
    BY <1>1, <1>4, <1>5, <2>1, <2>3 DEF OnItsWay, Dispatching
<1>10. ~ SendPanics(k)
  BY SendFacts DEF Inv, PhaseInv, Waiting, SendPanics
<1>11. CASE Unlock(k)
  <2>1. hpc[k] = "unlock" /\ hpc' = [hpc EXCEPT ![k] = "read"] /\ UNCHANGED <<inbox, hmsg>>
    BY <1>11 DEF Unlock, netVars
  <2> QED
    BY <1>1, <1>4, <1>5, <2>1 DEF OnItsWay, Dispatching
<1>12. CASE ReaderExits(k)
  <2>1. /\ open' = [open EXCEPT ![k] = FALSE]
        /\ inbox' = {m \in inbox : m.conn # k}
        /\ hpc' = [hpc EXCEPT ![k] = "exit"] /\ UNCHANGED hmsg
    BY <1>12 DEF ReaderExits
  <2>2. conn[c] # k
    BY <1>3, <1>4, <2>1
  <2> QED
    BY <1>1, <1>4, <1>5, <2>1, <2>2 DEF OnItsWay, Dispatching
<1> QED
  BY <1>7, <1>8, <1>9, <1>10, <1>11, <1>12 DEF ReaderStep

(* The server sends what it answers, except a success of an only-call.      *)
LEMMA AnswerKept ==
  ASSUME Step, WireOwn, KeptInv, NEW r \in wire, NEW code \in Codes, Answer(r, code)
  PROVE  KeptInv'
<1> USE DEF Step, TInv, TypeOK
<1> DEFINE m0 == [conn |-> r.conn, sid |-> r.sid, code |-> code,
                  packet |-> IF code = 0 THEN r.call ELSE Nil, onlyCall |-> r.onlyCall]
<1>1. /\ m0.conn = r.conn /\ m0.sid = r.sid /\ m0.onlyCall = r.onlyCall
      /\ inbox' = IF ~ open[r.conn] \/ (r.onlyCall /\ code = 0) THEN inbox ELSE inbox \cup {m0}
  BY DEF Answer
<1> HIDE DEF m0
<1>2. /\ r.call \in Calls /\ r.sid = sid[r.call] /\ r.sid \in Sids
      /\ r.conn = conn[r.call] /\ (r.onlyCall => r.call \in OnlyCalls)
  BY DEF Inv, WireInv, WireOwn, RequestOf, Request
<1>3. /\ UNCHANGED <<pc, sid, conn, hpc, hmsg, open>>
      /\ served' = [served EXCEPT ![r.call] = code]
  BY DEF Answer, callVars, readVars
<1>4. FlagInv'
  <2>1. \A c \in Calls : sid[c] = m0.sid => c = r.call
    BY <1>1, <1>2, ConstantsOK DEF ConstantsOK, Inv, SidInv, Sids
  <2> QED
    BY <1>1, <1>2, <1>3, <2>1 DEF KeptInv, FlagInv
<1>5. ASSUME NEW c \in Calls \ OnlyCalls, pc[c] \in Waiting, served'[c] # Nil, open[conn[c]]
      PROVE  OnItsWay(c)'
  <2>1. CASE c = r.call
    <3>1. m0 \in inbox'
      BY <1>1, <1>2, <1>5, <2>1
    <3> QED
      BY <1>1, <1>2, <1>3, <2>1, <3>1 DEF OnItsWay
  <2>2. CASE c # r.call
    <3>1. served[c] # Nil
      BY <1>2, <1>3, <1>5, <2>2
    <3>2. OnItsWay(c)
      BY <1>5, <3>1 DEF KeptInv, ReplyKept
    <3> QED
      BY <1>1, <1>3, <3>2 DEF OnItsWay, Dispatching
  <2> QED
    BY <2>1, <2>2
<1>6. ReplyKept'
  BY <1>3, <1>5 DEF ReplyKept
<1> QED
  BY <1>4, <1>6 DEF KeptInv

LEMMA KeptStep ==
  ASSUME Step, WireOwn, KeptInv, [Next]_vars
  PROVE  KeptInv'
<1>1. ASSUME NEW r \in wire, Lose(r)
      PROVE  KeptInv'
  BY <1>1 DEF Lose, KeptInv, FlagInv, ReplyKept, OnItsWay, Dispatching, callVars, readVars
<1>2. CASE DestroySockets
  <2>1. /\ \A k \in Conns : ~ open'[k]
        /\ UNCHANGED <<pc, sid, conn, inbox>>
    BY <1>2 DEF DestroySockets, callVars
  <2>2. \A c \in Calls : pc[c] \in Waiting => conn[c] \in Conns
    BY DEF Step, TInv, Waiting
  <2> QED
    BY <2>1, <2>2 DEF KeptInv, FlagInv, ReplyKept
<1>3. ~ DestroyStep
  BY DEF Step, DestroyStep, DestroyRLock, DestroyClose, DestroyEnds
<1>4. CASE UNCHANGED vars
  BY <1>4 DEF KeptInv, FlagInv, ReplyKept, OnItsWay, Dispatching, vars, callVars, readVars,
     netVars
<1> QED
  BY <1>1, <1>2, <1>3, <1>4, CallKept, ReaderKept, AnswerKept DEF Next, ServerStep

(* Whatever else the calls, the timers and the lock do in between, a reply  *)
(* written to a connection that stands is still there for the call that     *)
(* waits for it.                                                            *)
RepliesKept == UntilDestroy(ReplyKept)

THEOREM NoReplyLost == Spec => []RepliesKept
<1>1. Init => WireOwn /\ KeptInv
  BY DEF Init, WireOwn, KeptInv, FlagInv, ReplyKept, Waiting
<1>2. IInv /\ WireOwn /\ UntilDestroy(KeptInv) /\ [Next]_vars => UntilDestroy(KeptInv)'
  <2> SUFFICES ASSUME IInv, WireOwn, UntilDestroy(KeptInv), [Next]_vars, dpc' = "idle"
               PROVE  KeptInv'
    BY DEF UntilDestroy
  <2>1. dpc = "idle"
    BY IdleBefore
  <2> QED
    BY <2>1, KeptStep DEF IInv, UntilDestroy, Step
<1>3. Spec => [](TInv /\ OwnInv /\ WireOwn)
  <2>1. TInv /\ OwnInv /\ WireOwn /\ [Next]_vars => (TInv /\ OwnInv /\ WireOwn)'
    BY TInvNext, OwnNext, WireOwnStep
  <2> QED
    BY <1>1, <2>1, TInvInit, OwnInit, PTL DEF Spec
<1>4. Spec => []UntilDestroy(KeptInv)
  BY <1>1, <1>2, <1>3, InvariantHolds, PTL DEF Spec, UntilDestroy
<1>5. UntilDestroy(KeptInv) => RepliesKept
  BY DEF UntilDestroy, KeptInv, RepliesKept
<1> QED
  BY <1>4, <1>5, PTL
=============================================================================
