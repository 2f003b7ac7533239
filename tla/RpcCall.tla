------------------------------ MODULE RpcCall ------------------------------
(***************************************************************************)
(* The client side of one RPC: Client.Call and Client.call of              *)
(* client/client.go, the goroutine that reads the replies of a connection  *)
(* (the callback of pool.connect in client/pools.go) and pool.destroy.     *)
(*                                                                         *)
(* Every call runs in a goroutine of its own.  It registers a CallCond     *)
(* under its Sid in pool.callItem, writes the request and waits on the     *)
(* unbuffered channel of the CallCond or on a timer.  The reader of the    *)
(* connection looks the Sid of a reply up and sends on that channel.  The  *)
(* map is guarded by pool.wrw, a sync.RWMutex: a writer first announces    *)
(* itself, which stops new readers, and enters once the readers are gone.  *)
(***************************************************************************)
EXTENDS Integers

CONSTANTS Calls,       \* the calls the application makes, one goroutine each
          OnlyCalls,   \* the calls made with OnlyCall(true)
          Timers,      \* the calls whose timer may expire before the reply
          Conns,       \* the connections of the pool
          ErrorCodes,  \* the non-zero codes a server answers (405, 500, 505)
          MaxSid,      \* bound on the Sids handed out: one per call
          MayDestroy,  \* whether the application calls Client.Destroy
          Nil          \* nil: no item, no packet, no lock holder

Codes   == ErrorCodes \cup {0}
Sids    == 1 .. MaxSid
Packets == Calls \cup {Nil}      \* a packet is named after the call it answers

CallCond == [ch : Calls, code : Codes, packet : Packets]
Request  == [conn : Conns, sid : Sids, call : Calls, onlyCall : BOOLEAN]
Response == [conn : Conns, sid : Sids, code : Codes, packet : Packets,
             onlyCall : BOOLEAN]

(* What Client.Call returned, and rpcCode as call's deferred function saw it:
   -1 until a result is known, 500 for a failed write, 408 for a timeout.   *)
Return   == [err : BOOLEAN, packet : Packets, rpcCode : Codes \cup {-1, 408, 500}]

ASSUME ConstantsOK ==
  /\ OnlyCalls \subseteq Calls
  /\ Timers \subseteq Calls
  /\ ErrorCodes \subseteq Int \ {0}
  /\ MaxSid \in Nat
  /\ MayDestroy \in BOOLEAN
  /\ Nil \notin Calls
  /\ Nil \notin Conns
  /\ Nil \notin CallCond
  /\ Nil \notin Response
  /\ Nil \notin Return
  /\ Nil \notin Codes

VARIABLES
  pc,        \* where each call's goroutine is
  sid,       \* the Sid each call drew, 0 before it draws one
  conn,      \* the connection pool.response chose for each call
  ret,       \* what Client.Call returned to the application, or Nil
  counter,   \* client/common.go: the last Sid handed out
  callItem,  \* pool.callItem, Nil where the map has no entry
  closed,    \* the calls whose waitCh has been closed
  wWriter,   \* the call holding or awaiting wrw.Lock, or Nil
  rlocks,    \* per connection, the RLocks on wrw its reader holds
  hpc,       \* where each connection's reader goroutine is
  hmsg,      \* the response that reader is dispatching
  open,      \* whether the client's end of each connection is open
  inbox,     \* the responses a server has written and no reader has read
  wire,      \* the requests a server has received and not yet finished
  served,    \* the code a server answered each call with, or Nil
  dpc,       \* where pool.destroy is
  dTodo      \* the Sids whose channel destroy has still to close

callVars == <<pc, sid, conn, ret, counter>>
itemVars == <<callItem, closed, wWriter>>
readVars == <<rlocks, hpc, hmsg>>
netVars  == <<open, inbox, wire, served>>
destVars == <<dpc, dTodo>>
vars == <<callVars, itemVars, readVars, netVars, destVars>>

Init ==
  /\ pc       = [c \in Calls |-> "start"]
  /\ sid      = [c \in Calls |-> 0]
  /\ conn     = [c \in Calls |-> Nil]
  /\ ret      = [c \in Calls |-> Nil]
  /\ counter  = 0
  /\ callItem = [s \in Sids |-> Nil]
  /\ closed   = {}
  /\ wWriter  = Nil
  /\ rlocks   = [k \in Conns |-> 0]
  /\ hpc      = [k \in Conns |-> "read"]
  /\ hmsg     = [k \in Conns |-> Nil]
  /\ open     = [k \in Conns |-> TRUE]
  /\ inbox    = {}
  /\ wire     = {}
  /\ served   = [c \in Calls |-> Nil]
  /\ dpc      = "idle"
  /\ dTodo    = {}

-----------------------------------------------------------------------------
(* sync.RWMutex. *)

(* RLock succeeds unless a writer holds the lock or has announced itself.   *)
CanRLock == wWriter = Nil

(* An announced writer enters once every reader has left.                   *)
NoReader == (\A k \in Conns : rlocks[k] = 0) /\ dpc # "items"

Announce(c, from, to) ==
  /\ pc[c] = from
  /\ wWriter = Nil
  /\ wWriter' = c
  /\ pc' = [pc EXCEPT ![c] = to]
  /\ UNCHANGED <<sid, conn, ret, counter, callItem, closed,
                 readVars, netVars, destVars>>

-----------------------------------------------------------------------------
(* Client.Call. *)

Goto(c, to) == pc' = [pc EXCEPT ![c] = to]

Finish(c, isErr, packet, rpcCode) ==
  /\ Goto(c, "done")
  /\ ret' = [ret EXCEPT ![c] =
                [err |-> isErr, packet |-> packet, rpcCode |-> rpcCode]]

(* A panic below Client.Call ends in its recover, which leaves both named   *)
(* results at nil: the application sees success with an empty packet.  What *)
(* was locked stays locked, wrw is not released by a deferred call.         *)
Recovered(c, rpcCode) == Finish(c, FALSE, Nil, rpcCode)

(* pool.response either finds no node or picks a connection of the pool; it *)
(* needs rw.Lock, which destroy keeps out while it holds rw.RLock.          *)
GetConn(c) ==
  /\ pc[c] = "start"
  /\ dpc \notin {"sockets", "items"}
  /\ \/ /\ \E k \in Conns : conn' = [conn EXCEPT ![c] = k]
        /\ Goto(c, "call")
        /\ UNCHANGED ret
     \/ Finish(c, TRUE, Nil, -1) /\ UNCHANGED conn
  /\ UNCHANGED <<sid, counter, itemVars, readVars, netVars, destVars>>

(* Mutation of TakeSid: the increment of the counter is lost.               *)
TakeSidLosingIncrement(c) ==
  /\ pc[c] = "call"
  /\ counter < MaxSid
  /\ sid' = [sid EXCEPT ![c] = counter + 1]
  /\ Goto(c, IF c \in OnlyCalls THEN "write" ELSE "register")
  /\ UNCHANGED <<conn, ret, counter, itemVars, readVars, netVars, destVars>>

(* Sid := Sid(), an atomic increment.  Only a call that will wait registers.*)
TakeSid(c) ==
  /\ pc[c] = "call"
  /\ counter < MaxSid
  /\ counter' = counter + 1
  /\ sid' = [sid EXCEPT ![c] = counter + 1]
  /\ Goto(c, IF c \in OnlyCalls THEN "write" ELSE "register")
  /\ UNCHANGED <<conn, ret, itemVars, readVars, netVars, destVars>>

LockToRegister(c) == Announce(c, "register", "registering")

Register(c) ==
  /\ pc[c] = "registering"
  /\ NoReader
  /\ callItem' = [callItem EXCEPT ![sid[c]] =
                    [ch |-> c, code |-> 0, packet |-> Nil]]
  /\ wWriter' = Nil
  /\ Goto(c, "write")
  /\ UNCHANGED <<sid, conn, ret, counter, closed, readVars, netVars, destVars>>

(* Response.Write hands the whole frame to the kernel.  An only-call is     *)
(* over then: the deferred function closes its channel, which nobody else   *)
(* knows.                                                                   *)
Write(c) ==
  /\ pc[c] = "write"
  /\ open[conn[c]]
  /\ wire' = wire \cup {[conn |-> conn[c], sid |-> sid[c], call |-> c,
                         onlyCall |-> c \in OnlyCalls]}
  /\ IF c \in OnlyCalls
       THEN Finish(c, FALSE, Nil, 0) /\ closed' = closed \cup {c}
       ELSE Goto(c, "written") /\ UNCHANGED <<ret, closed>>
  /\ UNCHANGED <<sid, conn, counter, callItem, wWriter, readVars, open, inbox,
                 served, destVars>>

(* The write fails: the socket was closed here, or the peer is gone.  The   *)
(* deferred function asks ClosedChanInt before it closes waitCh; the entry  *)
(* of callItem stays behind.                                                *)
WriteFails(c) ==
  /\ pc[c] = "write"
  /\ IF c \in closed THEN Finish(c, TRUE, Nil, 500)
                     ELSE Goto(c, "closing") /\ UNCHANGED ret
  /\ UNCHANGED <<sid, conn, counter, itemVars, readVars, netVars, destVars>>

CloseWaitCh(c) ==
  /\ pc[c] = "closing"
  /\ closed' = closed \cup {c}
  /\ IF c \in closed THEN Recovered(c, 500) ELSE Finish(c, TRUE, Nil, 500)
  /\ UNCHANGED <<sid, conn, counter, callItem, wWriter, readVars, netVars,
                 destVars>>

-----------------------------------------------------------------------------
(* The select of Client.call and its two branches. *)

(* The reply may arrive before the caller has got from Write to the select. *)
EnterSelect(c) ==
  /\ pc[c] = "written"
  /\ Goto(c, "select")
  /\ UNCHANGED <<sid, conn, ret, counter, itemVars, readVars, netVars, destVars>>

TimerFires(c) ==
  /\ pc[c] = "select"
  /\ c \in Timers
  /\ Goto(c, "timeout")
  /\ UNCHANGED <<sid, conn, ret, counter, itemVars, readVars, netVars, destVars>>

(* A receive from a channel that destroy has closed. *)
ReceiveClosed(c) ==
  /\ pc[c] = "select"
  /\ c \in closed
  /\ Goto(c, "reply")
  /\ UNCHANGED <<sid, conn, ret, counter, itemVars, readVars, netVars, destVars>>

LockAfterTimeout(c) == Announce(c, "timeout", "timingOut")
LockAfterReply(c)   == Announce(c, "reply", "replying")

(* close(c.p.callItem[Sid].Ch) panics on a closed channel, and so does      *)
(* reaching through an entry that is not there.                             *)
ClosePanics(c) == callItem[sid[c]] = Nil \/ callItem[sid[c]].ch \in closed

(* Mutation of DropItem: the channel is closed and the entry is kept.       *)
DropItemForgotten(c) ==
  /\ closed' = closed \cup {callItem[sid[c]].ch}
  /\ UNCHANGED callItem

(* close(c.p.callItem[Sid].Ch); delete(c.p.callItem, Sid)                   *)
DropItem(c) ==
  /\ closed' = closed \cup {callItem[sid[c]].ch}
  /\ callItem' = [callItem EXCEPT ![sid[c]] = Nil]

FinishTimeout(c) ==
  /\ pc[c] = "timingOut"
  /\ NoReader
  /\ \/ ClosePanics(c) /\ Recovered(c, -1) /\ UNCHANGED itemVars
     \/ /\ ~ ClosePanics(c)
        /\ DropItem(c)
        /\ wWriter' = Nil
        /\ Finish(c, TRUE, Nil, 408)
  /\ UNCHANGED <<sid, conn, counter, readVars, netVars, destVars>>

(* Packet and Code are read and Packet is cleared before the close.         *)
FinishReply(c) ==
  /\ pc[c] = "replying"
  /\ NoReader
  /\ LET item == callItem[sid[c]] IN
       \/ /\ ClosePanics(c)
          /\ callItem' = IF item = Nil THEN callItem
                         ELSE [callItem EXCEPT ![sid[c]].packet = Nil]
          /\ Recovered(c, IF item = Nil THEN -1 ELSE item.code)
          /\ UNCHANGED <<closed, wWriter>>
       \/ /\ ~ ClosePanics(c)
          /\ DropItem(c)
          /\ wWriter' = Nil
          /\ Finish(c, item.code # 0, IF item.code = 0 THEN item.packet ELSE Nil,
                    item.code)
  /\ UNCHANGED <<sid, conn, counter, readVars, netVars, destVars>>

-----------------------------------------------------------------------------
(* The reader goroutine of a connection. *)

(* A frame has arrived; a reply to an only-call is dropped.  A server's     *)
(* workers write their replies in no particular order, so the frames on the *)
(* way are a set.                                                           *)
ReadResponse(k) ==
  /\ hpc[k] = "read"
  /\ open[k]
  /\ \E m \in inbox :
       /\ m.conn = k
       /\ inbox' = inbox \ {m}
       /\ IF m.onlyCall
            THEN UNCHANGED <<hpc, hmsg>>
            ELSE /\ hpc' = [hpc EXCEPT ![k] = "lookup"]
                 /\ hmsg' = [hmsg EXCEPT ![k] = m]
  /\ UNCHANGED <<callVars, itemVars, rlocks, open, wire, served, destVars>>

(* Mutation of Dispatch: the RLock is released before the send.             *)
DispatchUnlocked(k) ==
  /\ hpc[k] = "lookup"
  /\ CanRLock
  /\ LET m == hmsg[k] IN
       IF callItem[m.sid] # Nil /\ callItem[m.sid].ch \notin closed
         THEN /\ callItem' = [callItem EXCEPT ![m.sid] =
                               [ch |-> @.ch, code |-> m.code, packet |-> m.packet]]
              /\ hpc' = [hpc EXCEPT ![k] = "send"]
         ELSE hpc' = [hpc EXCEPT ![k] = "read"] /\ UNCHANGED callItem
  /\ UNCHANGED <<callVars, closed, wWriter, rlocks, hmsg, netVars, destVars>>

(* RLock and the lookup.  Without an entry the reply came too late and is   *)
(* dropped; with one, Packet and Code are stored, and unless the channel is *)
(* closed already the reader goes on to send on it, keeping the RLock.      *)
Dispatch(k) ==
  /\ hpc[k] = "lookup"
  /\ CanRLock
  /\ LET m == hmsg[k] IN
       /\ callItem' = IF callItem[m.sid] = Nil THEN callItem
                      ELSE [callItem EXCEPT ![m.sid] =
                              [ch |-> @.ch, code |-> m.code, packet |-> m.packet]]
       /\ IF callItem[m.sid] # Nil /\ callItem[m.sid].ch \notin closed
            THEN /\ hpc' = [hpc EXCEPT ![k] = "send"]
                 /\ rlocks' = [rlocks EXCEPT ![k] = @ + 1]
            ELSE /\ hpc' = [hpc EXCEPT ![k] = "read"]
                 /\ UNCHANGED rlocks
  /\ UNCHANGED <<callVars, closed, wWriter, hmsg, netVars, destVars>>

(* The call whose channel the reader of k is about to send on.              *)
Target(k) == callItem[hmsg[k].sid].ch

(* The rendezvous on the unbuffered channel.                                *)
Deliver(k) ==
  /\ hpc[k] = "send"
  /\ Target(k) \notin closed
  /\ pc[Target(k)] = "select"
  /\ pc' = [pc EXCEPT ![Target(k)] = "reply"]
  /\ hpc' = [hpc EXCEPT ![k] = "unlock"]
  /\ UNCHANGED <<sid, conn, ret, counter, itemVars, rlocks, hmsg, netVars,
                 destVars>>

(* destroy closed the channel first: the send panics, the callback recovers *)
(* and the RLock is never released.                                         *)
SendPanics(k) ==
  /\ hpc[k] = "send"
  /\ Target(k) \in closed
  /\ hpc' = [hpc EXCEPT ![k] = "read"]
  /\ UNCHANGED <<callVars, itemVars, rlocks, hmsg, netVars, destVars>>

(* Mutation of Unlock: the RUnlock is forgotten.                            *)
UnlockForgotten(k) ==
  /\ hpc[k] = "unlock"
  /\ hpc' = [hpc EXCEPT ![k] = "read"]
  /\ UNCHANGED <<callVars, itemVars, rlocks, hmsg, netVars, destVars>>

Unlock(k) ==
  /\ hpc[k] = "unlock"
  /\ hpc' = [hpc EXCEPT ![k] = "read"]
  /\ rlocks' = [rlocks EXCEPT ![k] = @ - 1]
  /\ UNCHANGED <<callVars, itemVars, hmsg, netVars, destVars>>

(* Read fails: the peer or destroy closed the connection, or it broke.      *)
ReaderExits(k) ==
  /\ hpc[k] = "read"
  /\ hpc' = [hpc EXCEPT ![k] = "exit"]
  /\ open' = [open EXCEPT ![k] = FALSE]
  /\ inbox' = {m \in inbox : m.conn # k}
  /\ UNCHANGED <<callVars, itemVars, rlocks, hmsg, wire, served, destVars>>

-----------------------------------------------------------------------------
(* The server, as far as a client can tell (server/server.go, handle and    *)
(* onRecv): it answers a request at most once, in any order, from the       *)
(* packet it received, echoing Sid and headers, and it may never answer.    *)

(* Mutation of Answer: a request stays in the queue after its answer.       *)
AnswerRepeatedly(r, code) ==
  /\ served' = [served EXCEPT ![r.call] = code]
  /\ inbox' = inbox \cup {[conn |-> r.conn, sid |-> r.sid, code |-> code,
                           packet |-> IF code = 0 THEN r.call ELSE Nil,
                           onlyCall |-> r.onlyCall]}
  /\ UNCHANGED <<callVars, itemVars, readVars, open, wire, destVars>>

(* Mutation of Answer: the Sid of another request is echoed.                *)
AnswerToAnother(r, code) ==
  /\ wire' = wire \ {r}
  /\ served' = [served EXCEPT ![r.call] = code]
  /\ \E q \in wire :
       inbox' = inbox \cup {[conn |-> r.conn, sid |-> q.sid, code |-> code,
                             packet |-> IF code = 0 THEN r.call ELSE Nil,
                             onlyCall |-> r.onlyCall]}
  /\ UNCHANGED <<callVars, itemVars, readVars, open, destVars>>

Answer(r, code) ==
  /\ wire' = wire \ {r}
  /\ served' = [served EXCEPT ![r.call] = code]
  /\ inbox' = IF ~ open[r.conn] \/ (r.onlyCall /\ code = 0) THEN inbox
              ELSE inbox \cup {[conn |-> r.conn, sid |-> r.sid, code |-> code,
                                packet |-> IF code = 0 THEN r.call ELSE Nil,
                                onlyCall |-> r.onlyCall]}
  /\ UNCHANGED <<callVars, itemVars, readVars, open, destVars>>

(* A panic in the method, an unknown RpcId, a crash, a connection cut.      *)
Lose(r) ==
  /\ wire' = wire \ {r}
  /\ UNCHANGED <<callVars, itemVars, readVars, open, inbox, served, destVars>>

-----------------------------------------------------------------------------
(* Client.Destroy: pool.destroy with a registry whose own Destroy returns.  *)
(* That of registry.go does so in a process that is registered as a server; *)
(* in one that only calls it ends the process before any of this happens.   *)

DestroySockets ==
  /\ MayDestroy
  /\ dpc = "idle"
  /\ dpc' = "sockets"
  /\ open' = [k \in Conns |-> FALSE]
  /\ UNCHANGED <<callVars, itemVars, readVars, inbox, wire, served, dTodo>>

DestroyRLock ==
  /\ dpc = "sockets"
  /\ CanRLock
  /\ dpc' = "items"
  /\ dTodo' = {s \in Sids : callItem[s] # Nil}
  /\ UNCHANGED <<callVars, itemVars, readVars, netVars>>

(* close(v.Ch) for an entry of the map; on a closed channel it panics, and  *)
(* the deferred RUnlocks run on the way out of Client.Destroy.              *)
DestroyClose(s) ==
  /\ dpc = "items"
  /\ s \in dTodo
  /\ IF callItem[s].ch \in closed
       THEN dpc' = "panicked" /\ dTodo' = {} /\ UNCHANGED closed
       ELSE /\ closed' = closed \cup {callItem[s].ch}
            /\ dTodo' = dTodo \ {s}
            /\ UNCHANGED dpc
  /\ UNCHANGED <<callVars, callItem, wWriter, readVars, netVars>>

DestroyEnds ==
  /\ dpc = "items"
  /\ dTodo = {}
  /\ dpc' = "done"
  /\ UNCHANGED <<callVars, itemVars, readVars, netVars, dTodo>>

-----------------------------------------------------------------------------

CallStep(c) == \/ GetConn(c) \/ TakeSid(c)
               \/ LockToRegister(c) \/ Register(c)
               \/ Write(c) \/ WriteFails(c) \/ CloseWaitCh(c)
               \/ EnterSelect(c) \/ ReceiveClosed(c)
               \/ LockAfterTimeout(c) \/ FinishTimeout(c)
               \/ LockAfterReply(c) \/ FinishReply(c)

ReaderStep(k) == \/ ReadResponse(k) \/ Dispatch(k)
                 \/ Deliver(k) \/ SendPanics(k) \/ Unlock(k)

ServerStep == \E r \in wire : \/ Lose(r)
                              \/ \E code \in Codes : Answer(r, code)

DestroyStep == \/ DestroyRLock \/ DestroyEnds
               \/ \E s \in Sids : DestroyClose(s)

Next == \/ \E c \in Calls : CallStep(c) \/ TimerFires(c)
        \/ \E k \in Conns : ReaderStep(k) \/ ReaderExits(k)
        \/ ServerStep
        \/ DestroySockets \/ DestroyStep

Spec == Init /\ [][Next]_vars

(* Go schedules every runnable goroutine, and a timer set in the select     *)
(* fires.  Nothing is assumed of the server or of the network.              *)
FairSpec == /\ Spec
            /\ \A c \in Calls : WF_vars(CallStep(c)) /\ WF_vars(TimerFires(c))
            /\ \A k \in Conns : WF_vars(ReaderStep(k))
            /\ WF_vars(DestroyStep)

-----------------------------------------------------------------------------
(* Properties. *)

CallPCs == {"start", "call", "register", "registering", "write", "closing",
            "written", "select", "timeout", "timingOut", "reply", "replying",
            "done"}

TypeOK ==
  /\ pc \in [Calls -> CallPCs]
  /\ sid \in [Calls -> Sids \cup {0}]
  /\ conn \in [Calls -> Conns \cup {Nil}]
  /\ ret \in [Calls -> Return \cup {Nil}]
  /\ counter \in 0 .. MaxSid
  /\ callItem \in [Sids -> CallCond \cup {Nil}]
  /\ closed \subseteq Calls
  /\ wWriter \in Calls \cup {Nil}
  /\ rlocks \in [Conns -> Nat]
  /\ hpc \in [Conns -> {"read", "lookup", "send", "unlock", "exit"}]
  /\ hmsg \in [Conns -> Response \cup {Nil}]
  /\ open \in [Conns -> BOOLEAN]
  /\ inbox \subseteq Response
  /\ wire \subseteq Request
  /\ served \in [Calls -> Codes \cup {Nil}]
  /\ dpc \in {"idle", "sockets", "items", "done", "panicked"}
  /\ dTodo \subseteq Sids

(* A call that returns without an error and waited for a reply holds the    *)
(* packet a server answered to its own request: Sids never mix up replies,  *)
(* and nothing but a code 0 answer counts as success.                       *)
AnswerToOwnRequest ==
  \A c \in Calls \ OnlyCalls :
    ret[c] # Nil /\ ~ ret[c].err => served[c] = 0 /\ ret[c].packet = c

(* What the client keeps as long as the application has not called Destroy. *)
UntilDestroy(P) == dpc = "idle" => P

(* Until Destroy a call that succeeds holds the answer to its own request.  *)
AnswersUntilDestroy == UntilDestroy(AnswerToOwnRequest)

(* Whatever Destroy does to the calls in flight, no call is handed the      *)
(* packet of another one, or a packet no server sent.                       *)
OwnPacketOnly ==
  \A c \in Calls : ret[c] # Nil /\ ret[c].packet # Nil =>
    ret[c].packet = c /\ served[c] = 0

(* Destroy itself panics only over an entry a failed write left behind.     *)
DestroyPanicsOnLeftovers ==
  dpc = "panicked" => \E c \in Calls : /\ ret[c] # Nil
                                      /\ ret[c].rpcCode = 500
                                      /\ callItem[sid[c]] # Nil

(* The operations that would panic, at the point where they are due: a      *)
(* second close, a close through a missing entry, a send on a closed        *)
(* channel.                                                                 *)
AboutToPanic ==
  \/ \E c \in Calls : \/ pc[c] = "closing" /\ c \in closed
                      \/ pc[c] \in {"timingOut", "replying"} /\ ClosePanics(c)
  \/ \E k \in Conns : hpc[k] = "send" /\ (\/ callItem[hmsg[k].sid] = Nil
                                          \/ Target(k) \in closed)

(* Until Destroy, callers, timers and readers share the channels without    *)
(* ever closing one twice or sending on a closed one.                       *)
PanicOnlyAfterDestroy == UntilDestroy(~ AboutToPanic)

(* Until Destroy, an entry of callItem belongs to a call under its own Sid  *)
(* that is still in flight, or whose write failed; timeouts and replies     *)
(* leave none behind.                                                       *)
ItemsAccountedFor == UntilDestroy(
  \A s \in Sids : callItem[s] # Nil =>
    LET c == callItem[s].ch IN
      /\ sid[c] = s
      /\ \/ pc[c] \notin {"start", "call", "register", "registering", "done"}
         \/ pc[c] = "done" /\ ret[c] # Nil /\ ret[c].rpcCode = 500)

(* The reader of k holds the RLock to hand over a reply to a call that has  *)
(* chosen the timeout: neither side will give way.                          *)
Stranded(k) == hpc[k] = "send" /\ pc[Target(k)] \in {"timeout", "timingOut"}

(* Until Destroy only an expired timer leaves a reader without a receiver:  *)
(* the call it sends to is on its way to the select, or in it, or has timed *)
(* out.                                                                     *)
OnlyTimersStrandReaders == UntilDestroy(
  \A k \in Conns : hpc[k] = "send" =>
    \/ pc[Target(k)] \in {"written", "select"}
    \/ Stranded(k) /\ Target(k) \in Timers)

(* A call that has set its timer returns, unless some reader is stranded.   *)
ReturnsUnlessStranded ==
  \A c \in Timers : pc[c] = "select" ~> (pc[c] = "done" \/ \E k \in Conns : Stranded(k))

(* A reply that a reader has picked up reaches the call waiting for it, if  *)
(* no timer can take it from the reader and no reader is stranded.          *)
ReplyReachesCaller ==
  \A c \in Calls \ Timers, k \in Conns :
    hpc[k] = "lookup" /\ hmsg[k].sid = sid[c]
      ~> pc[c] = "done" \/ \E h \in Conns : Stranded(h)

(* "Timeout for calling RPC service request" (client/options.go): a call    *)
(* whose timer expired returns.                                             *)
TimedOutCallReturns == \A c \in Calls : pc[c] = "timeout" ~> pc[c] = "done"

(* The contract of RpcContract, read off the state of the client.           *)
Contract == INSTANCE RpcContract WITH
  answer <- served,
  value  <- [c \in Calls |-> IF ret[c] = Nil THEN Nil ELSE ret[c].packet],
  status <- [c \in Calls |-> IF pc[c] = "start" THEN "new"
                            ELSE IF pc[c] # "done" THEN "pending"
                            ELSE IF ret[c].err THEN "failed"
                            ELSE IF c \in OnlyCalls THEN "sent" ELSE "ok"]

ContractHolds == Contract!Spec
=============================================================================
