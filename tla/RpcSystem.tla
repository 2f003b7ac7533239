----------------------------- MODULE RpcSystem -----------------------------
(***************************************************************************)
(* Clients and the server they call, composed: RpcCall with its free       *)
(* server replaced by ServerLife, that is, by onRecv, the queue, the       *)
(* workers and the life of server/server.go.                               *)
(*                                                                         *)
(* A request is a call on the connection pool.response chose for it.  The  *)
(* server receives it after the client has written it, and a code that     *)
(* reply writes to the connection is the response the client reads.  What  *)
(* the client's ends of the connections do is RpcCall's, what the server's *)
(* ends do is RpcServer's, and the bytes between them stay in order but    *)
(* for the workers, which is what the sets wire and inbox say.             *)
(***************************************************************************)
EXTENDS RpcCall, Sequences, FiniteSets

CONSTANTS UnknownCalls,   \* the calls of methods the server does not have
          Workers, Cap, Margin   \* as in RpcServer

Requests == Calls \X Conns

ASSUME SystemOK ==
  /\ IsFiniteSet(Conns)
  /\ IsFiniteSet(Workers)
  /\ UnknownCalls \subseteq Calls
  /\ {405, 500, 505} \subseteq ErrorCodes
  /\ Cap \in Nat \ {0}
  /\ Margin \in 0 .. Cap
  /\ Nil \notin Requests

VARIABLES unsent, reader, held, reqCh, worker, job, answers, panicked,
          reqs, conns, released, crashed, life, registered

(* A client marshals its packets, so there is no garbage.                   *)
Server == INSTANCE ServerLife WITH
  ConnOf    <- [r \in Requests |-> r[2]],
  OnlyCalls <- OnlyCalls \X Conns,
  Unknown   <- UnknownCalls \X Conns,
  Garbage   <- {}

serverVars == <<unsent, reader, held, reqCh, worker, job, answers, panicked,
                reqs, conns, released, crashed, life, registered>>
systemVars == <<vars, serverVars>>

SystemInit == Init /\ Server!LifeInit

-----------------------------------------------------------------------------

(* Connections are there once the server has bound its socket.              *)
ClientStep ==
  /\ life \notin {"new", "failed"}
  /\ \/ \E c \in Calls : CallStep(c) \/ TimerFires(c)
     \/ \E k \in Conns : ReaderStep(k) \/ ReaderExits(k)
     \/ DestroySockets \/ DestroyStep
  /\ UNCHANGED serverVars

(* The packet of Client.call that carries a request.                        *)
PacketFor(r) == [conn |-> r[2], sid |-> sid[r[1]], call |-> r[1],
                 onlyCall |-> r[1] \in OnlyCalls]

(* The server reads what a client has written to it.                        *)
Received == \A r \in unsent \ unsent' : PacketFor(r) \in wire

(* What reply has written is on its way to the client.                      *)
Transmitted ==
  IF answers' = answers THEN UNCHANGED vars
  ELSE \E r \in Requests :
         /\ answers'[r] # answers[r]
         /\ Answer(PacketFor(r), answers'[r][Len(answers'[r])])

SystemServerStep == Server!LifeNext /\ Received /\ Transmitted

SystemNext == ClientStep \/ SystemServerStep

SystemSpec == SystemInit /\ [][SystemNext]_systemVars

-----------------------------------------------------------------------------
(* Properties. *)

(* The server RpcCall knows of, which answers what it likes when it likes,  *)
(* answers as server.go does: once, and only what has been sent.            *)
SeenByClients == Spec

(* What a call returns is what the server did with its request: until       *)
(* Destroy a call that waited and returns success has had its method        *)
(* return, and one that returns the 405 of the limiter or the 505 of an     *)
(* error has met it, over the connection it was sent on and over no other.  *)
EndToEnd == UntilDestroy(
  \A c \in Calls \ OnlyCalls : ret[c] # Nil =>
    /\ ~ ret[c].err => answers[<<c, conn[c]>>] = <<0>>
    /\ ret[c].rpcCode \in {405, 505} => answers[<<c, conn[c]>>] = <<ret[c].rpcCode>>
    /\ \A k \in Conns \ {conn[c]} : <<c, k>> \in unsent)

ReplyOnItsWay(c) ==
  \/ \E m \in inbox : m.conn = conn[c] /\ m.sid = sid[c]
  \/ hpc[conn[c]] \in {"lookup", "send"} /\ hmsg[conn[c]].sid = sid[c]

(* A call never waits for nothing: until Destroy, as long as its connection *)
(* stands, the server has its request still to handle or the reply is on    *)
(* its way, unless it calls what the server does not have or its method     *)
(* has panicked.                                                            *)
WorthWaiting == UntilDestroy(
  \A c \in Calls \ OnlyCalls :
    pc[c] \in {"written", "select"} /\ open[conn[c]] =>
      \/ Server!InHand(<<c, conn[c]>>)
      \/ ReplyOnItsWay(c)
      \/ c \in UnknownCalls
      \/ <<c, conn[c]>> \in panicked
      \/ reader[conn[c]] = "closed")
=============================================================================
