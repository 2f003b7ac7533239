-------------------------- MODULE RpcSystemProofs --------------------------
(***************************************************************************)
(* Theorems about RpcSystem.  What RpcCallProofs shows of a client with    *)
(* any server, and RpcServerProofs of a server with any clients, is put    *)
(* together: the server of server.go is one RpcCall allows, so everything  *)
(* proved there goes for the two of them, and the answers the one keeps    *)
(* account of are the ones the other hands to its callers.                 *)
(***************************************************************************)
EXTENDS RpcSystem, RpcCallProofs

SP == INSTANCE RpcServerProofs WITH
  ConnOf    <- [r \in Requests |-> r[2]],
  OnlyCalls <- OnlyCalls \X Conns,
  Unknown   <- UnknownCalls \X Conns,
  Garbage   <- {}

-----------------------------------------------------------------------------
(* The server of the system is one RpcServerProofs is about: its constants  *)
(* are as RpcServer assumes, and its steps are the same.                    *)

LEMMA ServerConstants == SP!ConstantsOK
<1>1. IsFiniteSet(Conns) /\ IsFiniteSet(Workers)
        => SP!IsFiniteSet(Conns) /\ SP!IsFiniteSet(Workers)
  BY DEF IsFiniteSet, SP!IsFiniteSet
<1>2. [r \in Requests |-> r[2]] \in [Requests -> Conns]
  BY DEF Requests
<1> QED
  BY <1>1, <1>2, SystemOK, ConstantsOK DEF SP!ConstantsOK, SystemOK, ConstantsOK, Requests

LEMMA SameInit == Server!LifeInit <=> SP!LifeInit
BY DEF Server!LifeInit, Server!Init, SP!LifeInit, SP!Init

LEMMA SameNext == Server!LifeNext <=> SP!LifeNext
BY DEF
  Server!LifeNext, Server!MainStep, Server!Bind, Server!Listen, Server!StartAsync,
  Server!StartWorkers, Server!CloseSocket, Server!Cancel, Server!Destroy,
  Server!ReleaseAgain, Server!Accepting, Server!Working, Server!ReaderStep,
  Server!WorkerStep, Server!Goes, Server!Accept, Server!Push, Server!Close,
  Server!OnRecv, Server!Receives, Server!Keep, Server!Refuse, Server!Reply,
  Server!Full, Server!Open, Server!At, Server!Take, Server!Limited,
  Server!Admitted, Server!MethodReturns, Server!MethodFails, Server!MethodPanics,
  Server!MethodPanicsWithValue, Server!Leave, Server!Exit, Server!Release,
  Server!vars, Server!allVars, Server!lifeVars, Server!connVars,
  Server!workVars, Server!globalVars,
  SP!LifeNext, SP!MainStep, SP!Bind, SP!Listen, SP!StartAsync, SP!StartWorkers,
  SP!CloseSocket, SP!Cancel, SP!Destroy, SP!ReleaseAgain, SP!Accepting,
  SP!Working, SP!ReaderStep, SP!WorkerStep, SP!Goes, SP!Accept, SP!Push,
  SP!Close, SP!OnRecv, SP!Receives, SP!Keep, SP!Refuse, SP!Reply, SP!Full,
  SP!Open, SP!At, SP!Take, SP!Limited, SP!Admitted, SP!MethodReturns,
  SP!MethodFails, SP!MethodPanics, SP!MethodPanicsWithValue, SP!Leave, SP!Exit,
  SP!Release, SP!vars, SP!allVars, SP!lifeVars, SP!connVars, SP!workVars,
  SP!globalVars

LEMMA ServerKeeps == SP!SInv /\ Server!LifeNext => SP!SInv' /\ SP!HandStep
<1>1. SP!SInv /\ [SP!Next]_SP!vars => SP!SInv'
  BY ServerConstants, SP!ServerStep
<1>2. SP!SInv /\ SP!Ends => SP!SInv'
  BY ServerConstants, SP!ServerEnds
<1>3. [SP!LifeNext]_SP!allVars => [SP!Next]_SP!vars \/ SP!Ends
  BY ServerConstants, SP!LifeStep
<1>4. SP!SInv /\ [SP!LifeNext]_SP!allVars => SP!HandStep
  BY ServerConstants, SP!LifeHands
<1> QED
  BY <1>1, <1>2, <1>3, <1>4, SameNext

LEMMA ServerStands == SP!SInv /\ UNCHANGED serverVars => SP!SInv'
<1>1. UNCHANGED serverVars => UNCHANGED SP!vars
  BY DEF serverVars, SP!vars, SP!connVars, SP!workVars, SP!globalVars
<1>2. SP!SInv /\ [SP!Next]_SP!vars => SP!SInv'
  BY ServerConstants, SP!ServerStep
<1> QED
  BY <1>1, <1>2

LEMMA ServerStarts == Server!LifeInit => SP!SInv
<1>1. SP!LifeInit => SP!SInv
  BY ServerConstants, SP!ServerInit
<1> QED
  BY <1>1, SameInit

-----------------------------------------------------------------------------
(* The inductive invariant.                                                 *)

(* What the server has received was sent, over the connection of the call.  *)
SentInv ==
  \A r \in Requests \ unsent : pc[r[1]] \notin Unsent /\ conn[r[1]] = r[2]

(* What the server still has in hand it has not answered.                   *)
HandInv ==
  \A r \in Requests \ unsent : SP!InHand(r) => PacketFor(r) \in wire

(* The two accounts of the answers agree.                                   *)
AnswerOf(r) == IF served[r[1]] # Nil /\ conn[r[1]] = r[2]
                 THEN <<served[r[1]]>> ELSE <<>>

AccountInv ==
  /\ \A r \in Requests : answers[r] = AnswerOf(r)
  /\ \A c \in Calls : served[c] # Nil => conn[c] \in Conns

SysInv == /\ TInv /\ OwnInv /\ SP!SInv
          /\ SentInv /\ WireOwn /\ HandInv /\ AccountInv

-----------------------------------------------------------------------------
(* Steps of clients.                                                        *)

LEMMA ClientSends == TInv /\ ClientStep => Sends
BY CallSends, OthersSend DEF ClientStep

LEMMA ClientKeeps ==
  ASSUME SysInv, Sends, UNCHANGED serverVars
  PROVE  SentInv' /\ HandInv' /\ AccountInv'
<1> USE DEF SysInv, Sends, Requests
<1>1. UNCHANGED <<unsent, held, reqCh, worker, job, answers>>
  BY DEF serverVars
<1>2. SentInv'
  BY <1>1 DEF SentInv
<1>4. HandInv'
  <2> SUFFICES ASSUME NEW r \in Requests \ unsent, SP!InHand(r)
               PROVE  PacketFor(r)' \in wire'
    BY <1>1 DEF HandInv, SP!InHand, SP!Queued
  <2>1. PacketFor(r) \in wire
    BY DEF HandInv
  <2>2. sid'[r[1]] = sid[r[1]]
    BY DEF SentInv
  <2> QED
    BY <2>1, <2>2 DEF PacketFor
<1>5. AccountInv'
  <2>1. ASSUME NEW c \in Calls, served[c] # Nil
        PROVE  conn'[c] = conn[c]
    BY <2>1 DEF OwnInv, OwnRequests
  <2>2. ASSUME NEW r \in Requests
        PROVE  answers'[r] = AnswerOf(r)'
    BY <1>1, <2>1 DEF AccountInv, AnswerOf
  <2> QED
    BY <2>1, <2>2 DEF AccountInv
<1> QED
  BY <1>2, <1>4, <1>5

-----------------------------------------------------------------------------
(* Steps of the server.                                                     *)

(* The server replies to a request, and the client gets to see it.          *)
Writes(r, code) ==
  /\ SP!Settles(r)
  /\ PacketFor(r) \in wire
  /\ answers' = [answers EXCEPT ![r] = <<code>>]
  /\ Answer(PacketFor(r), code)

(* Every reply of the server is the first to a request on its way.          *)
LEMMA WrittenAnswers ==
  ASSUME SysInv, SystemServerStep, answers' # answers
  PROVE  \E r \in Requests : \E code \in {0, 405, 500, 505} : Writes(r, code)
<1>1. SP!HandStep
  BY ServerKeeps DEF SysInv, SystemServerStep
<1>2. PICK r \in Requests : SP!Settles(r) /\ \E code \in SP!Codes : SP!Reply(r, code)
  BY <1>1 DEF SP!HandStep, SP!Carries, SP!Settles
<1>3. PICK code \in {0, 405, 500, 505} : SP!Reply(r, code)
  BY <1>2 DEF SP!Codes
<1>4. /\ answers \in [Requests -> Seq(SP!Codes)]
      /\ answers[r] = <<>>
  BY <1>2 DEF SysInv, SP!SInv, SP!TypeOK, SP!Answered, SP!AnsweredOnce, SP!Settles, Requests
<1>5. answers' = [answers EXCEPT ![r] = <<code>>]
  BY <1>3, <1>4 DEF SP!Reply
<1>6. \A x \in Requests : answers'[x] # answers[x] => x = r
  BY <1>4, <1>5
<1>7. answers'[r] = <<code>> /\ answers'[r][Len(answers'[r])] = code
  BY <1>4, <1>5
<1>8. Answer(PacketFor(r), code)
  <2>1. PICK x \in Requests : /\ answers'[x] # answers[x]
                              /\ Answer(PacketFor(x), answers'[x][Len(answers'[x])])
    BY DEF SystemServerStep, Transmitted
  <2>2. x = r
    BY <1>6, <2>1
  <2> QED
    BY <1>7, <2>1, <2>2
<1>9. PacketFor(r) \in wire
  <2>1. CASE r \in unsent
    <3>1. r \notin unsent'
      BY <1>2 DEF SP!Settles, SP!InHand
    <3> QED
      BY <2>1, <3>1 DEF SystemServerStep, Received
  <2>2. CASE r \notin unsent
    BY <1>2, <2>2 DEF SysInv, HandInv, SP!Settles
  <2> QED
    BY <2>1, <2>2
<1>10. Writes(r, code)
  BY <1>2, <1>5, <1>8, <1>9 DEF Writes
<1> QED
  BY <1>10

(* To its clients the server of the system is one that answers a request on *)
(* its way, or does nothing.                                                *)
LEMMA SystemStepSeen ==
  ASSUME SysInv, [SystemNext]_systemVars
  PROVE  [Next]_vars
<1>1. CASE ClientStep
  BY <1>1 DEF ClientStep, Next
<1>2. CASE SystemServerStep /\ answers' = answers
  BY <1>2 DEF SystemServerStep, Transmitted
<1>3. CASE SystemServerStep /\ answers' # answers
  <2>1. {0, 405, 500, 505} \subseteq Codes
    BY SystemOK DEF SystemOK, Codes
  <2> QED
    BY <1>3, <2>1, WrittenAnswers DEF Writes, ServerStep, Next
<1>4. CASE UNCHANGED systemVars
  BY <1>4 DEF systemVars
<1> QED
  BY <1>1, <1>2, <1>3, <1>4 DEF SystemNext

LEMMA ServerLinks ==
  ASSUME SysInv, SystemServerStep
  PROVE  SentInv' /\ HandInv' /\ AccountInv'
<1>1. /\ unsent' \subseteq unsent
      /\ UNCHANGED <<pc, sid, conn>>
      /\ wire' \subseteq wire
  <2>1. unsent' \subseteq unsent
    BY ServerKeeps DEF SysInv, SystemServerStep, SP!HandStep, SP!Carries, SP!Settles, SP!Lasting
  <2>2. CASE answers' = answers
    BY <2>1, <2>2 DEF SystemServerStep, Transmitted, vars, callVars, netVars
  <2>3. CASE answers' # answers
    BY <2>1, <2>3, WrittenAnswers DEF Writes, Answer, callVars
  <2> QED
    BY <2>2, <2>3
<1>2. \A r \in unsent \ unsent' : /\ pc[r[1]] \notin Unsent
                                  /\ conn[r[1]] = r[2]
                                  /\ PacketFor(r) \in wire
  <2> SUFFICES ASSUME NEW r \in unsent \ unsent'
               PROVE  pc[r[1]] \notin Unsent /\ conn[r[1]] = r[2] /\ PacketFor(r) \in wire
    OBVIOUS
  <2>1. PacketFor(r) \in wire
    BY DEF SystemServerStep, Received
  <2>2. PacketFor(r).call = r[1] /\ PacketFor(r).conn = r[2]
    BY DEF PacketFor
  <2>3. PacketFor(r).conn = conn[r[1]]
    BY <2>1, <2>2 DEF SysInv, WireOwn, RequestOf, PacketFor
  <2>4. pc[r[1]] \notin Unsent
    BY <2>1, <2>2 DEF SysInv, OwnInv, OwnRequests
  <2> QED
    BY <2>1, <2>2, <2>3, <2>4
<1>3. SentInv'
  BY <1>1, <1>2 DEF SysInv, SentInv
<1>5. \A r \in Requests : PacketFor(r)' = PacketFor(r)
  BY <1>1 DEF PacketFor
<1>6. CASE answers' = answers
  <2>1. UNCHANGED <<wire, served>>
    BY <1>6 DEF SystemServerStep, Transmitted, vars, netVars
  <2>2. \A r \in Requests : SP!InHand(r)' => SP!InHand(r)
    BY ServerKeeps DEF SysInv, SystemServerStep, SP!HandStep, SP!Carries, SP!Settles
  <2>3. HandInv'
    BY <1>2, <1>5, <2>1, <2>2 DEF SysInv, HandInv
  <2>4. AccountInv'
    BY <1>1, <1>6, <2>1 DEF SysInv, AccountInv, AnswerOf
  <2> QED
    BY <1>3, <2>3, <2>4
<1>7. CASE answers' # answers
  <2>1. PICK r \in Requests, code \in {0, 405, 500, 505} : Writes(r, code)
    BY <1>7, WrittenAnswers
  <2>2. /\ wire' = wire \ {PacketFor(r)}
        /\ served' = [served EXCEPT ![r[1]] = code]
    BY <2>1 DEF Writes, Answer, PacketFor
  <2>3. HandInv'
    <3> SUFFICES ASSUME NEW x \in Requests \ unsent', SP!InHand(x)'
                 PROVE  PacketFor(x) \in wire'
      BY <1>5 DEF HandInv
    <3>1. x # r /\ SP!InHand(x)
      BY <2>1 DEF Writes, SP!Settles
    <3>2. PacketFor(x) \in wire
      BY <1>2, <3>1 DEF SysInv, HandInv
    <3>3. PacketFor(x) # PacketFor(r)
      BY <3>1 DEF PacketFor, Requests
    <3> QED
      BY <2>2, <3>2, <3>3
  <2>4. AccountInv'
    <3>1. code # Nil
      BY SystemOK, ConstantsOK DEF SystemOK, ConstantsOK, Codes
    <3>2. PacketFor(r) \in wire /\ PacketFor(r).call = r[1] /\ PacketFor(r).conn = r[2]
      BY <2>1 DEF Writes, PacketFor
    <3>3. /\ r[1] \in Calls /\ r[2] \in Conns
          /\ conn[r[1]] = r[2] /\ served[r[1]] = Nil
      BY <3>2 DEF SysInv, OwnInv, OwnRequests, WireOwn, RequestOf, PacketFor, Requests
    <3>4. \A c \in Calls : served'[c] = IF c = r[1] THEN code ELSE served[c]
      BY <2>2 DEF SysInv, TInv, TypeOK
    <3>5. \A x \in Requests : answers'[x] = IF x = r THEN <<code>> ELSE answers[x]
      BY <2>1 DEF Writes, SysInv, SP!SInv, SP!TypeOK, Requests
    <3>6. \A c \in Calls : served'[c] # Nil => conn'[c] \in Conns
      BY <1>1, <3>3, <3>4 DEF SysInv, AccountInv
    <3>7. ASSUME NEW x \in Requests
          PROVE  answers'[x] = AnswerOf(x)'
      <4>1. x[1] \in Calls /\ (x # r /\ x[1] = r[1] => x[2] # r[2])
        BY DEF Requests
      <4>2. CASE x = r
        BY <1>1, <3>1, <3>3, <3>4, <3>5, <4>2 DEF AnswerOf
      <4>3. CASE x # r /\ x[1] = r[1]
        <5>1. answers[x] = <<>>
          BY <3>3, <4>3 DEF SysInv, AccountInv, AnswerOf
        <5>2. AnswerOf(x)' = <<>>
          BY <1>1, <3>3, <4>1, <4>3 DEF AnswerOf
        <5> QED
          BY <3>5, <4>3, <5>1, <5>2
      <4>4. CASE x[1] # r[1]
        BY <1>1, <3>4, <3>5, <4>1, <4>4 DEF SysInv, AccountInv, AnswerOf
      <4> QED
        BY <4>2, <4>3, <4>4
    <3> QED
      BY <3>6, <3>7 DEF AccountInv
  <2> QED
    BY <1>3, <2>3, <2>4
<1> QED
  BY <1>6, <1>7

-----------------------------------------------------------------------------
(* The invariant holds, and with it what the two of them promise.           *)

LEMMA SystemBegins == SystemInit => SysInv
<1> SUFFICES ASSUME SystemInit
             PROVE  SysInv
  OBVIOUS
<1>1. TInv /\ OwnInv /\ SP!SInv
  BY TInvInit, OwnInit, ServerStarts DEF SystemInit
<1>2. unsent = Requests /\ answers = [r \in Requests |-> <<>>]
  BY SameInit DEF SystemInit, SP!LifeInit, SP!Init
<1>3. wire = {} /\ served = [c \in Calls |-> Nil]
  BY DEF SystemInit, Init
<1>4. SentInv /\ WireOwn /\ HandInv
  BY <1>2, <1>3 DEF SentInv, WireOwn, HandInv
<1>5. AccountInv
  BY <1>2, <1>3 DEF AccountInv, AnswerOf, Requests
<1> QED
  BY <1>1, <1>4, <1>5 DEF SysInv

LEMMA SystemKeeps == SysInv /\ [SystemNext]_systemVars => SysInv'
<1> SUFFICES ASSUME SysInv, [SystemNext]_systemVars
             PROVE  SysInv'
  OBVIOUS
<1>1. TInv' /\ OwnInv' /\ WireOwn'
  BY SystemStepSeen, TInvNext, OwnNext, WireOwnStep DEF SysInv
<1>2. CASE ClientStep
  <2>1. SP!SInv'
    BY <1>2, ServerStands DEF ClientStep, SysInv
  <2>2. SentInv' /\ HandInv' /\ AccountInv'
    BY <1>2, ClientSends, ClientKeeps DEF ClientStep, SysInv
  <2> QED
    BY <1>1, <2>1, <2>2 DEF SysInv
<1>3. CASE SystemServerStep
  <2>1. SP!SInv'
    BY <1>3, ServerKeeps DEF SystemServerStep, SysInv
  <2> QED
    BY <1>1, <1>3, <2>1, ServerLinks DEF SysInv
<1>4. CASE UNCHANGED systemVars
  <2>1. UNCHANGED vars /\ UNCHANGED serverVars
    BY <1>4 DEF systemVars
  <2>2. SP!SInv'
    BY <2>1, ServerStands DEF SysInv
  <2>3. Sends
    BY <2>1 DEF Sends, vars, callVars, netVars
  <2> QED
    BY <1>1, <2>1, <2>2, <2>3, ClientKeeps DEF SysInv
<1> QED
  BY <1>2, <1>3, <1>4 DEF SystemNext

LEMMA SystemInvariant == SystemSpec => []SysInv
BY SystemBegins, SystemKeeps, PTL DEF SystemSpec

(* The server of server.go implements the server RpcCall assumes: it        *)
(* answers a request once, after it was sent and before it is forgotten, on *)
(* its own connection, so to the client code each of its steps is an answer *)
(* to a request on its way or nothing at all.                               *)
THEOREM SystemImplementsClient == SystemSpec => SeenByClients
<1>1. SystemInit => Init
  BY DEF SystemInit
<1> QED
  BY <1>1, SystemInvariant, SystemStepSeen, PTL DEF SystemSpec, SeenByClients, Spec

(* To the server its clients are the ones RpcServer assumes.                *)
THEOREM SystemImplementsServer == SystemSpec => Server!LifeSpec
<1>1. SystemInit => Server!LifeInit
  BY DEF SystemInit
<1>2. [SystemNext]_systemVars => [Server!LifeNext]_Server!allVars
  <2>1. UNCHANGED serverVars => UNCHANGED Server!allVars
    BY DEF serverVars, Server!allVars, Server!vars, Server!connVars, Server!workVars,
           Server!globalVars, Server!lifeVars
  <2> QED
    BY <2>1 DEF SystemNext, ClientStep, SystemServerStep, systemVars
<1> QED
  BY <1>1, <1>2, PTL DEF SystemSpec, Server!LifeSpec

(* A client that is not destroyed gets what RpcContract promises from a     *)
(* server as it is in server.go.                                            *)
THEOREM SystemKeepsContract == SystemSpec /\ []Undestroyed => ContractHolds
BY SystemImplementsClient, KeepsContract, PTL DEF SeenByClients

-----------------------------------------------------------------------------
(* From end to end.                                                         *)

SystemCodes == UntilDestroy(CodesOfServer)

LEMMA SystemCodesHold == SystemSpec => []SystemCodes
<1>1. IInv /\ SystemCodes /\ [Next]_vars => SystemCodes'
  <2> SUFFICES ASSUME IInv, SystemCodes, [Next]_vars, dpc' = "idle"
               PROVE  CodesOfServer'
    BY DEF SystemCodes, UntilDestroy
  <2>1. dpc = "idle"
    BY IdleBefore
  <2> QED
    BY <2>1, CodesStep DEF IInv, SystemCodes, UntilDestroy, Step
<1>2. Init => SystemCodes
  BY DEF Init, SystemCodes, UntilDestroy, CodesOfServer
<1> QED
  BY <1>1, <1>2, InvariantHolds, SystemImplementsClient, PTL DEF SeenByClients, Spec

(* What a call returns until Destroy is what the server did: success means  *)
(* that its method returned, 405 and 505 that the limiter or the method     *)
(* refused it, once, over the connection pool.response chose.               *)
THEOREM EndToEndHolds == SystemSpec => []EndToEnd
<1>1. SysInv /\ IInv /\ SystemCodes => EndToEnd
  <2> SUFFICES ASSUME SysInv, Inv, CodesOfServer,
                      NEW c \in Calls \ OnlyCalls, ret[c] # Nil
               PROVE  /\ ~ ret[c].err => answers[<<c, conn[c]>>] = <<0>>
                      /\ ret[c].rpcCode \in {405, 505} =>
                           answers[<<c, conn[c]>>] = <<ret[c].rpcCode>>
                      /\ \A k \in Conns \ {conn[c]} : <<c, k>> \in unsent
    BY DEF IInv, SystemCodes, UntilDestroy, EndToEnd
  <2>1. ASSUME served[c] # Nil
        PROVE  answers[<<c, conn[c]>>] = <<served[c]>>
    <3> DEFINE r == <<c, conn[c]>>
    <3>1. r \in Requests
      BY <2>1 DEF SysInv, AccountInv, Requests
    <3>2. r[1] = c /\ r[2] = conn[c]
      OBVIOUS
    <3> HIDE DEF r
    <3>3. answers[r] = <<served[c]>>
      BY <2>1, <3>1, <3>2 DEF SysInv, AccountInv, AnswerOf
    <3> QED
      BY <3>3 DEF r
  <2>2. 0 # Nil /\ 405 # Nil /\ 505 # Nil
    BY SystemOK, ConstantsOK DEF SystemOK, ConstantsOK, Codes
  <2>3. ~ ret[c].err => served[c] = 0
    BY DEF Inv, AnswerToOwnRequest
  <2>4. ret[c].rpcCode \in {405, 505} => served[c] = ret[c].rpcCode
    BY DEF CodesOfServer
  <2>5. \A k \in Conns \ {conn[c]} : <<c, k>> \in unsent
    BY DEF SysInv, SentInv, Requests
  <2> QED
    BY <2>1, <2>2, <2>3, <2>4, <2>5
<1> QED
  BY <1>1, SystemInvariant, SystemCodesHold, SystemImplementsClient, InvariantHolds, PTL
     DEF SeenByClients

(* No caller waits for nothing: until Destroy, and while the connection     *)
(* stands at both ends, the server has the request of a waiting call still  *)
(* to handle, or its answer is on its way, or there is none because the     *)
(* method is unknown or has panicked.                                       *)
THEOREM NobodyWaitsInVain == SystemSpec => []WorthWaiting
<1>1. SysInv /\ RepliesKept => WorthWaiting
  <2> SUFFICES ASSUME SysInv, ReplyKept,
                      NEW c \in Calls \ OnlyCalls, pc[c] \in {"written", "select"},
                      open[conn[c]]
               PROVE  \/ Server!InHand(<<c, conn[c]>>)
                      \/ ReplyOnItsWay(c)
                      \/ c \in UnknownCalls
                      \/ <<c, conn[c]>> \in panicked
                      \/ reader[conn[c]] = "closed"
    BY DEF RepliesKept, UntilDestroy, WorthWaiting
  <2> DEFINE r == <<c, conn[c]>>
  <2>1. r \in Requests /\ conn[c] \in Conns
    BY DEF SysInv, TInv, Requests
  <2>2. CASE served[c] # Nil
    <3>1. OnItsWay(c)
      BY <2>2 DEF ReplyKept, Waiting
    <3> QED
      BY <3>1 DEF OnItsWay, ReplyOnItsWay, Dispatching
  <2>3. CASE served[c] = Nil
    <3>1. answers[r] = <<>>
      BY <2>1, <2>3 DEF SysInv, AccountInv, AnswerOf
    <3>2. \/ SP!InHand(r)
          \/ r \in (OnlyCalls \X Conns) \cup {} \cup (UnknownCalls \X Conns) \cup panicked
          \/ reader[[x \in Requests |-> x[2]][r]] = "closed"
      BY <2>1, <3>1 DEF SysInv, SP!SInv, SP!Answered, SP!EveryCallAnswered, Requests
    <3>3. [x \in Requests |-> x[2]][r] = conn[c]
      BY <2>1
    <3>4. SP!InHand(r) => Server!InHand(r)
      BY DEF SP!InHand, Server!InHand, SP!Queued, Server!Queued
    <3> QED
      BY <3>2, <3>3, <3>4
  <2> QED
    BY <2>2, <2>3
<1> QED
  BY <1>1, SystemInvariant, SystemImplementsClient, NoReplyLost, PTL DEF SeenByClients
=============================================================================
