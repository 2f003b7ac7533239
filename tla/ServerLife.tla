----------------------------- MODULE ServerLife -----------------------------
(***************************************************************************)
(* The life of a server around what RpcServer does: Run and Release of     *)
(* server/server.go, openSocket, StartAsync and Close of                   *)
(* transport/listener.go, Register and Destroy of registry/registry.go.    *)
(*                                                                         *)
(* Run binds the socket, enters the server into the registry, starts the   *)
(* accept loop and then the workers.  Release takes the server out of the  *)
(* registry, closes the shutdown channel of the listener and cancels the   *)
(* context, which is RpcServer's Release.  Steps of RpcServer happen once  *)
(* the goroutine that takes them is there.                                 *)
(***************************************************************************)
EXTENDS RpcServer

VARIABLES
  life,       \* where the goroutine that calls Run and then Release is
  registered  \* whether the registry offers the server: "no", "yes", "gone";
              \* with "no" registry.addr is ""
lifeVars == <<life, registered>>
allVars  == <<vars, lifeVars>>

LifeInit == Init /\ life = "new" /\ registered = "no"

Goes(from, to) == ~ crashed /\ life = from /\ life' = to

-----------------------------------------------------------------------------
(* Run. *)

(* net.ListenTCP; if it fails Run logs that and returns.                    *)
Bind ==
  /\ Goes("new", "bound") \/ Goes("new", "failed")
  /\ UNCHANGED <<vars, registered>>

(* The event Listen: GetEthIp and Register.  openSocket does not look at    *)
(* the error; a registration that fails ends the process.                   *)
Listen ==
  /\ Goes("bound", "listening")
  /\ \/ registered' = "yes" /\ UNCHANGED vars
     \/ UNCHANGED <<vars, registered>>
     \/ /\ crashed' = TRUE
        /\ UNCHANGED <<connVars, reqCh, workVars, answers, released, registered>>

StartAsync ==
  /\ Goes("listening", "accepting")
  /\ UNCHANGED <<vars, registered>>

StartWorkers ==
  /\ Goes("accepting", "running")
  /\ UNCHANGED <<vars, registered>>

-----------------------------------------------------------------------------
(* Release. *)

(* registry.Destroy: without an address, because Run failed or GetEthIp     *)
(* did, deregister indexes past the parts of an empty one and panics.  If   *)
(* the registry refuses, nobody looks, and it goes on to offer the server.  *)
Destroy ==
  /\ \/ /\ registered # "no"
        /\ Goes("running", "deregistered")
        /\ registered' \in {registered, "gone"}
        /\ UNCHANGED vars
     \/ /\ registered = "no"
        /\ Goes("running", "crashed") \/ Goes("failed", "crashed")
        /\ crashed' = TRUE
        /\ UNCHANGED <<connVars, reqCh, workVars, answers, released, registered>>

(* sock.Close: the shutdown channel only; the socket stays open and the     *)
(* accept loop goes on.                                                     *)
CloseSocket ==
  /\ Goes("deregistered", "closed")
  /\ UNCHANGED <<vars, registered>>

Cancel ==
  /\ Goes("closed", "released")
  /\ Release
  /\ UNCHANGED registered

(* A second Release closes a closed channel.                                *)
ReleaseAgain ==
  /\ Goes("released", "crashed")
  /\ crashed' = TRUE
  /\ UNCHANGED <<connVars, reqCh, workVars, answers, released, registered>>

-----------------------------------------------------------------------------

Accepting == life \in {"accepting", "running", "deregistered", "closed", "released"}
Working   == Accepting /\ life # "accepting"

ReaderStep(k) == \/ Accept(k) \/ Push(k) \/ Close(k)
                 \/ \E r \in Requests : OnRecv(k, r)

MainStep == Bind \/ Listen \/ StartAsync \/ StartWorkers \/ CloseSocket \/ Cancel

LifeNext ==
  \/ MainStep \/ Destroy \/ ReleaseAgain
  \/ Accepting /\ (\E k \in Conns : ReaderStep(k))     /\ UNCHANGED lifeVars
  \/ Working   /\ (\E w \in Workers : WorkerStep(w))   /\ UNCHANGED lifeVars

LifeSpec == LifeInit /\ [][LifeNext]_allVars

(* As in RpcServer; the goroutine in Run and in Release is scheduled, and   *)
(* nobody has to call Release.                                              *)
LifeFairSpec ==
  /\ LifeSpec
  /\ WF_allVars(MainStep)
  /\ \A k \in Conns : WF_allVars(Push(k) /\ UNCHANGED lifeVars)
  /\ \A w \in Workers : WF_allVars(Working /\ WorkerStep(w) /\ UNCHANGED lifeVars)

-----------------------------------------------------------------------------
(* Properties. *)

(* The context reaches every worker: after Release all of them leave, also  *)
(* those that are in a method then, and although connections stay open,     *)
(* others are accepted, and readers go on to push requests (goRecv).        *)
WorkersLeave ==
  life = "released" ~> crashed \/ \A w \in Workers : worker[w] = "exit"
=============================================================================
