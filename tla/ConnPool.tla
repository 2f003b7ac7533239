------------------------------ MODULE ConnPool ------------------------------
(***************************************************************************)
(* The connection pool of a client for one service: response, connect and  *)
(* removeByClient of client/pools.go, and what Client.Call does with them. *)
(*                                                                         *)
(* A call takes the lock rw, dials until the pool is full or its attempts  *)
(* are used up, chooses a connection at random and releases the lock.  A   *)
(* connection is removed by its reader, when the reader ends, and by calls *)
(* that could not write to it.  To remove one, its list is copied without  *)
(* it under rw.RLock, and the copy is stored under rw.Lock: between the    *)
(* two the pool may have changed, and the copy is stale.                   *)
(*                                                                         *)
(* destroy holds rw.RLock until it returns, and waits for wrw meanwhile,   *)
(* the lock of the calls in flight (RpcCall): that may take for ever.      *)
(***************************************************************************)
EXTENDS Integers, FiniteSets

CONSTANTS Calls,  \* calls to the service
          Conns,  \* the connections that may be dialed for it
          Size,   \* RPC_POOL_SIZE
          Nil

ASSUME ConstantsOK ==
  /\ IsFiniteSet(Conns)
  /\ Calls \cap Conns = {}
  /\ Size \in Nat \ {0}
  /\ Nil \notin Calls \cup Conns

Threads == Calls \cup Conns  \* a connection stands for its reader too

VARIABLES
  conn,       \* what has become of each connection
  pc,         \* where each call and each reader is
  got,        \* the connection a call has chosen
  rpcconn,    \* pool.rpcconn of the service; order does not matter
  rw,         \* the call that holds rw in response, or Nil
  round,      \* which call of genCon that call is at
  todo,       \* the attempts it has left there
  fresh,      \* the connections it has dialed there
  list,       \* the list each remover has copied
  stale,      \* what stale copies have taken from the pool or put back
  destroying  \* whether destroy has taken rw.RLock, holds it, or is "done"

dialVars == <<rw, round, todo, fresh>>
vars == <<conn, pc, got, rpcconn, dialVars, list, stale, destroying>>

Init ==
  /\ conn      = [k \in Conns |-> "unused"]
  /\ pc        = [t \in Threads |-> IF t \in Calls THEN "call" ELSE "none"]
  /\ got       = [c \in Calls |-> Nil]
  /\ rpcconn   = {}
  /\ rw        = Nil
  /\ round     = 0
  /\ todo      = 0
  /\ fresh     = {}
  /\ list      = [t \in Threads |-> {}]
  /\ stale     = {}
  /\ destroying = "no"

At(t, from, to) == /\ pc[t] = from
                   /\ pc' = [pc EXCEPT ![t] = to]

(* rw.Lock and rw.RLock.                                                    *)
CanRLock == rw = Nil
CanLock  == rw = Nil /\ destroying # "holds"

-----------------------------------------------------------------------------
(* response. *)

Missing == Size - Cardinality(rpcconn)

(* Mutation of Lock: the attempts do not depend on what is there.           *)
LockForAll(c) ==
  /\ CanLock
  /\ At(c, "call", "dial")
  /\ rw' = c
  /\ round' = IF rpcconn = {} THEN 1 ELSE 2
  /\ todo' = Size
  /\ fresh' = {}
  /\ UNCHANGED <<conn, got, rpcconn, list, stale, destroying>>

(* An empty pool gets two rounds, any other one for what is missing.        *)
Lock(c) ==
  /\ CanLock
  /\ At(c, "call", "dial")
  /\ rw' = c
  /\ round' = IF rpcconn = {} THEN 1 ELSE 2
  /\ todo' = Missing
  /\ fresh' = {}
  /\ UNCHANGED <<conn, got, rpcconn, list, stale, destroying>>

(* connect: a node is found, dialed, and a reader started.                  *)
Dial(c, k) ==
  /\ pc[c] = "dial"
  /\ todo > 0
  /\ conn[k] = "unused"
  /\ conn' = [conn EXCEPT ![k] = "live"]
  /\ pc' = [pc EXCEPT ![k] = "read"]
  /\ fresh' = fresh \cup {k}
  /\ todo' = todo - 1
  /\ UNCHANGED <<got, rpcconn, rw, round, list, stale, destroying>>

DialFails(c) ==
  /\ pc[c] = "dial"
  /\ todo > 0
  /\ todo' = todo - 1
  /\ UNCHANGED <<conn, pc, got, rpcconn, rw, round, fresh, list, stale, destroying>>

SecondRound(c) ==
  /\ pc[c] = "dial"
  /\ todo = 0
  /\ round = 1
  /\ round' = 2
  /\ rpcconn' = fresh
  /\ todo' = Size - Cardinality(fresh)
  /\ fresh' = {}
  /\ UNCHANGED <<conn, pc, got, rw, list, stale, destroying>>

Dialed(c) ==
  /\ pc[c] = "dial"
  /\ todo = 0
  /\ round = 2
  /\ fresh' = {}
  /\ UNCHANGED <<conn, round, todo, list, stale, destroying>>

(* Mutation of Choose: the new connections replace the list.                *)
ChooseReplacing(c, k) ==
  /\ Dialed(c)
  /\ k \in rpcconn \cup fresh
  /\ rpcconn' = IF fresh = {} THEN rpcconn ELSE fresh
  /\ got' = [got EXCEPT ![c] = k]
  /\ pc' = [pc EXCEPT ![c] = "write"]
  /\ rw' = Nil

Choose(c, k) ==
  /\ Dialed(c)
  /\ k \in rpcconn \cup fresh
  /\ rpcconn' = rpcconn \cup fresh
  /\ got' = [got EXCEPT ![c] = k]
  /\ pc' = [pc EXCEPT ![c] = "write"]
  /\ rw' = Nil

(* Mutation of NoNode: the unlock is not deferred, and this path has none.  *)
NoNodeLocked(c) ==
  /\ Dialed(c)
  /\ rpcconn \cup fresh = {}
  /\ pc' = [pc EXCEPT ![c] = "done"]
  /\ UNCHANGED <<got, rpcconn, rw>>

(* "didn't more node!"                                                      *)
NoNode(c) ==
  /\ Dialed(c)
  /\ rpcconn \cup fresh = {}
  /\ pc' = [pc EXCEPT ![c] = "done"]
  /\ rw' = Nil
  /\ UNCHANGED <<got, rpcconn>>

-----------------------------------------------------------------------------
(* Connections fail, readers notice, calls write. *)

(* The peer is gone and nobody here knows yet.                              *)
Lose(k) ==
  /\ conn[k] = "live"
  /\ conn' = [conn EXCEPT ![k] = "lost"]
  /\ UNCHANGED <<pc, got, rpcconn, dialVars, list, stale, destroying>>

(* Mutation of ReaderEnds: no callback for the end of a connection.         *)
ReaderEndsSilently(k) ==
  /\ At(k, "read", "done")
  /\ conn' = [conn EXCEPT ![k] = "closed"]
  /\ UNCHANGED <<got, rpcconn, dialVars, list, stale, destroying>>

(* A read fails or a frame is not understood: the reader closes the         *)
(* connection and calls back.                                               *)
ReaderEnds(k) ==
  /\ At(k, "read", "remove")
  /\ conn' = [conn EXCEPT ![k] = "closed"]
  /\ UNCHANGED <<got, rpcconn, dialVars, list, stale, destroying>>

(* The write succeeds, perhaps into the void, or fails with an error that   *)
(* does not make Call remove the connection.                                *)
WriteEnds(c) ==
  /\ At(c, "write", "done")
  /\ conn[got[c]] # "closed"
  /\ UNCHANGED <<conn, got, rpcconn, dialVars, list, stale, destroying>>

(* The error says "closed" or "broken pipe".                                *)
WriteFails(c) ==
  /\ At(c, "write", "remove")
  /\ conn[got[c]] # "live"
  /\ UNCHANGED <<conn, got, rpcconn, dialVars, list, stale, destroying>>

(* The application calls Destroy, and every socket is closed.               *)
DestroySockets ==
  /\ destroying = "no"
  /\ CanRLock
  /\ destroying' = "holds"
  /\ conn' = [k \in Conns |-> IF k \in rpcconn THEN "closed" ELSE conn[k]]
  /\ UNCHANGED <<pc, got, rpcconn, dialVars, list, stale>>

(* wrw.RLock has been granted, the channels are closed, or closing one has  *)
(* panicked; then both locks are released.                                  *)
DestroyEnds ==
  /\ destroying = "holds"
  /\ destroying' = "done"
  /\ UNCHANGED <<conn, pc, got, rpcconn, dialVars, list, stale>>

-----------------------------------------------------------------------------
(* removeByClient. *)

Target(t) == IF t \in Calls THEN got[t] ELSE t

(* Under rw.RLock.                                                          *)
Copy(t) ==
  /\ CanRLock
  /\ \/ /\ Target(t) \in rpcconn
        /\ At(t, "remove", "store")
        /\ list' = [list EXCEPT ![t] = rpcconn \ {Target(t)}]
     \/ /\ Target(t) \notin rpcconn
        /\ At(t, "remove", "done")
        /\ UNCHANGED list
  /\ UNCHANGED <<conn, got, rpcconn, dialVars, stale, destroying>>

(* What the removal of k should have left.                                  *)
Differ(s, k) == (s \ (rpcconn \ {k})) \cup ((rpcconn \ {k}) \ s)

(* Under rw.Lock.                                                           *)
Store(t) ==
  /\ CanLock
  /\ At(t, "store", "done")
  /\ rpcconn' = list[t]
  /\ list' = [list EXCEPT ![t] = {}]
  /\ stale' = stale \cup Differ(list[t], Target(t))
  /\ UNCHANGED <<conn, got, dialVars, destroying>>

-----------------------------------------------------------------------------

Response(c) == \/ Lock(c) \/ DialFails(c) \/ SecondRound(c) \/ NoNode(c)
               \/ \E k \in Conns : Dial(c, k) \/ Choose(c, k)

Remove(t) == Copy(t) \/ Store(t)

Next == \/ \E c \in Calls : Response(c) \/ WriteEnds(c) \/ WriteFails(c)
        \/ \E k \in Conns : Lose(k) \/ ReaderEnds(k)
        \/ \E t \in Threads : Remove(t)
        \/ DestroySockets \/ DestroyEnds

Spec == Init /\ [][Next]_vars

(* Dials end, goroutines are scheduled, nobody is kept from a lock for ever *)
(* but by destroy: nothing says that it gets wrw, and while it holds rw a   *)
(* call that waits for rw.Lock keeps out those that want rw.RLock.          *)
FairSpec ==
  /\ Spec
  /\ \A c \in Calls : WF_vars(Response(c))
  /\ \A t \in Threads : WF_vars(destroying # "holds" /\ Remove(t))

-----------------------------------------------------------------------------
(* Properties. *)

(* Types; the lock is held by the call that dials, and not with destroy.    *)
TypeOK ==
  /\ conn \in [Conns -> {"unused", "live", "lost", "closed"}]
  /\ pc \in [Threads -> {"call", "dial", "write", "none", "read", "remove",
                         "store", "done"}]
  /\ got \in [Calls -> Conns \cup {Nil}]
  /\ rpcconn \subseteq Conns
  /\ rw \in Calls \cup {Nil}
  /\ round \in 0 .. 2
  /\ todo \in 0 .. Size
  /\ fresh \subseteq Conns
  /\ list \in [Threads -> SUBSET Conns]
  /\ stale \subseteq Conns
  /\ destroying \in {"no", "holds", "done"}
  /\ \A c \in Calls : pc[c] = "dial" <=> rw = c
  /\ destroying = "holds" => rw = Nil

(* The pool never outgrows its size, whatever is dialed, removed and put    *)
(* back in between.                                                         *)
PoolBound == Cardinality(rpcconn) <= Size

(* A live connection is in the pool, and so in reach of calls and of        *)
(* Destroy, unless a stale list has taken it out.                           *)
OnlyStaleListsForget ==
  \A k \in Conns : conn[k] = "live" => k \in rpcconn \cup fresh \cup stale

(* A connection whose end has been reported is out of the pool, unless a    *)
(* stale list has put it back.                                              *)
OnlyStaleListsRevive == \A k \in rpcconn : pc[k] = "done" => k \in stale

(* response returns: no path through it keeps the lock, and dialing ends.   *)
(* Only destroy can keep a call out, for as long as it waits for wrw.       *)
ResponseReturns ==
  \A c \in Calls :
    pc[c] = "call" ~> \/ pc[c] \in {"write", "remove", "store", "done"}
                      \/ destroying = "holds"

(* A connection that has ended is taken out, unless a stale list interferes *)
(* or destroy keeps the lock.                                               *)
EndedLeaves ==
  \A k \in Conns :
    pc[k] \in {"remove", "done"} ~> \/ k \notin rpcconn \/ k \in stale
                                    \/ destroying = "holds"

(* "each service will have 8 connections" (client/pools.go).                *)
EightConnections == Cardinality({k \in Conns : conn[k] = "live"}) <= Size
=============================================================================
