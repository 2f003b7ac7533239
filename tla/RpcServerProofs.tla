-------------------------- MODULE RpcServerProofs --------------------------
(***************************************************************************)
(* Theorems about RpcServer, for any connections, requests, workers and    *)
(* sizes of the queue that ConstantsOK allows, and about ServerLife: what  *)
(* holds of a server holds of one that is started, registered, taken out   *)
(* and released, whenever that ends the process.                           *)
(***************************************************************************)
EXTENDS ServerLife, FiniteSetTheorems, TLAPS

-----------------------------------------------------------------------------
(* The inductive invariant. *)

(* A request is in one place: not sent yet, with the reader of its          *)
(* connection, once in the queue, or with one worker.                       *)
UnsentInv ==
  \A r \in unsent : /\ ~ Queued(r)
                    /\ \A k \in Conns : held[k] # r
                    /\ \A w \in Workers : job[w] # r

HeldInv ==
  \A k \in Conns : held[k] # Nil =>
    /\ ConnOf[held[k]] = k
    /\ ~ Queued(held[k])
    /\ \A w \in Workers : job[w] # held[k]

QueueInv ==
  \A i \in 1 .. Len(reqCh) :
    /\ \A j \in 1 .. Len(reqCh) : reqCh[i] = reqCh[j] => i = j
    /\ \A w \in Workers : job[w] # reqCh[i]

JobInv == \A w, v \in Workers : job[w] = job[v] /\ job[w] # Nil => w = v

(* What has been sent came in over a connection that was opened.            *)
SentInv == \A r \in Requests \ unsent : reader[ConnOf[r]] # "none"

PlaceInv == UnsentInv /\ HeldInv /\ QueueInv /\ JobInv /\ SentInv

-----------------------------------------------------------------------------
(* Types. *)

LEMMA ReplyType ==
  ASSUME TypeOK, NEW r \in Requests, NEW code \in Codes, Reply(r, code)
  PROVE  answers' \in [Requests -> Seq(Codes)]
BY DEF TypeOK, Reply

LEMMA RefuseType ==
  ASSUME TypeOK, NEW r \in Requests, Refuse(r)
  PROVE  answers' \in [Requests -> Seq(Codes)]
<1>1. CASE r \in Garbage
  BY <1>1 DEF Refuse, TypeOK
<1>2. CASE r \notin Garbage
  <2>1. Reply(r, 500)
    BY <1>2 DEF Refuse
  <2>2. 500 \in Codes
    BY DEF Codes
  <2> QED
    BY <2>1, <2>2, ReplyType
<1> QED
  BY <1>1, <1>2

LEMMA ConnectionTypes ==
  ASSUME TypeOK, NEW k \in Conns,
         \/ Accept(k) \/ Push(k) \/ Close(k)
         \/ \E r \in Requests : OnRecv(k, r)
  PROVE  TypeOK'
<1> USE ConstantsOK DEF ConstantsOK, TypeOK, workVars, globalVars
<1>1. CASE Accept(k)
  BY <1>1 DEF Accept
<1>2. CASE Push(k)
  BY <1>2 DEF Push
<1>3. CASE Close(k)
  BY <1>3 DEF Close
<1>4. ASSUME NEW r \in Requests, OnRecv(k, r)
      PROVE  TypeOK'
  <2>1. CASE Refuse(r) /\ UNCHANGED <<reader, held>>
    <3>1. answers' \in [Requests -> Seq(Codes)]
      BY <2>1, RefuseType
    <3> QED
      BY <1>4, <2>1, <3>1 DEF OnRecv, Receives
  <2>2. CASE Keep(k, r) /\ UNCHANGED answers
    BY <1>4, <2>2 DEF OnRecv, Receives, Keep
  <2> QED
    BY <1>4, <2>1, <2>2 DEF OnRecv
<1> QED
  BY <1>1, <1>2, <1>3, <1>4

LEMMA WorkerTypes ==
  ASSUME TypeOK, NEW w \in Workers, WorkerStep(w)
  PROVE  TypeOK'
<1> USE ConstantsOK DEF ConstantsOK, TypeOK, connVars, workVars, globalVars, At
<1>1. CASE Take(w)
  <2>1. /\ Head(reqCh) \in Requests
        /\ Tail(reqCh) \in Seq(Requests)
    BY <1>1 DEF Take
  <2>2. CASE Head(reqCh) \in Garbage \cup Unknown
    BY <1>1, <2>1, <2>2 DEF Take
  <2>3. CASE Head(reqCh) \notin Garbage \cup Unknown
    <3>1. /\ worker' = [worker EXCEPT ![w] = "limiter"]
          /\ job' = [job EXCEPT ![w] = Head(reqCh)]
          /\ reqCh' = Tail(reqCh)
          /\ reqs' = reqs + 1
          /\ UNCHANGED <<connVars, panicked, answers, globalVars>>
      BY <1>1, <2>3 DEF Take
    <3>2. Head(reqCh) # Nil
      BY <2>1
    <3>3. \A v \in Workers :
            worker'[v] \in {"limiter", "method", "leave"} <=> job'[v] # Nil
      BY <3>1, <3>2
    <3> QED
      BY <2>1, <3>1, <3>3
  <2> QED
    BY <2>2, <2>3
<1>2. CASE Limited(w)
  <2>1. answers' \in [Requests -> Seq(Codes)]
    BY <1>2, ReplyType DEF Limited, Codes
  <2> QED
    BY <1>2, <2>1 DEF Limited
<1>3. CASE Admitted(w)
  BY <1>3 DEF Admitted
<1>4. CASE MethodReturns(w)
  <2>1. answers' \in [Requests -> Seq(Codes)]
    BY <1>4, ReplyType DEF MethodReturns, Codes
  <2> QED
    BY <1>4, <2>1 DEF MethodReturns
<1>5. CASE MethodFails(w)
  <2>1. answers' \in [Requests -> Seq(Codes)]
    BY <1>5, ReplyType DEF MethodFails, Codes
  <2> QED
    BY <1>5, <2>1 DEF MethodFails
<1>6. CASE MethodPanics(w)
  BY <1>6 DEF MethodPanics
<1>7. CASE MethodPanicsWithValue(w)
  BY <1>7 DEF MethodPanicsWithValue
<1>8. CASE Leave(w)
  BY <1>8 DEF Leave
<1>9. CASE Exit(w)
  BY <1>9 DEF Exit
<1> QED
  BY <1>1, <1>2, <1>3, <1>4, <1>5, <1>6, <1>7, <1>8, <1>9 DEF WorkerStep

LEMMA TypeStep == TypeOK /\ [Next]_vars => TypeOK'
<1> SUFFICES ASSUME TypeOK, [Next]_vars
             PROVE  TypeOK'
  OBVIOUS
<1>1. CASE Release
  BY <1>1 DEF Release, TypeOK, connVars, workVars
<1>2. CASE UNCHANGED vars
  BY <1>2 DEF vars, TypeOK, connVars, workVars, globalVars
<1> QED
  BY <1>1, <1>2, ConnectionTypes, WorkerTypes DEF Next

LEMMA TypeInit == Init => TypeOK
<1> SUFFICES ASSUME Init
             PROVE  TypeOK
  OBVIOUS
<1>1. /\ answers \in [Requests -> Seq(Codes)]
      /\ reqCh \in Seq(Requests)
  BY DEF Init
<1>2. \A k \in Conns : reader[k] = "none" /\ held[k] = Nil
  BY DEF Init
<1>3. \A w \in Workers : worker[w] = "idle" /\ job[w] = Nil
  BY DEF Init
<1>4. /\ reader \in [Conns -> {"none", "read", "push", "closed"}]
      /\ held \in [Conns -> Requests \cup {Nil}]
      /\ worker \in [Workers -> {"idle", "limiter", "method", "leave", "exit"}]
      /\ job \in [Workers -> Requests \cup {Nil}]
  BY DEF Init
<1>5. /\ unsent \subseteq Requests
      /\ panicked \subseteq Requests
      /\ reqs \in Int
      /\ conns \in Int
  BY DEF Init
<1>6. /\ released \in BOOLEAN
      /\ crashed \in BOOLEAN
  BY Zenon DEF Init
<1>7. \A k \in Conns : reader[k] = "push" <=> held[k] # Nil
  BY <1>2
<1>8. \A w \in Workers :
        worker[w] \in {"limiter", "method", "leave"} <=> job[w] # Nil
  BY <1>3
<1> QED
  BY <1>1, <1>4, <1>5, <1>6, <1>7, <1>8 DEF TypeOK

(* Every variable keeps its type; a reader at its push holds a request, and *)
(* so does a worker between taking one and leaving it.                      *)
THEOREM TypeCorrect == Spec => []TypeOK
BY TypeInit, TypeStep, PTL DEF Spec

-----------------------------------------------------------------------------
(* The queue. *)

LEMMA PushingFinite ==
  /\ IsFiniteSet(Pushing)
  /\ Cardinality(Pushing) \in Nat
  /\ Cardinality(Conns) \in Nat
  /\ Cardinality(Pushing) <= Cardinality(Conns)
BY ConstantsOK, FS_Subset, FS_CardinalityType DEF ConstantsOK, Pushing

LEMMA QueueStep ==
  ASSUME TypeOK, TypeOK', QueueBound, [Next]_vars
  PROVE  QueueBound'
<1> USE ConstantsOK DEF ConstantsOK, QueueBound
<1>1. /\ IsFiniteSet(Pushing)
      /\ Cardinality(Pushing) \in Nat
      /\ Cardinality(Conns) \in Nat
  BY PushingFinite
<1>2. /\ Cardinality(Pushing') \in Nat
      /\ Cardinality(Pushing') <= Cardinality(Conns)
  <2>1. Pushing' \subseteq Conns
    BY DEF Pushing
  <2> QED
    BY <2>1, FS_Subset, FS_CardinalityType
<1>3. Len(reqCh) \in Nat
  BY DEF TypeOK
<1>4. ASSUME Pushing' = Pushing, Len(reqCh') <= Len(reqCh), Len(reqCh') \in Nat
      PROVE  QueueBound'
  BY <1>1, <1>3, <1>4
<1>5. ASSUME NEW k \in Conns, NEW r \in Requests, OnRecv(k, r)
      PROVE  QueueBound'
  <2>1. reqCh' = reqCh
    BY <1>5 DEF OnRecv, Receives
  <2>2. CASE Full
    <3>1. reader' = reader
      BY <1>5, <2>2 DEF OnRecv
    <3> QED
      BY <1>3, <1>4, <2>1, <3>1 DEF Pushing
  <2>3. CASE ~ Full
    BY <1>1, <1>2, <1>3, <2>1, <2>3 DEF Full
  <2> QED
    BY <2>2, <2>3
<1>6. ASSUME NEW k \in Conns, Push(k)
      PROVE  QueueBound'
  <2>1. /\ Len(reqCh') = Len(reqCh) + 1
        /\ k \in Pushing
        /\ Pushing' = Pushing \ {k}
    BY <1>6 DEF Push, Pushing, TypeOK
  <2>2. Cardinality(Pushing') = Cardinality(Pushing) - 1
    BY <1>1, <2>1, FS_RemoveElement
  <2> QED
    BY <1>1, <1>3, <2>1, <2>2
<1>7. ASSUME NEW k \in Conns, Accept(k) \/ Close(k)
      PROVE  QueueBound'
  <2>1. Pushing' = Pushing /\ reqCh' = reqCh
    BY <1>7 DEF Accept, Close, Pushing, TypeOK
  <2> QED
    BY <1>3, <1>4, <2>1
<1>8. ASSUME NEW w \in Workers, Take(w)
      PROVE  QueueBound'
  <2>1. Pushing' = Pushing
    BY <1>8 DEF Take, connVars, Pushing
  <2>2. Len(reqCh') \in Nat /\ Len(reqCh') <= Len(reqCh)
    BY <1>8 DEF Take, TypeOK
  <2> QED
    BY <1>4, <2>1, <2>2
<1>9. ASSUME UNCHANGED <<reader, reqCh>>
      PROVE  QueueBound'
  BY <1>3, <1>4, <1>9 DEF Pushing
<1>10. ASSUME NEW w \in Workers, WorkerStep(w), ~ Take(w)
       PROVE  UNCHANGED <<reader, reqCh>>
  BY <1>10 DEF WorkerStep, Limited, Admitted, MethodReturns, MethodFails,
               MethodPanics, MethodPanicsWithValue, Leave, Exit, connVars
<1>11. CASE Release \/ UNCHANGED vars
  BY <1>9, <1>11 DEF Release, vars, connVars
<1> QED
  BY <1>5, <1>6, <1>7, <1>8, <1>9, <1>10, <1>11 DEF Next

LEMMA QueueInit == Init => QueueBound
<1> SUFFICES ASSUME Init
             PROVE  QueueBound
  OBVIOUS
<1>1. Len(reqCh) = 0 /\ Pushing = {}
  BY DEF Init, Pushing
<1> QED
  BY <1>1, PushingFinite, FS_EmptySet, ConstantsOK DEF ConstantsOK, QueueBound

(* However the readers interleave between their look at the length of the   *)
(* queue and their push, they overrun the margin by one request each.       *)
THEOREM QueueBounded == Spec => []QueueBound
BY TypeInit, TypeStep, QueueInit, QueueStep, PTL DEF Spec

LEMMA BoundFreesReaders == TypeOK /\ QueueBound => ReadersNeverBlock
<1> SUFFICES ASSUME TypeOK, QueueBound, Cardinality(Conns) <= Margin,
                    NEW k \in Pushing
             PROVE  Len(reqCh) < Cap
  BY DEF ReadersNeverBlock
<1>1. Cardinality(Pushing) >= 1
  BY PushingFinite, FS_EmptySet
<1> QED
  BY <1>1, PushingFinite, ConstantsOK DEF ConstantsOK, QueueBound, TypeOK

(* A server with at most as many connections as the queue has margin never  *)
(* blocks a reader, whatever its workers do.                                *)
THEOREM ReadersFree == Spec => []ReadersNeverBlock
BY TypeInit, TypeStep, QueueInit, QueueStep, BoundFreesReaders, PTL DEF Spec

-----------------------------------------------------------------------------
(* The counters. *)

LEMMA CountedFinite ==
  /\ IsFiniteSet(Handling)
  /\ IsFiniteSet(OpenConns)
BY ConstantsOK, FS_Subset DEF ConstantsOK, Handling, OpenConns

LEMMA ReqsStep ==
  ASSUME TypeOK, reqs = Cardinality(Handling), [Next]_vars
  PROVE  reqs' = Cardinality(Handling')
<1>1. ASSUME NEW w \in Workers, Take(w)
      PROVE  reqs' = Cardinality(Handling')
  <2>1. CASE Head(reqCh) \in Garbage \cup Unknown
    BY <1>1, <2>1 DEF Take, Handling
  <2>2. CASE Head(reqCh) \notin Garbage \cup Unknown
    <3>1. /\ reqs' = reqs + 1
          /\ w \notin Handling
          /\ Handling' = Handling \cup {w}
      <4>1. /\ reqs' = reqs + 1
            /\ worker[w] = "idle"
            /\ worker' = [worker EXCEPT ![w] = "limiter"]
        BY <1>1, <2>2 DEF Take
      <4> QED
        BY <4>1 DEF Handling, TypeOK
    <3>2. Cardinality(Handling') = Cardinality(Handling) + 1
      BY <3>1, CountedFinite, FS_AddElement
    <3> QED
      BY <3>1, <3>2
  <2> QED
    BY <2>1, <2>2
<1>2. ASSUME NEW w \in Workers, Leave(w)
      PROVE  reqs' = Cardinality(Handling')
  <2>1. /\ reqs' = reqs - 1
        /\ w \in Handling
        /\ Handling' = Handling \ {w}
    BY <1>2 DEF Leave, At, Handling, TypeOK
  <2>2. Cardinality(Handling') = Cardinality(Handling) - 1
    BY <2>1, CountedFinite, FS_RemoveElement
  <2> QED
    BY <2>1, <2>2
<1>3. ASSUME NEW w \in Workers, WorkerStep(w), ~ Take(w), ~ Leave(w)
      PROVE  reqs' = reqs /\ Handling' = Handling
  BY <1>3 DEF WorkerStep, Limited, Admitted, MethodReturns, MethodFails,
              MethodPanics, MethodPanicsWithValue, Exit, At, workVars,
              Handling, TypeOK
<1>4. CASE \/ Release
           \/ UNCHANGED vars
           \/ \E k \in Conns : \/ Accept(k) \/ Push(k) \/ Close(k)
                               \/ \E r \in Requests : OnRecv(k, r)
  BY <1>4 DEF Release, vars, Accept, Push, Close, OnRecv, Receives, workVars,
              Handling
<1> QED
  BY <1>1, <1>2, <1>3, <1>4 DEF Next

LEMMA ConnsStep ==
  ASSUME TypeOK, conns = Cardinality(OpenConns), [Next]_vars
  PROVE  conns' = Cardinality(OpenConns')
<1>1. ASSUME NEW k \in Conns, Accept(k)
      PROVE  conns' = Cardinality(OpenConns')
  <2>1. /\ conns' = conns + 1
        /\ k \notin OpenConns
        /\ OpenConns' = OpenConns \cup {k}
    BY <1>1 DEF Accept, OpenConns, Open, TypeOK
  <2>2. Cardinality(OpenConns') = Cardinality(OpenConns) + 1
    BY <2>1, CountedFinite, FS_AddElement
  <2> QED
    BY <2>1, <2>2
<1>2. ASSUME NEW k \in Conns, Close(k)
      PROVE  conns' = Cardinality(OpenConns')
  <2>1. /\ conns' = conns - 1
        /\ k \in OpenConns
        /\ OpenConns' = OpenConns \ {k}
    BY <1>2 DEF Close, OpenConns, Open, TypeOK
  <2>2. Cardinality(OpenConns') = Cardinality(OpenConns) - 1
    BY <2>1, CountedFinite, FS_RemoveElement
  <2> QED
    BY <2>1, <2>2
<1>3. ASSUME NEW k \in Conns, Push(k) \/ \E r \in Requests : OnRecv(k, r)
      PROVE  conns' = conns /\ OpenConns' = OpenConns
  BY <1>3 DEF Push, OnRecv, Receives, Keep, OpenConns, Open, TypeOK
<1>4. CASE \/ Release
           \/ UNCHANGED vars
           \/ \E w \in Workers : WorkerStep(w)
  BY <1>4 DEF Release, vars, connVars, OpenConns, Open, WorkerStep, Take,
              Limited, Admitted, MethodReturns, MethodFails, MethodPanics,
              MethodPanicsWithValue, Leave, Exit
<1> QED
  BY <1>1, <1>2, <1>3, <1>4 DEF Next

LEMMA CountersInit == Init => CountersExact
<1> SUFFICES ASSUME Init
             PROVE  CountersExact
  OBVIOUS
<1>1. Handling = {} /\ OpenConns = {}
  BY DEF Init, Handling, OpenConns, Open
<1> QED
  BY <1>1, FS_EmptySet DEF Init, CountersExact

(* The counters of requests and connections that metrics reports are what   *)
(* the server has in hand, on every path through handle.                    *)
THEOREM CountersCorrect == Spec => []CountersExact
<1>1. TypeOK /\ CountersExact /\ [Next]_vars => CountersExact'
  BY ReqsStep, ConnsStep DEF CountersExact
<1> QED
  BY <1>1, TypeInit, TypeStep, CountersInit, PTL DEF Spec

-----------------------------------------------------------------------------
(* Every request is in one place. *)

LEMMA AppendEffect ==
  ASSUME NEW S, NEW q \in Seq(S), NEW x \in S
  PROVE  /\ Len(Append(q, x)) = Len(q) + 1
         /\ \A i \in 1 .. Len(q) : Append(q, x)[i] = q[i]
         /\ Append(q, x)[Len(q) + 1] = x
OBVIOUS

LEMMA TailEffect ==
  ASSUME NEW S, NEW q \in Seq(S), q # <<>>
  PROVE  /\ Head(q) = q[1]
         /\ Len(q) \in Nat \ {0}
         /\ Len(Tail(q)) = Len(q) - 1
         /\ \A i \in 1 .. Len(q) - 1 : Tail(q)[i] = q[i + 1]
OBVIOUS

LEMMA PlaceUnmoved ==
  ASSUME PlaceInv, UNCHANGED <<unsent, held, reqCh, job>>,
         \A k \in Conns : reader[k] # "none" => reader'[k] # "none"
  PROVE  PlaceInv'
BY ConstantsOK DEF ConstantsOK, PlaceInv, UnsentInv, HeldInv, QueueInv, JobInv,
                   SentInv, Queued

LEMMA PlaceOnRecv ==
  ASSUME TypeOK, PlaceInv, NEW k \in Conns, NEW r \in Requests, OnRecv(k, r)
  PROVE  PlaceInv'
<1> USE ConstantsOK DEF ConstantsOK, PlaceInv
<1>1. /\ r \in unsent
      /\ ConnOf[r] = k
      /\ reader[k] = "read"
      /\ unsent' = unsent \ {r}
      /\ reqCh' = reqCh
      /\ job' = job
  BY DEF OnRecv, Receives, workVars
<1>2. \/ reader' = reader /\ held' = held
      \/ /\ reader' = [reader EXCEPT ![k] = "push"]
         /\ held' = [held EXCEPT ![k] = r]
  BY DEF OnRecv, Keep
<1>3. \A l \in Conns : held'[l] = held[l] \/ (l = k /\ held'[l] = r)
  BY <1>2 DEF TypeOK
<1>4. UnsentInv'
  BY <1>1, <1>3 DEF UnsentInv, Queued
<1>5. HeldInv'
  BY <1>1, <1>3 DEF HeldInv, UnsentInv, Queued
<1>6. QueueInv' /\ JobInv'
  BY <1>1 DEF QueueInv, JobInv
<1>7. SentInv'
  BY <1>1, <1>2 DEF SentInv, TypeOK
<1> QED
  BY <1>4, <1>5, <1>6, <1>7

LEMMA PlacePush ==
  ASSUME TypeOK, PlaceInv, NEW k \in Conns, Push(k)
  PROVE  PlaceInv'
<1> USE ConstantsOK DEF ConstantsOK, PlaceInv
<1> DEFINE r == held[k]
<1>1. /\ reader[k] = "push"
      /\ reqCh' = Append(reqCh, r)
      /\ reader' = [reader EXCEPT ![k] = "read"]
      /\ held' = [held EXCEPT ![k] = Nil]
      /\ unsent' = unsent
      /\ job' = job
  BY DEF Push, workVars
<1>2. r \in Requests /\ r # Nil
  BY <1>1 DEF TypeOK
<1>3. /\ Len(reqCh') = Len(reqCh) + 1
      /\ \A i \in 1 .. Len(reqCh) : reqCh'[i] = reqCh[i]
      /\ reqCh'[Len(reqCh) + 1] = r
      /\ Len(reqCh) \in Nat
  BY <1>1, <1>2, AppendEffect DEF TypeOK
<1>4. /\ held'[k] = Nil
      /\ \A l \in Conns \ {k} : held'[l] = held[l]
  BY <1>1 DEF TypeOK
<1>5. /\ ConnOf[r] = k
      /\ ~ Queued(r)
      /\ r \notin unsent
      /\ \A w \in Workers : job[w] # r
      /\ \A l \in Conns \ {k} : held[l] # r
  BY <1>2 DEF HeldInv, UnsentInv
<1> HIDE DEF r
<1>6. \A i \in 1 .. Len(reqCh') :
        \/ i \in 1 .. Len(reqCh) /\ reqCh'[i] = reqCh[i]
        \/ i = Len(reqCh) + 1 /\ reqCh'[i] = r
  BY <1>3
<1>7. \A i \in 1 .. Len(reqCh) : reqCh[i] # r
  BY <1>5 DEF Queued
<1>8. UnsentInv'
  BY <1>1, <1>2, <1>4, <1>5, <1>6 DEF UnsentInv, Queued, TypeOK
<1>9. HeldInv'
  BY <1>1, <1>4, <1>5, <1>6 DEF HeldInv, Queued
<1>10. QueueInv'
  BY <1>1, <1>5, <1>6, <1>7 DEF QueueInv
<1>11. JobInv'
  BY <1>1 DEF JobInv
<1>12. SentInv'
  BY <1>1 DEF SentInv, TypeOK
<1> QED
  BY <1>8, <1>9, <1>10, <1>11, <1>12

LEMMA PlaceTake ==
  ASSUME TypeOK, PlaceInv, NEW w \in Workers, Take(w)
  PROVE  PlaceInv'
<1> USE ConstantsOK DEF ConstantsOK, PlaceInv
<1> DEFINE r == reqCh[1]
<1>1. /\ reqCh # <<>>
      /\ reqCh' = Tail(reqCh)
      /\ worker[w] = "idle"
      /\ UNCHANGED <<unsent, held, reader>>
  BY DEF Take, connVars
<1>2. /\ Head(reqCh) = r
      /\ Len(reqCh) \in Nat \ {0}
      /\ Len(reqCh') = Len(reqCh) - 1
      /\ \A i \in 1 .. Len(reqCh') : reqCh'[i] = reqCh[i + 1]
  BY <1>1, TailEffect DEF TypeOK
<1>3. r \in Requests /\ Queued(r)
  BY <1>2 DEF Queued, TypeOK
<1>4. /\ job[w] = Nil
      /\ \A v \in Workers : job'[v] = job[v] \/ (v = w /\ job'[v] = r)
  BY <1>1, <1>2 DEF Take, TypeOK
<1>5. /\ r \notin unsent
      /\ \A k \in Conns : held[k] # r
      /\ \A v \in Workers : job[v] # r
      /\ \A i \in 2 .. Len(reqCh) : reqCh[i] # r
  BY <1>2, <1>3 DEF UnsentInv, HeldInv, QueueInv
<1> HIDE DEF r
<1>6. \A x \in Requests : Queued(x)' => Queued(x) /\ x # r
  BY <1>2, <1>5 DEF Queued
<1>7. UnsentInv'
  BY <1>1, <1>4, <1>5, <1>6 DEF UnsentInv, TypeOK
<1>8. HeldInv'
  BY <1>1, <1>4, <1>5, <1>6 DEF HeldInv, TypeOK
<1>9. QueueInv'
  BY <1>2, <1>4, <1>5 DEF QueueInv
<1>10. JobInv'
  BY <1>4, <1>5 DEF JobInv
<1>11. SentInv'
  BY <1>1 DEF SentInv
<1> QED
  BY <1>7, <1>8, <1>9, <1>10, <1>11

LEMMA PlaceLeave ==
  ASSUME TypeOK, PlaceInv, NEW w \in Workers, Leave(w)
  PROVE  PlaceInv'
<1> USE ConstantsOK DEF ConstantsOK, PlaceInv
<1>1. /\ job' = [job EXCEPT ![w] = Nil]
      /\ UNCHANGED <<unsent, held, reader, reqCh>>
  BY DEF Leave, connVars
<1>2. \A v \in Workers : job'[v] = job[v] \/ job'[v] = Nil
  BY <1>1 DEF TypeOK
<1>3. UnsentInv' /\ SentInv'
  BY <1>1, <1>2 DEF UnsentInv, SentInv, Queued, TypeOK
<1>4. HeldInv'
  BY <1>1, <1>2 DEF HeldInv, Queued
<1>5. QueueInv'
  <2>1. \A i \in 1 .. Len(reqCh) : reqCh[i] # Nil
    BY DEF TypeOK
  <2> QED
    BY <1>1, <1>2, <2>1 DEF QueueInv
<1>6. JobInv'
  BY <1>2 DEF JobInv
<1> QED
  BY <1>3, <1>4, <1>5, <1>6

LEMMA PlaceStep ==
  ASSUME TypeOK, PlaceInv, [Next]_vars
  PROVE  PlaceInv'
<1>1. ASSUME NEW k \in Conns, Accept(k) \/ Close(k)
      PROVE  PlaceInv'
  BY <1>1, PlaceUnmoved DEF Accept, Close, workVars, TypeOK
<1>2. ASSUME NEW w \in Workers, WorkerStep(w), ~ Take(w), ~ Leave(w)
      PROVE  PlaceInv'
  BY <1>2, PlaceUnmoved DEF WorkerStep, Limited, Admitted, MethodReturns,
         MethodFails, MethodPanics, MethodPanicsWithValue, Exit, connVars,
         workVars
<1>3. CASE Release \/ UNCHANGED vars
  BY <1>3, PlaceUnmoved DEF Release, vars, connVars, workVars
<1> QED
  BY <1>1, <1>2, <1>3, PlaceOnRecv, PlacePush, PlaceTake, PlaceLeave DEF Next

LEMMA PlaceInit == Init => PlaceInv
BY ConstantsOK DEF ConstantsOK, Init, PlaceInv, UnsentInv, HeldInv, QueueInv,
                   JobInv, SentInv, Queued

-----------------------------------------------------------------------------
(* Answers. *)

Answered == AnsweredOnce /\ EveryCallAnswered

(* Requests are sent once, closed connections stay closed, and a panic is   *)
(* not forgotten.                                                           *)
Lasting ==
  /\ unsent' \subseteq unsent
  /\ panicked \subseteq panicked'
  /\ \A k \in Conns : reader[k] = "closed" => reader'[k] = "closed"

(* The requests in hand are the same, and nothing is written.               *)
Carries ==
  /\ Lasting
  /\ answers' = answers
  /\ \A x \in Requests : InHand(x)' <=> InHand(x)

(* The server is done with a request, with a reply or a reason for none.    *)
Settles(r) ==
  /\ Lasting
  /\ InHand(r) /\ ~ InHand(r)'
  /\ \A x \in Requests \ {r} : InHand(x)' <=> InHand(x)
  /\ reader[ConnOf[r]] # "none"
  /\ \/ /\ answers' = answers
        /\ r \in OnlyCalls \cup Garbage \cup Unknown \cup panicked'
     \/ \E code \in Codes : Reply(r, code)

HandStep == Carries \/ \E r \in Requests : Settles(r)

LEMMA OnRecvHands ==
  ASSUME TypeOK, PlaceInv, NEW k \in Conns, NEW r \in Requests, OnRecv(k, r)
  PROVE  HandStep
<1> USE ConstantsOK DEF ConstantsOK
<1>1. /\ r \in unsent
      /\ ConnOf[r] = k
      /\ reader[k] = "read"
      /\ unsent' = unsent \ {r}
      /\ UNCHANGED <<reqCh, worker, job, panicked>>
  BY DEF OnRecv, Receives, workVars
<1>2. /\ ~ Queued(r)
      /\ \A l \in Conns : held[l] # r
      /\ \A w \in Workers : job[w] # r
  BY <1>1 DEF PlaceInv, UnsentInv
<1>3. InHand(r)
  BY <1>1 DEF InHand
<1>4. CASE Refuse(r) /\ UNCHANGED <<reader, held>>
  <2>1. ~ InHand(r)'
    BY <1>1, <1>2, <1>4 DEF InHand, Queued
  <2>2. \A x \in Requests \ {r} : InHand(x)' <=> InHand(x)
    BY <1>1, <1>4 DEF InHand, Queued
  <2>3. Lasting
    BY <1>1, <1>4 DEF Lasting
  <2>4. \/ answers' = answers /\ r \in Garbage
        \/ Reply(r, 500) /\ 500 \in Codes
    BY <1>4 DEF Refuse, Codes
  <2> QED
    BY <1>1, <1>3, <2>1, <2>2, <2>3, <2>4 DEF HandStep, Settles
<1>5. CASE Keep(k, r) /\ UNCHANGED answers
  <2>1. /\ held[k] = Nil
        /\ held'[k] = r
        /\ \A l \in Conns \ {k} : held'[l] = held[l]
    BY <1>1, <1>5 DEF Keep, TypeOK
  <2>2. \A x \in Requests : InHand(x)' <=> InHand(x)
    BY <1>1, <2>1 DEF InHand, Queued
  <2>3. Lasting
    BY <1>1, <1>5 DEF Lasting, Keep, TypeOK
  <2> QED
    BY <1>5, <2>2, <2>3 DEF HandStep, Carries
<1> QED
  BY <1>4, <1>5 DEF OnRecv

LEMMA PushHands ==
  ASSUME TypeOK, NEW k \in Conns, Push(k)
  PROVE  HandStep
<1> USE ConstantsOK DEF ConstantsOK
<1> DEFINE r == held[k]
<1>1. /\ reader[k] = "push"
      /\ reqCh' = Append(reqCh, r)
      /\ reader' = [reader EXCEPT ![k] = "read"]
      /\ held' = [held EXCEPT ![k] = Nil]
      /\ UNCHANGED <<unsent, worker, job, answers, panicked>>
  BY DEF Push, workVars
<1>2. r \in Requests
  BY <1>1 DEF TypeOK
<1>3. /\ held'[k] = Nil
      /\ \A l \in Conns \ {k} : held'[l] = held[l]
  BY <1>1 DEF TypeOK
<1>4. \A x \in Requests : Queued(x)' <=> (Queued(x) \/ x = r)
  <2>1. /\ Len(reqCh') = Len(reqCh) + 1
        /\ Len(reqCh) \in Nat
        /\ \A i \in 1 .. Len(reqCh) : reqCh'[i] = reqCh[i]
        /\ reqCh'[Len(reqCh) + 1] = r
    BY <1>1, <1>2, AppendEffect DEF TypeOK
  <2> HIDE DEF r
  <2> QED
    BY <2>1 DEF Queued
<1>5. \A x \in Requests : InHand(x)' <=> InHand(x)
  BY <1>1, <1>3, <1>4 DEF InHand
<1>6. Lasting
  BY <1>1 DEF Lasting, TypeOK
<1> QED
  BY <1>1, <1>5, <1>6 DEF HandStep, Carries

LEMMA TakeHands ==
  ASSUME TypeOK, PlaceInv, NEW w \in Workers, Take(w)
  PROVE  HandStep
<1> USE ConstantsOK DEF ConstantsOK
<1>1. /\ reqCh # <<>>
      /\ reqCh' = Tail(reqCh)
      /\ worker[w] = "idle"
      /\ UNCHANGED <<unsent, held, reader, answers, panicked>>
  BY DEF Take, connVars
<1>2. /\ Head(reqCh) = reqCh[1]
      /\ Len(reqCh) \in Nat \ {0}
      /\ Len(reqCh') = Len(reqCh) - 1
      /\ \A i \in 1 .. Len(reqCh') : reqCh'[i] = reqCh[i + 1]
  BY <1>1, TailEffect DEF TypeOK
<1>3. PICK r \in Requests : r = reqCh[1] /\ Queued(r)
  BY <1>2 DEF Queued, TypeOK
<1>4. /\ r \notin unsent
      /\ \A k \in Conns : held[k] # r
      /\ \A v \in Workers : job[v] # r
      /\ \A i \in 2 .. Len(reqCh) : reqCh[i] # r
  BY <1>2, <1>3 DEF PlaceInv, UnsentInv, HeldInv, QueueInv
<1>5. /\ ~ Queued(r)'
      /\ \A x \in Requests \ {r} : Queued(x)' <=> Queued(x)
  <2>1. ~ Queued(r)'
    <3>1. ASSUME NEW i \in 1 .. Len(reqCh')
          PROVE  i + 1 \in 2 .. Len(reqCh) /\ reqCh'[i] = reqCh[i + 1]
      BY <1>2
    <3> QED
      BY <1>4, <3>1 DEF Queued
  <2>2. ASSUME NEW x \in Requests \ {r}
        PROVE  Queued(x)' <=> Queued(x)
    <3>1. ASSUME NEW i \in 1 .. Len(reqCh), reqCh[i] = x
          PROVE  i - 1 \in 1 .. Len(reqCh') /\ reqCh'[i - 1] = x
      BY <1>2, <1>3, <3>1
    <3>2. ASSUME NEW i \in 1 .. Len(reqCh'), reqCh'[i] = x
          PROVE  i + 1 \in 1 .. Len(reqCh) /\ reqCh[i + 1] = x
      BY <1>2, <3>2
    <3> QED
      BY <3>1, <3>2 DEF Queued
  <2> QED
    BY <2>1, <2>2
<1>6. Lasting
  BY <1>1 DEF Lasting
<1>7. InHand(r) /\ reader[ConnOf[r]] # "none"
  BY <1>3, <1>4 DEF InHand, PlaceInv, SentInv
<1>8. CASE r \in Garbage \cup Unknown
  <2>1. worker' = worker /\ job' = job
    BY <1>2, <1>3, <1>8 DEF Take
  <2>2. ~ InHand(r)'
    BY <1>1, <1>4, <1>5, <2>1 DEF InHand
  <2>3. \A x \in Requests \ {r} : InHand(x)' <=> InHand(x)
    BY <1>1, <1>5, <2>1 DEF InHand
  <2> QED
    BY <1>1, <1>6, <1>7, <1>8, <2>2, <2>3 DEF HandStep, Settles
<1>9. CASE r \notin Garbage \cup Unknown
  <2>1. /\ worker'[w] = "limiter" /\ job'[w] = r
        /\ \A v \in Workers \ {w} : worker'[v] = worker[v] /\ job'[v] = job[v]
    BY <1>2, <1>3, <1>9 DEF Take, TypeOK
  <2>2. InHand(r)' /\ InHand(r)
    BY <1>7, <2>1 DEF InHand
  <2>3. \A x \in Requests \ {r} : InHand(x)' <=> InHand(x)
    BY <1>1, <1>5, <2>1 DEF InHand
  <2> QED
    BY <1>1, <1>6, <2>2, <2>3 DEF HandStep, Carries
<1> QED
  BY <1>8, <1>9

(* A worker is done with its request.                                       *)
LEMMA WorkerDone ==
  ASSUME TypeOK, PlaceInv, NEW w \in Workers, worker[w] \in {"limiter", "method"},
         At(w, worker[w], "leave"), UNCHANGED <<unsent, held, reqCh, job>>
  PROVE  /\ job[w] \in Requests
         /\ InHand(job[w])
         /\ reader[ConnOf[job[w]]] # "none"
         /\ ~ InHand(job[w])'
         /\ \A x \in Requests \ {job[w]} : InHand(x)' <=> InHand(x)
<1> USE DEF PlaceInv
<1>1. job[w] \in Requests /\ job[w] # Nil
  BY DEF TypeOK
<1>2. InHand(job[w])
  BY DEF InHand
<1>3. /\ worker'[w] = "leave"
      /\ \A v \in Workers \ {w} : worker'[v] = worker[v]
  BY DEF At, TypeOK
<1>4. /\ job[w] \notin unsent
      /\ \A k \in Conns : held[k] # job[w]
      /\ ~ Queued(job[w])
      /\ \A v \in Workers \ {w} : job[v] # job[w]
  BY <1>1 DEF UnsentInv, HeldInv, QueueInv, JobInv, Queued
<1>5. ~ InHand(job[w])'
  BY <1>3, <1>4 DEF InHand, Queued
<1>6. \A x \in Requests \ {job[w]} : InHand(x)' <=> InHand(x)
  BY <1>3 DEF InHand, Queued
<1> QED
  BY <1>1, <1>2, <1>4, <1>5, <1>6 DEF SentInv

LEMMA DoneHands ==
  ASSUME TypeOK, PlaceInv, NEW w \in Workers,
         \/ Limited(w) \/ MethodReturns(w) \/ MethodFails(w) \/ MethodPanics(w)
  PROVE  HandStep
<1>1. /\ worker[w] \in {"limiter", "method"}
      /\ At(w, worker[w], "leave")
      /\ UNCHANGED <<unsent, held, reader, reqCh, job>>
  BY DEF Limited, MethodReturns, MethodFails, MethodPanics, At, connVars
<1>2. PICK r \in Requests :
      /\ r = job[w]
      /\ InHand(r)
      /\ reader[ConnOf[r]] # "none"
      /\ ~ InHand(r)'
      /\ \A x \in Requests \ {r} : InHand(x)' <=> InHand(x)
  BY <1>1, WorkerDone
<1>3. Lasting
  BY <1>1 DEF Lasting, Limited, MethodReturns, MethodFails, MethodPanics
<1>4. \/ answers' = answers /\ r \in OnlyCalls \cup panicked'
      \/ \E code \in Codes : Reply(r, code)
  BY <1>2 DEF Limited, MethodReturns, MethodFails, MethodPanics, Codes
<1> QED
  BY <1>2, <1>3, <1>4 DEF HandStep, Settles

(* What any step of the server does to the requests and their answers.      *)
LEMMA EveryStepHands ==
  ASSUME TypeOK, PlaceInv, [Next]_vars
  PROVE  HandStep
<1>1. ASSUME NEW k \in Conns, Accept(k) \/ Close(k)
      PROVE  HandStep
  <2>1. Lasting
    BY <1>1 DEF Accept, Close, Lasting, workVars, TypeOK
  <2>2. UNCHANGED <<unsent, held, reqCh, worker, job, answers>>
    BY <1>1 DEF Accept, Close, workVars
  <2> QED
    BY <2>1, <2>2 DEF HandStep, Carries, InHand, Queued
<1>2. ASSUME NEW w \in Workers, \/ Admitted(w) \/ MethodPanicsWithValue(w)
                                \/ Leave(w) \/ Exit(w)
      PROVE  HandStep
  <2>1. /\ UNCHANGED <<unsent, held, reader, reqCh, answers, panicked>>
        /\ \A v \in Workers \ {w} : worker'[v] = worker[v] /\ job'[v] = job[v]
    BY <1>2 DEF Admitted, MethodPanicsWithValue, Leave, Exit, At, connVars,
                workVars, TypeOK
  <2>2. \/ /\ worker[w] \notin {"limiter", "method"}
           /\ worker'[w] \notin {"limiter", "method"}
        \/ /\ worker[w] \in {"limiter", "method"}
           /\ worker'[w] \in {"limiter", "method"}
           /\ job'[w] = job[w]
    BY <1>2 DEF Admitted, MethodPanicsWithValue, Leave, Exit, At, workVars, TypeOK
  <2>3. \A x \in Requests : InHand(x)' <=> InHand(x)
    BY <2>1, <2>2 DEF InHand, Queued
  <2>4. Lasting
    BY <2>1 DEF Lasting
  <2> QED
    BY <2>1, <2>3, <2>4 DEF HandStep, Carries
<1>3. CASE Release \/ UNCHANGED vars
  <2>1. UNCHANGED <<unsent, held, reader, reqCh, worker, job, answers, panicked>>
    BY <1>3 DEF Release, vars, connVars, workVars
  <2> QED
    BY <2>1 DEF HandStep, Carries, InHand, Queued, Lasting
<1> QED
  BY <1>1, <1>2, <1>3, OnRecvHands, PushHands, TakeHands, DoneHands
     DEF Next, WorkerStep

(* The requests in hand are the same.                                       *)
LEMMA AnsweredMove ==
  ASSUME Answered, Lasting, answers' = answers,
         \A x \in Requests : InHand(x)' <=> InHand(x)
  PROVE  Answered'
BY ConstantsOK DEF ConstantsOK, Answered, AnsweredOnce, EveryCallAnswered, Lasting

(* The server is done with a request.                                       *)
LEMMA AnsweredSettle ==
  ASSUME Answered, Lasting, NEW r \in Requests, ~ InHand(r)',
         \A x \in Requests \ {r} : /\ InHand(x)' <=> InHand(x)
                                   /\ answers'[x] = answers[x],
         Len(answers'[r]) <= 1,
         answers'[r] = <<>> => \/ r \in OnlyCalls \cup Garbage \cup Unknown
                               \/ r \in panicked'
                               \/ reader'[ConnOf[r]] = "closed"
  PROVE  Answered'
<1> USE ConstantsOK DEF ConstantsOK, Answered, Lasting
<1>1. AnsweredOnce'
  BY DEF AnsweredOnce
<1>2. EveryCallAnswered'
  BY DEF EveryCallAnswered
<1> QED
  BY <1>1, <1>2

(* The first reply to a request is the only one, and is missing only when   *)
(* its connection is gone.                                                  *)
LEMMA ReplyEffect ==
  ASSUME TypeOK, NEW r \in Requests, NEW code \in Codes, Reply(r, code),
         answers[r] = <<>>, reader[ConnOf[r]] # "none"
  PROVE  /\ \A x \in Requests \ {r} : answers'[x] = answers[x]
         /\ Len(answers'[r]) <= 1
         /\ answers'[r] = <<>> => reader[ConnOf[r]] = "closed"
<1> USE ConstantsOK DEF ConstantsOK, TypeOK
<1>1. CASE Open(ConnOf[r])
  <2>1. answers'[r] = <<code>>
    BY <1>1 DEF Reply
  <2>2. \A x \in Requests \ {r} : answers'[x] = answers[x]
    BY <1>1 DEF Reply
  <2> QED
    BY <2>1, <2>2
<1>2. CASE ~ Open(ConnOf[r])
  <2>1. answers' = answers
    BY <1>2 DEF Reply
  <2>2. reader[ConnOf[r]] = "closed"
    BY <1>2 DEF Open
  <2> QED
    BY <2>1, <2>2
<1> QED
  BY <1>1, <1>2

LEMMA AnsweredStep ==
  ASSUME TypeOK, Answered, HandStep
  PROVE  Answered'
<1>1. CASE Carries
  BY <1>1, AnsweredMove DEF Carries
<1>2. ASSUME NEW r \in Requests, Settles(r)
      PROVE  Answered'
  <2>1. answers[r] = <<>>
    BY <1>2 DEF Settles, Answered, AnsweredOnce
  <2>2. /\ \A x \in Requests \ {r} : answers'[x] = answers[x]
        /\ Len(answers'[r]) <= 1
        /\ answers'[r] = <<>> => \/ r \in OnlyCalls \cup Garbage \cup Unknown \cup panicked'
                                \/ reader[ConnOf[r]] = "closed"
    BY <1>2, <2>1, ReplyEffect DEF Settles
  <2>3. reader[ConnOf[r]] = "closed" => reader'[ConnOf[r]] = "closed"
    BY <1>2, ConstantsOK DEF ConstantsOK, Settles, Lasting
  <2> QED
    BY <1>2, <2>2, <2>3, AnsweredSettle DEF Settles
<1> QED
  BY <1>1, <1>2 DEF HandStep

LEMMA AnsweredInit == Init => Answered
<1> SUFFICES ASSUME Init
             PROVE  Answered
  OBVIOUS
<1>1. \A r \in Requests : InHand(r) /\ answers[r] = <<>>
  BY DEF Init, InHand
<1> QED
  BY <1>1 DEF Answered, AnsweredOnce, EveryCallAnswered

LEMMA AnswersInvariant == Spec => []Answered
<1>1. Init => TypeOK /\ PlaceInv /\ Answered
  BY TypeInit, PlaceInit, AnsweredInit
<1>2. TypeOK /\ PlaceInv /\ Answered /\ [Next]_vars
        => (TypeOK /\ PlaceInv /\ Answered)'
  BY TypeStep, PlaceStep, EveryStepHands, AnsweredStep
<1> QED
  BY <1>1, <1>2, PTL DEF Spec

(* No request is answered twice or before the server is done with it, on    *)
(* any path through onRecv and handle.                                      *)
THEOREM OneAnswer == Spec => []AnsweredOnce
BY AnswersInvariant, PTL DEF Answered

(* No call is forgotten: one without an answer asked for none, was not      *)
(* understood, panicked, or has lost its connection.                        *)
THEOREM NoCallForgotten == Spec => []EveryCallAnswered
BY AnswersInvariant, PTL DEF Answered

-----------------------------------------------------------------------------
(* A step of the life of a server is one of RpcServer, or leaves everything *)
(* as it is and ends the process.                                           *)

Ends == crashed' = TRUE /\ UNCHANGED <<connVars, reqCh, workVars, answers, released>>

LEMMA LifeStep == [LifeNext]_allVars => [Next]_vars \/ Ends
<1> SUFFICES ASSUME [LifeNext]_allVars
             PROVE  [Next]_vars \/ Ends
  OBVIOUS
<1>1. CASE MainStep
  <2>1. CASE Cancel
    BY <2>1 DEF Cancel, Next
  <2>2. CASE Listen
    BY <2>2 DEF Listen, Ends
  <2>3. CASE Bind \/ StartAsync \/ StartWorkers \/ CloseSocket
    BY <2>3 DEF Bind, StartAsync, StartWorkers, CloseSocket
  <2> QED
    BY <1>1, <2>1, <2>2, <2>3 DEF MainStep
<1>2. CASE Destroy \/ ReleaseAgain
  BY <1>2 DEF Destroy, ReleaseAgain, Ends
<1>3. CASE \E k \in Conns : ReaderStep(k)
  BY <1>3 DEF ReaderStep, Next
<1>4. CASE \E w \in Workers : WorkerStep(w)
  BY <1>4 DEF Next
<1>5. CASE UNCHANGED allVars
  BY <1>5 DEF allVars
<1> QED
  BY <1>1, <1>2, <1>3, <1>4, <1>5 DEF LifeNext

SInv == TypeOK /\ QueueBound /\ CountersExact /\ PlaceInv /\ Answered

LEMMA ServerStep == SInv /\ [Next]_vars => SInv'
<1> SUFFICES ASSUME SInv, [Next]_vars
             PROVE  SInv'
  OBVIOUS
<1>1. TypeOK'
  BY TypeStep DEF SInv
<1>2. QueueBound'
  BY <1>1, QueueStep DEF SInv
<1>3. CountersExact'
  BY ReqsStep, ConnsStep DEF SInv, CountersExact
<1>4. PlaceInv' /\ Answered'
  BY PlaceStep, EveryStepHands, AnsweredStep DEF SInv
<1> QED
  BY <1>1, <1>2, <1>3, <1>4 DEF SInv

LEMMA ServerEnds == SInv /\ Ends => SInv'
<1> SUFFICES ASSUME SInv, Ends
             PROVE  SInv'
  OBVIOUS
<1> USE DEF SInv, Ends, connVars, workVars
<1>1. TypeOK'
  BY DEF TypeOK
<1>2. QueueBound'
  BY DEF QueueBound, Pushing
<1>3. CountersExact'
  BY DEF CountersExact, Handling, OpenConns, Open
<1>4. PlaceInv'
  BY DEF PlaceInv, UnsentInv, HeldInv, QueueInv, JobInv, SentInv, Queued
<1>5. Answered'
  BY DEF Answered, AnsweredOnce, EveryCallAnswered, InHand, Queued
<1> QED
  BY <1>1, <1>2, <1>3, <1>4, <1>5

LEMMA LifeHands == SInv /\ [LifeNext]_allVars => HandStep
<1> SUFFICES ASSUME SInv, [LifeNext]_allVars
             PROVE  HandStep
  OBVIOUS
<1>1. CASE [Next]_vars
  BY <1>1, EveryStepHands DEF SInv
<1>2. CASE Ends
  BY <1>2 DEF Ends, HandStep, Carries, Lasting, InHand, Queued, connVars, workVars
<1> QED
  BY <1>1, <1>2, LifeStep

LEMMA ServerInit == LifeInit => SInv
BY TypeInit, QueueInit, CountersInit, PlaceInit, AnsweredInit DEF LifeInit, SInv

LEMMA LifeInvariant == LifeSpec => []SInv
BY ServerInit, ServerStep, ServerEnds, LifeStep, PTL DEF LifeSpec

(* Whatever Run, Release and a registration that fails do to the process,   *)
(* a request is answered once, and not before the server is done with it.   *)
THEOREM LifeOneAnswer == LifeSpec => []AnsweredOnce
BY LifeInvariant, PTL DEF SInv, Answered

(* From the first connection to the last a call that the server is done     *)
(* with has been answered, or there was a reason not to.                    *)
THEOREM LifeNoCallForgotten == LifeSpec => []EveryCallAnswered
BY LifeInvariant, PTL DEF SInv, Answered

(* The counters are exact before, while and after a server is registered.   *)
THEOREM LifeCountersCorrect == LifeSpec => []CountersExact
BY LifeInvariant, PTL DEF SInv

(* Readers never block on the queue, also when Release has ended the        *)
(* workers and nobody takes from it.                                        *)
THEOREM LifeReadersFree == LifeSpec => []ReadersNeverBlock
BY LifeInvariant, BoundFreesReaders, PTL DEF SInv
=============================================================================
