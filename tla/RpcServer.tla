----------------------------- MODULE RpcServer -----------------------------
(***************************************************************************)
(* The server side of an RPC: server/server.go with the accept loop of     *)
(* transport/listener.go.                                                  *)
(*                                                                         *)
(* A reader goroutine per connection calls onRecv for every request: it    *)
(* refuses the request with code 500 when the queue reqCh is nearly full,  *)
(* and otherwise pushes it.  The goRecv workers take requests from the     *)
(* queue and handle them: ask the limiter, call the method, reply on the   *)
(* connection of the request.  Release ends the workers, and neither the   *)
(* accept loop nor the readers.                                            *)
(***************************************************************************)
EXTENDS Integers, Sequences, FiniteSets

CONSTANTS Conns,      \* the connections clients open
          Requests,   \* the requests they send, each of them once
          ConnOf,     \* the connection a request is sent on
          OnlyCalls,  \* the requests with the header onlyCall
          Garbage,    \* those whose packet does not unmarshal
          Unknown,    \* those whose RpcId has no method
          Workers,    \* the goRecv goroutines: server/coroutines
          Cap,        \* the capacity of reqCh: server/channels
          Margin,     \* what onRecv keeps free of it: 10 in the code
          Nil         \* no request in hand

ASSUME ConstantsOK ==
  /\ IsFiniteSet(Conns)
  /\ IsFiniteSet(Workers)
  /\ ConnOf \in [Requests -> Conns]
  /\ OnlyCalls \subseteq Requests
  /\ Garbage \subseteq Requests
  /\ Unknown \subseteq Requests
  /\ Cap \in Nat \ {0}
  /\ Margin \in 0 .. Cap
  /\ Nil \notin Requests

Codes == {0, 405, 500, 505}

VARIABLES
  unsent,    \* the requests that no client has sent yet
  reader,    \* where the reader goroutine of each connection is
  held,      \* the request a reader is about to push, or Nil
  reqCh,     \* Server.reqCh, a buffered channel
  worker,    \* where each goRecv goroutine is
  job,       \* the request a worker is handling, or Nil
  answers,   \* the codes written to the connection of each request
  panicked,  \* the requests whose method panicked
  reqs,      \* Server.reqs
  conns,     \* Server.conns
  released,  \* whether Release has been called
  crashed    \* whether the process is gone

connVars   == <<unsent, reader, held, conns>>
workVars   == <<worker, job, panicked, reqs>>
globalVars == <<released, crashed>>
vars == <<connVars, reqCh, workVars, answers, globalVars>>

Init ==
  /\ unsent   = Requests
  /\ reader   = [k \in Conns |-> "none"]
  /\ held     = [k \in Conns |-> Nil]
  /\ reqCh    = <<>>
  /\ worker   = [w \in Workers |-> "idle"]
  /\ job      = [w \in Workers |-> Nil]
  /\ answers  = [r \in Requests |-> <<>>]
  /\ panicked = {}
  /\ reqs     = 0
  /\ conns    = 0
  /\ released = FALSE
  /\ crashed  = FALSE

-----------------------------------------------------------------------------
(* Connections and their readers. *)

Open(k) == reader[k] \in {"read", "push"}

(* reply: a write to a closed connection fails, and nobody looks.           *)
Reply(r, code) ==
  answers' = IF Open(ConnOf[r]) THEN [answers EXCEPT ![r] = Append(@, code)]
                                ELSE answers

Accept(k) ==
  /\ ~ crashed
  /\ reader[k] = "none"
  /\ reader' = [reader EXCEPT ![k] = "read"]
  /\ conns' = conns + 1
  /\ UNCHANGED <<unsent, held, reqCh, workVars, answers, globalVars>>

Full == Cap - Margin < Len(reqCh)

(* The next request of a connection, r, has been read.                      *)
Receives(k, r) ==
  /\ ~ crashed
  /\ reader[k] = "read"
  /\ r \in unsent
  /\ ConnOf[r] = k
  /\ unsent' = unsent \ {r}
  /\ UNCHANGED <<reqCh, workVars, conns, globalVars>>

Keep(k, r) ==
  /\ reader' = [reader EXCEPT ![k] = "push"]
  /\ held' = [held EXCEPT ![k] = r]

Refuse(r) == IF r \in Garbage THEN UNCHANGED answers ELSE Reply(r, 500)

(* Mutation of OnRecv: the return after the refusal is missing.             *)
OnRecvFallsThrough(k, r) ==
  /\ Receives(k, r)
  /\ Keep(k, r)
  /\ IF Full THEN Refuse(r) ELSE UNCHANGED answers

(* Mutation of OnRecv: the queue is used to the last place.                 *)
OnRecvNoMargin(k, r) ==
  /\ Receives(k, r)
  /\ IF Cap <= Len(reqCh) THEN Refuse(r) /\ UNCHANGED <<reader, held>>
                          ELSE Keep(k, r) /\ UNCHANGED answers

(* onRecv up to the push: the length of reqCh is looked at, and by the time *)
(* of the push it may be another.                                           *)
OnRecv(k, r) ==
  /\ Receives(k, r)
  /\ \/ Full   /\ Refuse(r)  /\ UNCHANGED <<reader, held>>
     \/ ~ Full /\ Keep(k, r) /\ UNCHANGED answers

(* The push blocks while the queue is full, and with it the reader.         *)
Push(k) ==
  /\ ~ crashed
  /\ reader[k] = "push"
  /\ Len(reqCh) < Cap
  /\ reqCh' = Append(reqCh, held[k])
  /\ reader' = [reader EXCEPT ![k] = "read"]
  /\ held' = [held EXCEPT ![k] = Nil]
  /\ UNCHANGED <<unsent, conns, workVars, answers, globalVars>>

(* The peer hangs up, the read deadline passes, a frame is not understood.  *)
Close(k) ==
  /\ ~ crashed
  /\ reader[k] = "read"
  /\ reader' = [reader EXCEPT ![k] = "closed"]
  /\ conns' = conns - 1
  /\ UNCHANGED <<unsent, held, reqCh, workVars, answers, globalVars>>

-----------------------------------------------------------------------------
(* Workers. *)

At(w, from, to) ==
  /\ ~ crashed
  /\ worker[w] = from
  /\ worker' = [worker EXCEPT ![w] = to]

(* A request is taken; one that cannot be handled is dropped with an error  *)
(* that only the log sees.                                                  *)
Take(w) ==
  /\ ~ crashed
  /\ worker[w] = "idle"
  /\ reqCh # <<>>
  /\ reqCh' = Tail(reqCh)
  /\ IF Head(reqCh) \in Garbage \cup Unknown
       THEN UNCHANGED <<worker, job, reqs>>
       ELSE /\ worker' = [worker EXCEPT ![w] = "limiter"]
            /\ job' = [job EXCEPT ![w] = Head(reqCh)]
            /\ reqs' = reqs + 1
  /\ UNCHANGED <<connVars, panicked, answers, globalVars>>

(* Mutation of Limited: the error is logged and no reply is written.        *)
LimitedSilently(w) ==
  /\ At(w, "limiter", "leave")
  /\ UNCHANGED <<connVars, reqCh, job, answers, panicked, reqs, globalVars>>

Limited(w) ==
  /\ At(w, "limiter", "leave")
  /\ Reply(job[w], 405)
  /\ UNCHANGED <<connVars, reqCh, job, panicked, reqs, globalVars>>

Admitted(w) ==
  /\ At(w, "limiter", "method")
  /\ UNCHANGED <<connVars, reqCh, job, panicked, reqs, answers, globalVars>>

MethodReturns(w) ==
  /\ At(w, "method", "leave")
  /\ IF job[w] \in OnlyCalls THEN UNCHANGED answers ELSE Reply(job[w], 0)
  /\ UNCHANGED <<connVars, reqCh, job, panicked, reqs, globalVars>>

(* Mutation of MethodFails: the worker returns with its last error.         *)
MethodFailsForGood(w) ==
  /\ At(w, "method", "exit")
  /\ Reply(job[w], 505)
  /\ job' = [job EXCEPT ![w] = Nil]
  /\ reqs' = reqs - 1
  /\ UNCHANGED <<connVars, reqCh, panicked, globalVars>>

MethodFails(w) ==
  /\ At(w, "method", "leave")
  /\ Reply(job[w], 505)
  /\ UNCHANGED <<connVars, reqCh, job, panicked, reqs, globalVars>>

(* Mutation of MethodPanics: decReq is not deferred and a panic skips it.   *)
MethodPanicsUncounted(w) ==
  /\ At(w, "method", "idle")
  /\ panicked' = panicked \cup {job[w]}
  /\ job' = [job EXCEPT ![w] = Nil]
  /\ UNCHANGED <<connVars, reqCh, reqs, answers, globalVars>>

(* The deferred functions of handle run, no reply is written.               *)
MethodPanics(w) ==
  /\ At(w, "method", "leave")
  /\ panicked' = panicked \cup {job[w]}
  /\ UNCHANGED <<connVars, reqCh, job, reqs, answers, globalVars>>

(* The recover of handle asserts that the value it got is an error; with    *)
(* any other value it panics itself and takes the process down.             *)
MethodPanicsWithValue(w) ==
  /\ ~ crashed
  /\ worker[w] = "method"
  /\ crashed' = TRUE
  /\ UNCHANGED <<connVars, reqCh, workVars, answers, released>>

(* The deferred decReq.                                                     *)
Leave(w) ==
  /\ At(w, "leave", "idle")
  /\ reqs' = reqs - 1
  /\ job' = [job EXCEPT ![w] = Nil]
  /\ UNCHANGED <<connVars, reqCh, panicked, answers, globalVars>>

(* Mutation of Exit: a message on a channel, which one worker receives.     *)
ExitAlone(w) ==
  /\ released
  /\ \A v \in Workers : worker[v] # "exit"
  /\ At(w, "idle", "exit")
  /\ UNCHANGED <<connVars, reqCh, job, panicked, reqs, answers, globalVars>>

(* The select sees ctx.Done.                                                *)
Exit(w) ==
  /\ released
  /\ At(w, "idle", "exit")
  /\ UNCHANGED <<connVars, reqCh, job, panicked, reqs, answers, globalVars>>

Release ==
  /\ ~ crashed
  /\ ~ released
  /\ released' = TRUE
  /\ UNCHANGED <<connVars, reqCh, workVars, answers, crashed>>

-----------------------------------------------------------------------------

WorkerStep(w) == \/ Take(w) \/ Limited(w) \/ Admitted(w)
                 \/ MethodReturns(w) \/ MethodFails(w)
                 \/ MethodPanics(w) \/ MethodPanicsWithValue(w)
                 \/ Leave(w) \/ Exit(w)

Next == \/ \E k \in Conns : \/ Accept(k) \/ Push(k) \/ Close(k)
                            \/ \E r \in Requests : OnRecv(k, r)
        \/ \E w \in Workers : WorkerStep(w)
        \/ Release

Spec == Init /\ [][Next]_vars

(* Readers and workers are scheduled, the limiter answers and methods end.  *)
FairSpec == /\ Spec
            /\ \A k \in Conns : WF_vars(Push(k))
            /\ \A w \in Workers : WF_vars(WorkerStep(w))

-----------------------------------------------------------------------------
(* Properties. *)

(* Types; a reader at its push and a worker at its method hold a request.   *)
TypeOK ==
  /\ unsent \subseteq Requests
  /\ reader \in [Conns -> {"none", "read", "push", "closed"}]
  /\ held \in [Conns -> Requests \cup {Nil}]
  /\ reqCh \in Seq(Requests)
  /\ worker \in [Workers -> {"idle", "limiter", "method", "leave", "exit"}]
  /\ job \in [Workers -> Requests \cup {Nil}]
  /\ answers \in [Requests -> Seq(Codes)]
  /\ panicked \subseteq Requests
  /\ reqs \in Int
  /\ conns \in Int
  /\ released \in BOOLEAN
  /\ crashed \in BOOLEAN
  /\ \A k \in Conns : reader[k] = "push" <=> held[k] # Nil
  /\ \A w \in Workers : worker[w] \in {"limiter", "method", "leave"} <=> job[w] # Nil

Pushing == {k \in Conns : reader[k] = "push"}

(* onRecv looks at the length of the queue before it pushes, and every      *)
(* reader may do so at once: each adds at most one request to what the      *)
(* margin left.                                                             *)
QueueBound == Len(reqCh) + Cardinality(Pushing) <= Cap - Margin + Cardinality(Conns)

(* With no more connections than the margin has places, a reader that has   *)
(* decided to push never blocks: replies, pings and hang-ups of that        *)
(* connection are not held up by slow methods.                              *)
ReadersNeverBlock ==
  Cardinality(Conns) <= Margin => \A k \in Pushing : Len(reqCh) < Cap

Queued(r) == \E i \in 1 .. Len(reqCh) : reqCh[i] = r

(* A request the server has not finished with.                              *)
InHand(r) == \/ r \in unsent
             \/ \E k \in Conns : held[k] = r
             \/ Queued(r)
             \/ \E w \in Workers : worker[w] \in {"limiter", "method"} /\ job[w] = r

(* A request is answered at most once, and not before the server is done    *)
(* with it: a refusal, an error and a result exclude each other.            *)
AnsweredOnce ==
  \A r \in Requests : /\ Len(answers[r]) <= 1
                      /\ InHand(r) => answers[r] = <<>>

(* The server forgets no call: what it is done with has been answered,      *)
(* unless there was nothing to answer or nobody to answer to.               *)
EveryCallAnswered ==
  \A r \in Requests : ~ InHand(r) /\ answers[r] = <<>> =>
    \/ r \in OnlyCalls \cup Garbage \cup Unknown \cup panicked
    \/ reader[ConnOf[r]] = "closed"

Handling == {w \in Workers : worker[w] \in {"limiter", "method", "leave"}}
OpenConns == {k \in Conns : Open(k)}

(* The counters reported to metrics are exact: a panic, a refusal or an     *)
(* error leaves nothing behind.                                             *)
CountersExact ==
  /\ reqs  = Cardinality(Handling)
  /\ conns = Cardinality(OpenConns)

(* A request in the queue is taken in the end, whatever becomes of the ones *)
(* before it.                                                               *)
QueuedIsHandled ==
  \A r \in Requests : Queued(r) ~> (~ InHand(r) \/ released \/ crashed)
=============================================================================
