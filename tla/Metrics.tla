------------------------------ MODULE Metrics ------------------------------
(***************************************************************************)
(* The metrics of a process: metrics/metrics.go with kafka/product.go.     *)
(*                                                                         *)
(* Counter, CounterByAdd, MethodCode and Summary build a metric and end in *)
(* obj().to(metric).  The first of them to run creates the producer and    *)
(* starts the loop, inside a sync.Once; to puts the metric into the        *)
(* buffered channel mCh or drops it; the loop collects what is there until *)
(* its ticker fires and publishes it in batches.                           *)
(***************************************************************************)
EXTENDS Integers, Sequences, FiniteSets

CONSTANTS Callers,   \* the goroutines that report: readers, workers, calls
          MaxCalls,  \* bound on the metrics a goroutine reports
          MaxCh,     \* the capacity of mCh: 10000 in the code
          Margin,    \* what to keeps free of it: 10 in the code
          MaxPush    \* the most metrics in a batch: 1000 in the code

ASSUME ConstantsOK ==
  /\ IsFiniteSet(Callers)
  /\ MaxCalls \in Nat
  /\ MaxCh \in Nat \ {0}
  /\ Margin \in 0 .. MaxCh
  /\ MaxPush \in Nat \ {0}

(* A metric is named after its caller and the number of its call.           *)
Items == Callers \X (1 .. MaxCalls)

VARIABLES
  pc,        \* where each goroutine is in obj().to
  calls,     \* how many metrics it has built
  once,      \* the sync.Once: "new", "running" or "done"
  mCh,       \* the channel, of no use before _m is set
  created,   \* whether _m has been set
  lpc,       \* where the loop is
  lists,     \* what it has collected, or has still to report
  published, \* the batches the producer has sent
  lost       \* the batches it failed on

callVars == <<pc, calls>>
onceVars == <<once, created>>
loopVars == <<lpc, lists>>
outVars  == <<published, lost>>
vars == <<callVars, onceVars, mCh, loopVars, outVars>>

Init ==
  /\ pc = [c \in Callers |-> "idle"]
  /\ calls = [c \in Callers |-> 0]
  /\ once = "new"
  /\ mCh = <<>>
  /\ created = FALSE
  /\ lpc = "none"
  /\ lists = <<>>
  /\ published = <<>>
  /\ lost = <<>>

-----------------------------------------------------------------------------
(* The callers. *)

At(c, from, to) == pc[c] = from /\ pc' = [pc EXCEPT ![c] = to]

(* A metric is built: Counter, CounterByAdd, MethodCode or Summary.         *)
Call(c) ==
  /\ calls[c] < MaxCalls
  /\ At(c, "idle", "obj")
  /\ calls' = [calls EXCEPT ![c] = @ + 1]
  /\ UNCHANGED <<onceVars, mCh, loopVars, outVars>>

(* Mutation of OnceBegins: obj asks whether _m is nil, without a once.      *)
OnceBeginsUnlocked(c) ==
  /\ ~ created
  /\ At(c, "obj", "create")
  /\ once' = "running"
  /\ UNCHANGED <<calls, created, mCh, loopVars, outVars>>

(* obj: the first caller is the one to run the function of the once.        *)
OnceBegins(c) ==
  /\ once = "new"
  /\ At(c, "obj", "create")
  /\ once' = "running"
  /\ UNCHANGED <<calls, created, mCh, loopVars, outVars>>

Creates(c) ==
  /\ At(c, "create", "to")
  /\ once' = "done"
  /\ created' = TRUE
  /\ lpc' = "collect"
  /\ UNCHANGED <<calls, mCh, lists, outVars>>

(* Mutation of CreateFails: the panic leaves the once locked.               *)
CreateFailsLocked(c) ==
  /\ At(c, "create", "panicked")
  /\ UNCHANGED <<calls, onceVars, mCh, loopVars, outVars>>

(* NewProduct panics when no broker answers: _m stays nil, and the once is  *)
(* spent.                                                                   *)
CreateFails(c) ==
  /\ At(c, "create", "panicked")
  /\ once' = "done"
  /\ UNCHANGED <<calls, created, mCh, loopVars, outVars>>

(* The others wait for the function to end, however it does; then to looks  *)
(* into a nil object and panics, or has one.                                *)
OncePassed(c) ==
  /\ once = "done"
  /\ At(c, "obj", IF created THEN "to" ELSE "panicked")
  /\ UNCHANGED <<calls, onceVars, mCh, loopVars, outVars>>

(* Mutation of To: the channel is not looked at.                            *)
ToUnchecked(c) ==
  /\ At(c, "to", "send")
  /\ UNCHANGED <<calls, onceVars, mCh, loopVars, outVars>>

(* to: the length of the channel is looked at, and by the time of the send  *)
(* it may be another.                                                       *)
To(c) ==
  /\ At(c, "to", IF MaxCh - Margin < Len(mCh) THEN "idle" ELSE "send")
  /\ UNCHANGED <<calls, onceVars, mCh, loopVars, outVars>>

(* The send blocks while the channel is full.                               *)
Send(c) ==
  /\ Len(mCh) < MaxCh
  /\ At(c, "send", "idle")
  /\ mCh' = Append(mCh, <<c, calls[c]>>)
  /\ UNCHANGED <<calls, onceVars, loopVars, outVars>>

-----------------------------------------------------------------------------
(* The loop. *)

Collect ==
  /\ lpc = "collect"
  /\ mCh # <<>>
  /\ lists' = Append(lists, Head(mCh))
  /\ mCh' = Tail(mCh)
  /\ UNCHANGED <<callVars, onceVars, lpc, outVars>>

(* Mutation of Tick: only a full batch is reported.                         *)
TickWhenFull ==
  /\ lpc = "collect"
  /\ lpc' = IF Len(lists) < MaxPush THEN "collect" ELSE "combine"
  /\ UNCHANGED <<callVars, onceVars, mCh, lists, outVars>>

(* The ticker: combine has nothing to do with an empty list.                *)
Tick ==
  /\ lpc = "collect"
  /\ lpc' = IF lists = <<>> THEN "collect" ELSE "combine"
  /\ UNCHANGED <<callVars, onceVars, mCh, lists, outVars>>

(* What one batch takes of the list, and what it leaves.                    *)
Batch == IF MaxPush < Len(lists) THEN SubSeq(lists, 1, MaxPush) ELSE lists

(* Mutation of Rest: the next batch starts with the last metric of this one.*)
RestOverlaps == IF MaxPush < Len(lists) THEN SubSeq(lists, MaxPush, Len(lists)) ELSE <<>>

Rest == IF MaxPush < Len(lists) THEN SubSeq(lists, MaxPush + 1, Len(lists)) ELSE <<>>

(* combine, one batch: report logs an error of Marshal or of the producer   *)
(* and goes on.                                                             *)
Report ==
  /\ lpc = "combine"
  /\ \/ published' = Append(published, Batch) /\ UNCHANGED lost
     \/ lost' = Append(lost, Batch)           /\ UNCHANGED published
  /\ lists' = Rest
  /\ lpc' = IF Rest = <<>> THEN "collect" ELSE "combine"
  /\ UNCHANGED <<callVars, onceVars, mCh>>

-----------------------------------------------------------------------------

CallerStep(c) == \/ OnceBegins(c) \/ Creates(c) \/ CreateFails(c)
                 \/ OncePassed(c) \/ To(c) \/ Send(c)

LoopStep == Collect \/ Tick \/ Report

Next == \/ \E c \in Callers : Call(c) \/ CallerStep(c)
        \/ LoopStep

Spec == Init /\ [][Next]_vars

(* Goroutines are scheduled, a select takes each of its cases in the end,   *)
(* and the producer answers, with an error after its retries if need be.    *)
FairSpec == /\ Spec
            /\ \A c \in Callers : WF_vars(CallerStep(c))
            /\ WF_vars(Collect)
            /\ WF_vars(Tick)
            /\ WF_vars(Report)

-----------------------------------------------------------------------------
(* Properties. *)

(* Types; the loop runs exactly when there is an object, and has something  *)
(* to report when it reports.                                               *)
TypeOK ==
  /\ pc \in [Callers -> {"idle", "obj", "create", "to", "send", "panicked"}]
  /\ calls \in [Callers -> 0 .. MaxCalls]
  /\ once \in {"new", "running", "done"}
  /\ mCh \in Seq(Items)
  /\ created \in BOOLEAN
  /\ lpc \in {"none", "collect", "combine"}
  /\ lists \in Seq(Items)
  /\ published \in Seq(Seq(Items))
  /\ lost \in Seq(Seq(Items))
  /\ created <=> lpc # "none"
  /\ lpc = "combine" => lists # <<>>

Creating == {c \in Callers : pc[c] = "create"}
Sending  == {c \in Callers : pc[c] = "send"}

(* The loop and the producer are created at most once, and nobody has the   *)
(* object before: a second loop would split the metrics and reorder them.   *)
OneLoop ==
  /\ once = "running" <=> Creating # {}
  /\ \A c, d \in Creating : c = d
  /\ once # "done" => ~ created
  /\ \A c \in Callers : pc[c] \in {"to", "send"} => created
  /\ \A c \in Callers : pc[c] = "panicked" => once = "done" /\ ~ created

(* to looks at the channel before it sends, and every goroutine may do so   *)
(* at once: each adds at most one metric to what the margin left.           *)
ChannelBound == Len(mCh) + Cardinality(Sending) <= MaxCh - Margin + Cardinality(Callers)

(* What has been accepted and not been handed over: the rest of the list    *)
(* before the channel.                                                      *)
Box == INSTANCE MetricsBox WITH pending <- lists \o mCh

(* However senders, ticks and batches follow each other, what has been      *)
(* accepted is handed to the producer once, in order, in batches that fit.  *)
ImplementsBox == Box!Spec

(* A call ends, also while the channel is full or the producer is created,  *)
(* if only by the panic that follows a producer that could not be created.  *)
CallsEnd == \A c \in Callers : pc[c] \notin {"idle", "panicked"} ~> pc[c] \in {"idle", "panicked"}

Waiting(it) == \E i \in 1 .. Len(lists \o mCh) : (lists \o mCh)[i] = it

(* What the channel has taken in does not stay there, whatever batches fail.*)
AcceptedIsReported == \A it \in Items : Waiting(it) ~> ~ Waiting(it)
=============================================================================
