---------------------------- MODULE MetricsProofs ----------------------------
(***************************************************************************)
(* Theorems about Metrics, for any callers, channel, margin and batch that *)
(* ConstantsOK allows.                                                     *)
(***************************************************************************)
EXTENDS Metrics, FiniteSetTheorems, SequenceTheorems, TLAPS

-----------------------------------------------------------------------------
(* The inductive invariant. *)

(* A goroutine in obj().to is at a call with a number.                      *)
CallInv == \A c \in Callers : pc[c] # "idle" => calls[c] \in 1 .. MaxCalls

TInv == TypeOK /\ CallInv

-----------------------------------------------------------------------------
(* Types. *)

(* What a batch takes is the beginning of the list, and what it leaves is   *)
(* the end.                                                                 *)
LEMMA BatchProperties ==
  ASSUME TypeOK, lists # <<>>
  PROVE  \E n \in 1 .. MaxPush :
           /\ n <= Len(lists)
           /\ Batch = SubSeq(lists, 1, n)
           /\ Rest = SubSeq(lists, n + 1, Len(lists))
           /\ Batch \in Seq(Items) /\ Len(Batch) = n
           /\ \A i \in 1 .. n : Batch[i] = lists[i]
           /\ Rest \in Seq(Items) /\ Len(Rest) = Len(lists) - n
           /\ \A i \in 1 .. Len(lists) - n : Rest[i] = lists[n + i]
<1> DEFINE n == IF MaxPush < Len(lists) THEN MaxPush ELSE Len(lists)
<1>1. lists \in Seq(Items) /\ Len(lists) \in Nat \ {0}
  BY EmptySeq DEF TypeOK
<1>2. n \in 1 .. MaxPush /\ n <= Len(lists) /\ n \in Nat
  BY <1>1, ConstantsOK DEF ConstantsOK
<1>3. Batch = SubSeq(lists, 1, n)
  <2>1. SubSeq(lists, 1, Len(lists)) = lists
    BY <1>1, SubSeqFull
  <2> QED
    BY <2>1 DEF Batch
<1>4. Rest = SubSeq(lists, n + 1, Len(lists))
  <2>1. SubSeq(lists, Len(lists) + 1, Len(lists)) = <<>>
    BY <1>1, SubSeqEmpty
  <2> QED
    BY <2>1 DEF Rest
<1> HIDE DEF n
<1>5. \A i \in 1 .. Len(lists) : lists[i] \in Items
  BY <1>1, ElementOfSeq
<1>6. /\ SubSeq(lists, 1, n) \in Seq(Items)
      /\ Len(SubSeq(lists, 1, n)) = n
      /\ \A i \in 1 .. n : SubSeq(lists, 1, n)[i] = lists[i]
  <2>1. \A i \in 1 .. n : lists[i] \in Items
    BY <1>1, <1>2, <1>5
  <2> QED
    BY <1>2, <2>1
<1>7. /\ SubSeq(lists, n + 1, Len(lists)) \in Seq(Items)
      /\ Len(SubSeq(lists, n + 1, Len(lists))) = Len(lists) - n
      /\ \A i \in 1 .. Len(lists) - n :
           SubSeq(lists, n + 1, Len(lists))[i] = lists[n + i]
  <2>1. \A i \in n + 1 .. Len(lists) : lists[i] \in Items
    BY <1>1, <1>2, <1>5
  <2> QED
    BY <1>1, <1>2, <2>1
<1> QED
  BY <1>2, <1>3, <1>4, <1>6, <1>7

LEMMA CallerTypes ==
  ASSUME TInv, NEW c \in Callers, Call(c) \/ CallerStep(c)
  PROVE  TInv'
<1> USE ConstantsOK DEF ConstantsOK, TInv, TypeOK, CallInv, callVars, onceVars,
                        loopVars, outVars, At
<1>1. CASE Call(c)
  BY <1>1 DEF Call
<1>2. CASE OnceBegins(c)
  BY <1>2 DEF OnceBegins
<1>3. CASE Creates(c)
  BY <1>3 DEF Creates
<1>4. CASE CreateFails(c)
  BY <1>4 DEF CreateFails
<1>5. CASE OncePassed(c)
  BY <1>5 DEF OncePassed
<1>6. CASE To(c)
  BY <1>6 DEF To
<1>7. CASE Send(c)
  <2>1. <<c, calls[c]>> \in Items
    BY <1>7 DEF Send, Items
  <2>2. mCh' \in Seq(Items)
    BY <1>7, <2>1 DEF Send
  <2> QED
    BY <1>7, <2>2 DEF Send
<1> QED
  BY <1>1, <1>2, <1>3, <1>4, <1>5, <1>6, <1>7 DEF CallerStep

LEMMA LoopTypes ==
  ASSUME TInv, LoopStep
  PROVE  TInv'
<1> USE DEF TInv, TypeOK, CallInv, callVars, onceVars, loopVars, outVars
<1>1. CASE Collect
  <2>1. Head(mCh) \in Items /\ Tail(mCh) \in Seq(Items)
    BY <1>1 DEF Collect
  <2> QED
    BY <1>1, <2>1 DEF Collect
<1>2. CASE Tick
  BY <1>2 DEF Tick
<1>3. CASE Report
  <2>1. Batch \in Seq(Items) /\ Rest \in Seq(Items)
    BY <1>3, BatchProperties DEF Report
  <2>2. /\ Append(published, Batch) \in Seq(Seq(Items))
        /\ Append(lost, Batch) \in Seq(Seq(Items))
    BY <2>1, AppendProperties
  <2>3. published' \in Seq(Seq(Items)) /\ lost' \in Seq(Seq(Items))
    BY <1>3, <2>2 DEF Report
  <2> QED
    BY <1>3, <2>1, <2>3 DEF Report
<1> QED
  BY <1>1, <1>2, <1>3 DEF LoopStep

LEMMA TypeStep == TInv /\ [Next]_vars => TInv'
<1> SUFFICES ASSUME TInv, [Next]_vars
             PROVE  TInv'
  OBVIOUS
<1>1. CASE UNCHANGED vars
  BY <1>1 DEF vars, TInv, TypeOK, CallInv, callVars, onceVars, loopVars, outVars
<1> QED
  BY <1>1, CallerTypes, LoopTypes DEF Next

LEMMA TypeInit == Init => TInv
<1> SUFFICES ASSUME Init
             PROVE  TInv
  OBVIOUS
<1>1. CallInv
  BY DEF Init, CallInv
<1>2. /\ pc \in [Callers -> {"idle", "obj", "create", "to", "send", "panicked"}]
      /\ calls \in [Callers -> 0 .. MaxCalls]
  BY ConstantsOK DEF ConstantsOK, Init
<1>3. /\ mCh \in Seq(Items)
      /\ lists \in Seq(Items)
      /\ published \in Seq(Seq(Items))
      /\ lost \in Seq(Seq(Items))
  BY EmptySeq DEF Init
<1>4. created = FALSE /\ lpc = "none" /\ once = "new"
  BY DEF Init
<1>5. TypeOK
  BY <1>2, <1>3, <1>4 DEF TypeOK
<1> QED
  BY <1>1, <1>5 DEF TInv

(* Every variable keeps its type; the loop runs once there is an object,    *)
(* and has something to report when it reports.                             *)
THEOREM TypeCorrect == Spec => []TypeOK
BY TypeInit, TypeStep, PTL DEF Spec, TInv

-----------------------------------------------------------------------------
(* The once. *)

LEMMA OnceStep ==
  ASSUME TypeOK, OneLoop, [Next]_vars
  PROVE  OneLoop'
<1> USE DEF TypeOK, OneLoop, Creating, callVars, onceVars, At
<1>1. ASSUME NEW c \in Callers, Call(c)
      PROVE  OneLoop'
  BY <1>1 DEF Call
<1>2. ASSUME NEW c \in Callers, OnceBegins(c)
      PROVE  OneLoop'
  BY <1>2 DEF OnceBegins
<1>3. ASSUME NEW c \in Callers, Creates(c)
      PROVE  OneLoop'
  BY <1>3 DEF Creates
<1>4. ASSUME NEW c \in Callers, CreateFails(c)
      PROVE  OneLoop'
  BY <1>4 DEF CreateFails
<1>5. ASSUME NEW c \in Callers, OncePassed(c)
      PROVE  OneLoop'
  BY <1>5 DEF OncePassed
<1>6. ASSUME NEW c \in Callers, To(c)
      PROVE  OneLoop'
  BY <1>6 DEF To
<1>7. ASSUME NEW c \in Callers, Send(c)
      PROVE  OneLoop'
  BY <1>7 DEF Send
<1>8. CASE UNCHANGED <<callVars, onceVars>>
  BY <1>8
<1>9. ASSUME LoopStep \/ UNCHANGED vars
      PROVE  UNCHANGED <<callVars, onceVars>>
  BY <1>9 DEF LoopStep, Collect, Tick, Report, vars
<1> QED
  BY <1>1, <1>2, <1>3, <1>4, <1>5, <1>6, <1>7, <1>8, <1>9 DEF Next, CallerStep

LEMMA OnceInit == Init => OneLoop
BY DEF Init, OneLoop, Creating

(* Whoever comes first and however its function ends, the producer and the  *)
(* loop are created at most once, and used by nobody before.                *)
THEOREM OneLoopOnly == Spec => []OneLoop
BY TypeInit, TypeStep, OnceInit, OnceStep, PTL DEF Spec, TInv

-----------------------------------------------------------------------------
(* The channel. *)

LEMMA SendingFinite ==
  /\ IsFiniteSet(Sending)
  /\ Cardinality(Sending) \in Nat
  /\ Cardinality(Callers) \in Nat
  /\ Cardinality(Sending) <= Cardinality(Callers)
BY ConstantsOK, FS_Subset, FS_CardinalityType DEF ConstantsOK, Sending

LEMMA ChannelStep ==
  ASSUME TypeOK, TypeOK', ChannelBound, [Next]_vars
  PROVE  ChannelBound'
<1> USE ConstantsOK DEF ConstantsOK, ChannelBound
<1>1. /\ IsFiniteSet(Sending)
      /\ Cardinality(Sending) \in Nat
      /\ Cardinality(Callers) \in Nat
  BY SendingFinite
<1>2. /\ Cardinality(Sending') \in Nat
      /\ Cardinality(Sending') <= Cardinality(Callers)
  <2>1. Sending' \subseteq Callers
    BY DEF Sending
  <2> QED
    BY <2>1, FS_Subset, FS_CardinalityType
<1>3. Len(mCh) \in Nat
  BY DEF TypeOK
<1>4. ASSUME Sending' = Sending, Len(mCh') <= Len(mCh), Len(mCh') \in Nat
      PROVE  ChannelBound'
  BY <1>1, <1>3, <1>4
<1>5. ASSUME NEW c \in Callers, To(c)
      PROVE  ChannelBound'
  <2>1. mCh' = mCh
    BY <1>5 DEF To
  <2>2. CASE MaxCh - Margin < Len(mCh)
    <3>1. Sending' = Sending
      BY <1>5, <2>2 DEF To, At, Sending, TypeOK
    <3> QED
      BY <1>3, <1>4, <2>1, <3>1
  <2>3. CASE Len(mCh) <= MaxCh - Margin
    BY <1>1, <1>2, <1>3, <2>1, <2>3
  <2> QED
    BY <1>3, <2>2, <2>3
<1>6. ASSUME NEW c \in Callers, Send(c)
      PROVE  ChannelBound'
  <2>1. /\ Len(mCh') = Len(mCh) + 1
        /\ c \in Sending
        /\ Sending' = Sending \ {c}
    BY <1>6 DEF Send, At, Sending, TypeOK
  <2>2. Cardinality(Sending') = Cardinality(Sending) - 1
    BY <1>1, <2>1, FS_RemoveElement
  <2> QED
    BY <1>1, <1>3, <2>1, <2>2
<1>7. ASSUME NEW c \in Callers,
             \/ Call(c) \/ OnceBegins(c) \/ Creates(c)
             \/ CreateFails(c) \/ OncePassed(c)
      PROVE  ChannelBound'
  <2>1. Sending' = Sending /\ mCh' = mCh
    BY <1>7 DEF Call, OnceBegins, Creates, CreateFails, OncePassed, At,
                Sending, TypeOK
  <2> QED
    BY <1>3, <1>4, <2>1
<1>8. CASE Collect
  <2>1. Sending' = Sending
    BY <1>8 DEF Collect, callVars, Sending
  <2>2. Len(mCh') \in Nat /\ Len(mCh') <= Len(mCh)
    BY <1>8 DEF Collect, TypeOK
  <2> QED
    BY <1>4, <2>1, <2>2
<1>9. CASE UNCHANGED <<pc, mCh>>
  BY <1>3, <1>4, <1>9 DEF Sending
<1>10. ASSUME Tick \/ Report \/ UNCHANGED vars
       PROVE  UNCHANGED <<pc, mCh>>
  BY <1>10 DEF Tick, Report, vars, callVars
<1> QED
  BY <1>5, <1>6, <1>7, <1>8, <1>9, <1>10 DEF Next, CallerStep, LoopStep

LEMMA ChannelInit == Init => ChannelBound
<1> SUFFICES ASSUME Init
             PROVE  ChannelBound
  OBVIOUS
<1>1. Len(mCh) = 0 /\ Sending = {}
  BY DEF Init, Sending
<1> QED
  BY <1>1, SendingFinite, FS_EmptySet, ConstantsOK DEF ConstantsOK, ChannelBound

(* However callers interleave between their look at the length of the       *)
(* channel and their send, they overrun the margin by one metric each.      *)
THEOREM ChannelBounded == Spec => []ChannelBound
BY TypeInit, TypeStep, ChannelInit, ChannelStep, PTL DEF Spec, TInv

-----------------------------------------------------------------------------
(* The refinement of MetricsBox. *)

(* A metric the loop collects moves from the channel to the list.           *)
LEMMA CollectKeeps ==
  ASSUME NEW S, NEW s \in Seq(S), NEW t \in Seq(S), t # <<>>
  PROVE  Append(s, Head(t)) \o Tail(t) = s \o t
<1>1. /\ Head(t) \in S
      /\ Tail(t) \in Seq(S)
      /\ t = <<Head(t)>> \o Tail(t)
  BY HeadTailProperties
<1>2. Append(s, Head(t)) = s \o <<Head(t)>>
  BY <1>1, AppendIsConcat
<1>3. <<Head(t)>> \in Seq(S)
  BY <1>1
<1> QED
  BY <1>1, <1>2, <1>3, ConcatAssociative

(* A metric that is sent comes last.                                        *)
LEMMA SendAppends ==
  ASSUME NEW S, NEW s \in Seq(S), NEW t \in Seq(S), NEW e \in S
  PROVE  s \o Append(t, e) = Append(s \o t, e)
<1>1. Append(t, e) = t \o <<e>> /\ <<e>> \in Seq(S)
  BY AppendIsConcat
<1>2. s \o t \in Seq(S)
  BY ConcatProperties
<1>3. Append(s \o t, e) = (s \o t) \o <<e>>
  BY <1>2, AppendIsConcat
<1> QED
  BY <1>1, <1>3, ConcatAssociative

(* The beginning of a list is the beginning of all that waits, and what     *)
(* waits after it is the rest of the list and the channel.                  *)
LEMMA BatchOfBoth ==
  ASSUME NEW S, NEW s \in Seq(S), NEW t \in Seq(S),
         NEW n \in 1 .. Len(s)
  PROVE  /\ n <= Len(s \o t)
         /\ SubSeq(s \o t, 1, n) = SubSeq(s, 1, n)
         /\ SubSeq(s \o t, n + 1, Len(s \o t)) = SubSeq(s, n + 1, Len(s)) \o t
<1> DEFINE st   == s \o t
           tail == SubSeq(st, n + 1, Len(st))
           rest == SubSeq(s, n + 1, Len(s))
<1>1. /\ st \in Seq(S)
      /\ Len(st) = Len(s) + Len(t)
      /\ \A i \in 1 .. Len(s) + Len(t) :
           st[i] = IF i <= Len(s) THEN s[i] ELSE t[i - Len(s)]
  BY ConcatProperties
<1>2. Len(s) \in Nat /\ Len(t) \in Nat /\ n \in Nat
  BY LenProperties
<1>3. n <= Len(st)
  BY <1>1, <1>2
<1>4. SubSeq(st, 1, n) = SubSeq(s, 1, n)
  <2>1. Len(s) >= 1 /\ 1 \in 1 .. Len(s)
    BY <1>2
  <2> QED
    BY <2>1, SubSeqOfConcat1
<1>5. /\ rest \in Seq(S)
      /\ Len(rest) = Len(s) - n
      /\ \A i \in 1 .. Len(s) - n : rest[i] = s[n + i]
  <2>1. \A i \in n + 1 .. Len(s) : s[i] \in S
    BY <1>2, ElementOfSeq
  <2>2. n + 1 \in Int /\ Len(s) \in Int
    BY <1>2
  <2> QED
    BY <1>2, <2>1, <2>2
<1>6. /\ tail \in Seq(S)
      /\ Len(tail) = Len(st) - n
      /\ \A i \in 1 .. Len(st) - n : tail[i] = st[n + i]
  <2>1. \A i \in n + 1 .. Len(st) : st[i] \in S
    BY <1>1, <1>2, ElementOfSeq
  <2>2. n + 1 \in Int /\ Len(st) \in Int
    BY <1>1, <1>2
  <2> HIDE DEF st
  <2> QED
    BY <1>1, <1>2, <1>3, <2>1, <2>2
<1> HIDE DEF st, tail, rest
<1>7. /\ rest \o t \in Seq(S)
      /\ Len(rest \o t) = Len(rest) + Len(t)
      /\ \A i \in 1 .. Len(rest) + Len(t) :
           (rest \o t)[i] = IF i <= Len(rest) THEN rest[i] ELSE t[i - Len(rest)]
  BY <1>5, ConcatProperties
<1>8. Len(tail) = Len(rest \o t)
  BY <1>1, <1>2, <1>5, <1>6, <1>7
<1>9. ASSUME NEW i \in 1 .. Len(tail)
      PROVE  tail[i] = (rest \o t)[i]
  <2>1. i \in 1 .. Len(s) + Len(t) - n /\ i \in Nat
    BY <1>1, <1>2, <1>6
  <2>2. tail[i] = st[n + i] /\ n + i \in 1 .. Len(s) + Len(t)
    BY <1>1, <1>2, <1>6, <2>1
  <2>3. CASE i <= Len(s) - n
    <3>1. st[n + i] = s[n + i]
      BY <1>1, <1>2, <2>1, <2>2, <2>3
    <3>2. (rest \o t)[i] = s[n + i]
      BY <1>2, <1>5, <1>7, <2>1, <2>3
    <3> QED
      BY <2>2, <3>1, <3>2
  <2>4. CASE i > Len(s) - n
    <3>1. st[n + i] = t[(n + i) - Len(s)]
      BY <1>1, <1>2, <2>1, <2>2, <2>4
    <3>2. (rest \o t)[i] = t[i - (Len(s) - n)]
      BY <1>2, <1>5, <1>7, <2>1, <2>4
    <3>3. (n + i) - Len(s) = i - (Len(s) - n)
      BY <1>2, <2>1
    <3> QED
      BY <2>2, <3>1, <3>2, <3>3
  <2>5. i <= Len(s) - n \/ i > Len(s) - n
    BY <1>2, <2>1
  <2> QED
    BY <2>3, <2>4, <2>5
<1>10. tail = rest \o t
  BY <1>6, <1>7, <1>8, <1>9, SeqEqual
<1> QED
  BY <1>3, <1>4, <1>10 DEF st, tail, rest

LEMMA BoxInit == Init => Box!Init
BY DEF Init, Box!Init

LEMMA BoxStep ==
  ASSUME TInv, [Next]_vars
  PROVE  [Box!Next]_Box!vars
<1>1. /\ lists \in Seq(Items)
      /\ mCh \in Seq(Items)
  BY DEF TInv, TypeOK
<1>2. ASSUME UNCHANGED <<mCh, lists, outVars>>
      PROVE  UNCHANGED Box!vars
  BY <1>2 DEF Box!vars, outVars
<1>3. ASSUME NEW c \in Callers, Send(c)
      PROVE  Box!Next
  <2>1. <<c, calls[c]>> \in Items
    BY <1>3 DEF Send, At, Items, TInv, CallInv
  <2>2. lists' \o mCh' = Append(lists \o mCh, <<c, calls[c]>>)
    BY <1>1, <1>3, <2>1, SendAppends DEF Send, loopVars
  <2>3. Box!Accept(<<c, calls[c]>>)
    BY <1>3, <2>2 DEF Send, outVars, Box!Accept
  <2> QED
    BY <2>1, <2>3 DEF Box!Next
<1>4. ASSUME Collect
      PROVE  UNCHANGED Box!vars
  <2>1. lists' \o mCh' = lists \o mCh
    BY <1>1, <1>4, CollectKeeps DEF Collect
  <2> QED
    BY <1>4, <2>1 DEF Collect, outVars, Box!vars
<1>5. ASSUME Report
      PROVE  Box!Next
  <2>1. PICK n \in 1 .. MaxPush : /\ n <= Len(lists)
                                  /\ Batch = SubSeq(lists, 1, n)
                                  /\ Rest = SubSeq(lists, n + 1, Len(lists))
    <3>1. lists # <<>>
      BY <1>5 DEF Report, TInv, TypeOK
    <3> QED
      BY <3>1, BatchProperties DEF TInv
  <2>2. n \in 1 .. Len(lists)
    BY <1>1, <2>1, ConstantsOK DEF ConstantsOK
  <2>3. /\ n <= Len(lists \o mCh)
        /\ SubSeq(lists \o mCh, 1, n) = Batch
        /\ SubSeq(lists \o mCh, n + 1, Len(lists \o mCh)) = Rest \o mCh
    BY <1>1, <2>1, <2>2, BatchOfBoth
  <2>4. lists' \o mCh' = Rest \o mCh
    BY <1>5 DEF Report
  <2>5. Box!HandOver(n)
    BY <1>5, <2>3, <2>4 DEF Report, Box!HandOver
  <2> QED
    BY <2>1, <2>5 DEF Box!Next
<1>6. ASSUME NEW c \in Callers, Call(c) \/ CallerStep(c), ~ Send(c)
      PROVE  UNCHANGED <<mCh, lists, outVars>>
  BY <1>6 DEF CallerStep, Call, OnceBegins, Creates, CreateFails, OncePassed, To,
              loopVars
<1>7. ASSUME Tick \/ UNCHANGED vars
      PROVE  UNCHANGED <<mCh, lists, outVars>>
  BY <1>7 DEF Tick, vars, loopVars
<1> QED
  BY <1>2, <1>3, <1>4, <1>5, <1>6, <1>7 DEF Next, LoopStep

(* The metrics of a process implement the box: whatever callers, the ticker *)
(* and the producer do, what has been accepted is handed over once, in      *)
(* order, in batches of at most MaxPush.                                    *)
THEOREM Refines == Spec => ImplementsBox
BY BoxInit, BoxStep, TypeInit, TypeStep, PTL DEF Spec, ImplementsBox, Box!Spec
=============================================================================
