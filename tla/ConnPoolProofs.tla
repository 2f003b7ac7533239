--------------------------- MODULE ConnPoolProofs ---------------------------
(***************************************************************************)
(* Theorems about ConnPool, for any calls, connections and size.           *)
(***************************************************************************)
EXTENDS ConnPool, FiniteSetTheorems, TLAPS

-----------------------------------------------------------------------------
(* The inductive invariant. *)

(* The holder of rw has attempts for what is missing, an empty pool in its   *)
(* first round, and no list that a remover has copied is longer than the    *)
(* pool may be.                                                             *)
SizeInv ==
  /\ Cardinality(rpcconn) + Cardinality(fresh) <= Size
  /\ rw = Nil => fresh = {}
  /\ rw # Nil => Cardinality(rpcconn) + Cardinality(fresh) + todo <= Size
  /\ rw # Nil /\ round = 1 => rpcconn = {}
  /\ \A t \in Threads : Cardinality(list[t]) <= Size

(* A connection has a reader as soon as it is dialed, and its reader cannot *)
(* have removed it before rw is released.                                   *)
ReaderInv ==
  /\ \A k \in Conns : /\ conn[k] = "unused" <=> pc[k] = "none"
                      /\ pc[k] \in {"none", "read", "remove", "store", "done"}
                      /\ pc[k] \in {"remove", "store", "done"} => conn[k] = "closed"
  /\ \A k \in rpcconn : conn[k] # "unused"
  /\ \A k \in fresh : pc[k] \in {"read", "remove"}
  /\ \A t \in Threads : \A k \in list[t] : conn[k] # "unused"

(* What a call chose was dialed; what is being removed is not live, and not *)
(* in the list that is to be stored.                                        *)
RemoveInv ==
  /\ \A c \in Calls : pc[c] = "write" => got[c] \in Conns /\ conn[got[c]] # "unused"
  /\ \A t \in Threads : pc[t] \in {"remove", "store"} =>
       Target(t) \in Conns /\ conn[Target(t)] \in {"lost", "closed"}
  /\ \A t \in Threads : pc[t] = "store" => Target(t) \notin list[t]

IInv == /\ TypeOK /\ SizeInv /\ ReaderInv /\ RemoveInv
        /\ OnlyStaleListsForget /\ OnlyStaleListsRevive

-----------------------------------------------------------------------------
LEMMA SubsetFinite ==
  ASSUME NEW S \in SUBSET Conns
  PROVE  IsFiniteSet(S) /\ Cardinality(S) \in Nat
BY ConstantsOK, FS_Subset, FS_CardinalityType DEF ConstantsOK

LEMMA Sizes ==
  ASSUME TypeOK
  PROVE  /\ IsFiniteSet(rpcconn) /\ Cardinality(rpcconn) \in Nat
         /\ IsFiniteSet(fresh) /\ Cardinality(fresh) \in Nat
         /\ \A t \in Threads : Cardinality(list[t]) \in Nat
BY SubsetFinite DEF TypeOK

LEMMA SubsetSize ==
  ASSUME NEW R \in SUBSET Conns, NEW S \in SUBSET R
  PROVE  Cardinality(S) <= Cardinality(R)
BY SubsetFinite, FS_Subset

LEMMA UnionSize ==
  ASSUME NEW R \in SUBSET Conns, NEW S \in SUBSET Conns
  PROVE  Cardinality(R \cup S) <= Cardinality(R) + Cardinality(S)
<1>1. Cardinality(R \cup S) = Cardinality(R) + Cardinality(S) - Cardinality(R \cap S)
  BY SubsetFinite, FS_Union
<1>2. /\ Cardinality(R) \in Nat /\ Cardinality(S) \in Nat
      /\ Cardinality(R \cap S) \in Nat
  <2>1. R \cap S \in SUBSET Conns
    OBVIOUS
  <2> QED
    BY <2>1, SubsetFinite
<1> QED
  BY <1>1, <1>2

LEMMA EmptySize == Cardinality({}) = 0
BY FS_EmptySet

LEMMA LockKeeps ==
  ASSUME IInv, NEW c \in Calls, Lock(c)
  PROVE  IInv'
<1> USE ConstantsOK DEF ConstantsOK, IInv, Threads, dialVars, At, CanLock, CanRLock
<1>1. /\ rw = Nil /\ fresh = {} /\ fresh' = {}
      /\ destroying # "holds"
      /\ rpcconn' = rpcconn /\ list' = list
      /\ rw' = c
      /\ pc' = [pc EXCEPT ![c] = "dial"]
      /\ round' = IF rpcconn = {} THEN 1 ELSE 2
      /\ todo' = Size - Cardinality(rpcconn)
      /\ UNCHANGED <<conn, got, stale, destroying>>
  BY DEF Lock, Missing, SizeInv
<1>2. Cardinality(rpcconn) \in 0 .. Size
  BY <1>1, Sizes, EmptySize DEF SizeInv
<1>3. TypeOK'
  <2>1. todo' \in 0 .. Size /\ round' \in 0 .. 2
    BY <1>1, <1>2
  <2>2. \A d \in Calls : pc'[d] = "dial" <=> rw' = d
    BY <1>1 DEF TypeOK
  <2> QED
    BY <1>1, <2>1, <2>2 DEF TypeOK
<1>4. SizeInv'
  BY <1>1, <1>2, EmptySize DEF SizeInv
<1>5. ReaderInv'
  BY DEF Lock, Missing, ReaderInv, TypeOK
<1>6. RemoveInv'
  BY DEF Lock, Missing, RemoveInv, ReaderInv, Target, TypeOK
<1>7. OnlyStaleListsForget'
  BY <1>1 DEF OnlyStaleListsForget
<1>8. OnlyStaleListsRevive'
  BY DEF Lock, Missing, OnlyStaleListsRevive, ReaderInv, RemoveInv, Target, TypeOK
<1> QED
  BY <1>3, <1>4, <1>5, <1>6, <1>7, <1>8

LEMMA DialKeeps ==
  ASSUME IInv, NEW c \in Calls, NEW k \in Conns, Dial(c, k)
  PROVE  IInv'
<1> USE ConstantsOK DEF ConstantsOK, IInv, Threads, dialVars, At, CanLock, CanRLock
<1>1. /\ rw = c /\ rw # Nil
      /\ k \notin fresh
  BY DEF Dial, TypeOK, ReaderInv
<1>2. Cardinality(fresh') = Cardinality(fresh) + 1
  BY <1>1, Sizes, FS_AddElement DEF Dial
<1>3. TypeOK'
  BY DEF Dial, TypeOK
<1>4. SizeInv'
  BY <1>1, <1>2, Sizes DEF Dial, SizeInv, TypeOK
<1>5. ReaderInv'
  BY DEF Dial, ReaderInv, TypeOK
<1>6. RemoveInv'
  BY DEF Dial, RemoveInv, ReaderInv, Target, TypeOK
<1>7. OnlyStaleListsForget'
  BY DEF Dial, OnlyStaleListsForget, SizeInv, TypeOK
<1>8. OnlyStaleListsRevive'
  BY DEF Dial, OnlyStaleListsRevive, ReaderInv, RemoveInv, Target, TypeOK
<1> QED
  BY <1>3, <1>4, <1>5, <1>6, <1>7, <1>8

LEMMA DialFailsKeeps ==
  ASSUME IInv, NEW c \in Calls, DialFails(c)
  PROVE  IInv'
<1> USE ConstantsOK DEF ConstantsOK, IInv, Threads, dialVars, At, CanLock, CanRLock
<1>1. TypeOK'
  BY DEF DialFails, TypeOK
<1>2. SizeInv'
  BY Sizes DEF DialFails, SizeInv, TypeOK
<1>3. ReaderInv'
  BY DEF DialFails, ReaderInv, TypeOK
<1>4. RemoveInv'
  BY DEF DialFails, RemoveInv, ReaderInv, Target, TypeOK
<1>5. OnlyStaleListsForget'
  BY DEF DialFails, OnlyStaleListsForget, SizeInv, TypeOK
<1>6. OnlyStaleListsRevive'
  BY DEF DialFails, OnlyStaleListsRevive, ReaderInv, RemoveInv, Target, TypeOK
<1> QED
  BY <1>1, <1>2, <1>3, <1>4, <1>5, <1>6

LEMMA SecondRoundKeeps ==
  ASSUME IInv, NEW c \in Calls, SecondRound(c)
  PROVE  IInv'
<1> USE ConstantsOK DEF ConstantsOK, IInv, Threads, dialVars, At, CanLock, CanRLock
<1>1. /\ rw = c /\ rw # Nil
      /\ rpcconn = {}
  BY DEF SecondRound, TypeOK, SizeInv
<1>2. /\ Cardinality(fresh) \in 0 .. Size
      /\ Cardinality(rpcconn') = Cardinality(fresh)
      /\ Cardinality(fresh') = 0
  BY <1>1, Sizes, EmptySize DEF SecondRound, SizeInv
<1>3. TypeOK'
  <2>1. todo' \in 0 .. Size /\ round' \in 0 .. 2
    BY <1>2 DEF SecondRound
  <2> QED
    BY <2>1 DEF SecondRound, TypeOK
<1>4. SizeInv'
  <2>1. todo' = Size - Cardinality(fresh)
    BY DEF SecondRound
  <2> QED
    BY <1>2, <2>1 DEF SecondRound, SizeInv
<1>5. ReaderInv'
  BY DEF SecondRound, ReaderInv, TypeOK
<1>6. RemoveInv'
  BY DEF SecondRound, RemoveInv, ReaderInv, Target, TypeOK
<1>7. OnlyStaleListsForget'
  BY <1>1 DEF SecondRound, OnlyStaleListsForget
<1>8. OnlyStaleListsRevive'
  BY <1>1 DEF SecondRound, OnlyStaleListsRevive, ReaderInv, TypeOK
<1> QED
  BY <1>3, <1>4, <1>5, <1>6, <1>7, <1>8

LEMMA ChooseKeeps ==
  ASSUME IInv, NEW c \in Calls, NEW k \in Conns, Choose(c, k)
  PROVE  IInv'
<1> USE ConstantsOK DEF ConstantsOK, IInv, Threads, dialVars, At, CanLock, CanRLock
<1>1. Cardinality(rpcconn') <= Size /\ Cardinality(fresh') = 0
  <2>1. rpcconn' = rpcconn \cup fresh /\ fresh' = {}
    BY DEF Choose, Dialed
  <2>2. Cardinality(rpcconn \cup fresh) <= Cardinality(rpcconn) + Cardinality(fresh)
    BY UnionSize DEF TypeOK
  <2>3. Cardinality(rpcconn \cup fresh) \in Nat
    <3>1. rpcconn \cup fresh \in SUBSET Conns
      BY DEF TypeOK
    <3> QED
      BY <3>1, SubsetFinite
  <2> QED
    BY <2>1, <2>2, <2>3, Sizes, EmptySize DEF SizeInv
<1>2. Cardinality(rpcconn') \in Nat
  <2>1. rpcconn' \in SUBSET Conns
    BY DEF Choose, Dialed, TypeOK
  <2> QED
    BY <2>1, SubsetFinite
<1>3. TypeOK'
  BY DEF Choose, Dialed, TypeOK
<1>4. SizeInv'
  BY <1>1, <1>2 DEF Choose, Dialed, SizeInv
<1>5. ReaderInv'
  BY DEF Choose, Dialed, ReaderInv, TypeOK
<1>6. RemoveInv'
  BY DEF Choose, Dialed, RemoveInv, ReaderInv, Target, TypeOK
<1>7. OnlyStaleListsForget'
  BY DEF Choose, Dialed, OnlyStaleListsForget, SizeInv, TypeOK
<1>8. OnlyStaleListsRevive'
  <2>1. /\ rpcconn' = rpcconn \cup fresh /\ stale' = stale
        /\ pc' = [pc EXCEPT ![c] = "write"]
    BY DEF Choose, Dialed
  <2>2. \A l \in Conns : pc'[l] = pc[l]
    BY <2>1 DEF TypeOK
  <2> QED
    BY <2>1, <2>2 DEF OnlyStaleListsRevive, ReaderInv, TypeOK
<1> QED
  BY <1>3, <1>4, <1>5, <1>6, <1>7, <1>8

LEMMA NoNodeKeeps ==
  ASSUME IInv, NEW c \in Calls, NoNode(c)
  PROVE  IInv'
<1> USE ConstantsOK DEF ConstantsOK, IInv, Threads, dialVars, At, CanLock, CanRLock
<1>1. TypeOK'
  BY DEF NoNode, Dialed, TypeOK
<1>2. SizeInv'
  BY Sizes DEF NoNode, Dialed, SizeInv, TypeOK
<1>3. ReaderInv'
  BY DEF NoNode, Dialed, ReaderInv, TypeOK
<1>4. RemoveInv'
  BY DEF NoNode, Dialed, RemoveInv, ReaderInv, Target, TypeOK
<1>5. OnlyStaleListsForget'
  BY DEF NoNode, Dialed, OnlyStaleListsForget, SizeInv, TypeOK
<1>6. OnlyStaleListsRevive'
  BY DEF NoNode, Dialed, OnlyStaleListsRevive, ReaderInv, RemoveInv, Target, TypeOK
<1> QED
  BY <1>1, <1>2, <1>3, <1>4, <1>5, <1>6

LEMMA LoseKeeps ==
  ASSUME IInv, NEW k \in Conns, Lose(k)
  PROVE  IInv'
<1> USE ConstantsOK DEF ConstantsOK, IInv, Threads, dialVars, At, CanLock, CanRLock
<1>1. TypeOK'
  BY DEF Lose, TypeOK
<1>2. SizeInv'
  BY Sizes DEF Lose, SizeInv, TypeOK
<1>3. ReaderInv'
  BY DEF Lose, ReaderInv, TypeOK
<1>4. RemoveInv'
  BY DEF Lose, RemoveInv, ReaderInv, Target, TypeOK
<1>5. OnlyStaleListsForget'
  BY DEF Lose, OnlyStaleListsForget, SizeInv, TypeOK
<1>6. OnlyStaleListsRevive'
  BY DEF Lose, OnlyStaleListsRevive, ReaderInv, RemoveInv, Target, TypeOK
<1> QED
  BY <1>1, <1>2, <1>3, <1>4, <1>5, <1>6

LEMMA ReaderEndsKeeps ==
  ASSUME IInv, NEW k \in Conns, ReaderEnds(k)
  PROVE  IInv'
<1> USE ConstantsOK DEF ConstantsOK, IInv, Threads, dialVars, At, CanLock, CanRLock
<1>1. TypeOK'
  BY DEF ReaderEnds, TypeOK
<1>2. SizeInv'
  BY Sizes DEF ReaderEnds, SizeInv, TypeOK
<1>3. ReaderInv'
  BY DEF ReaderEnds, ReaderInv, TypeOK
<1>4. RemoveInv'
  BY DEF ReaderEnds, RemoveInv, ReaderInv, Target, TypeOK
<1>5. OnlyStaleListsForget'
  BY DEF ReaderEnds, OnlyStaleListsForget, SizeInv, TypeOK
<1>6. OnlyStaleListsRevive'
  BY DEF ReaderEnds, OnlyStaleListsRevive, ReaderInv, RemoveInv, Target, TypeOK
<1> QED
  BY <1>1, <1>2, <1>3, <1>4, <1>5, <1>6

LEMMA WriteEndsKeeps ==
  ASSUME IInv, NEW c \in Calls, WriteEnds(c)
  PROVE  IInv'
<1> USE ConstantsOK DEF ConstantsOK, IInv, Threads, dialVars, At, CanLock, CanRLock
<1>1. TypeOK'
  BY DEF WriteEnds, TypeOK
<1>2. SizeInv'
  BY Sizes DEF WriteEnds, SizeInv, TypeOK
<1>3. ReaderInv'
  BY DEF WriteEnds, ReaderInv, TypeOK
<1>4. RemoveInv'
  BY DEF WriteEnds, RemoveInv, ReaderInv, Target, TypeOK
<1>5. OnlyStaleListsForget'
  BY DEF WriteEnds, OnlyStaleListsForget, SizeInv, TypeOK
<1>6. OnlyStaleListsRevive'
  BY DEF WriteEnds, OnlyStaleListsRevive, ReaderInv, RemoveInv, Target, TypeOK
<1> QED
  BY <1>1, <1>2, <1>3, <1>4, <1>5, <1>6

LEMMA WriteFailsKeeps ==
  ASSUME IInv, NEW c \in Calls, WriteFails(c)
  PROVE  IInv'
<1> USE ConstantsOK DEF ConstantsOK, IInv, Threads, dialVars, At, CanLock, CanRLock
<1>1. TypeOK'
  BY DEF WriteFails, TypeOK
<1>2. SizeInv'
  BY Sizes DEF WriteFails, SizeInv, TypeOK
<1>3. ReaderInv'
  BY DEF WriteFails, ReaderInv, TypeOK
<1>4. RemoveInv'
  BY DEF WriteFails, RemoveInv, ReaderInv, Target, TypeOK
<1>5. OnlyStaleListsForget'
  BY DEF WriteFails, OnlyStaleListsForget, SizeInv, TypeOK
<1>6. OnlyStaleListsRevive'
  BY DEF WriteFails, OnlyStaleListsRevive, ReaderInv, RemoveInv, Target, TypeOK
<1> QED
  BY <1>1, <1>2, <1>3, <1>4, <1>5, <1>6

LEMMA DestroySocketsKeeps ==
  ASSUME IInv, DestroySockets
  PROVE  IInv'
<1> USE ConstantsOK DEF ConstantsOK, IInv, Threads, dialVars, At, CanLock, CanRLock
<1>1. TypeOK'
  BY DEF DestroySockets, TypeOK
<1>2. SizeInv'
  BY Sizes DEF DestroySockets, SizeInv, TypeOK
<1>3. ReaderInv'
  BY DEF DestroySockets, ReaderInv, TypeOK
<1>4. RemoveInv'
  BY DEF DestroySockets, RemoveInv, ReaderInv, Target, TypeOK
<1>5. OnlyStaleListsForget'
  BY DEF DestroySockets, OnlyStaleListsForget, SizeInv, TypeOK
<1>6. OnlyStaleListsRevive'
  BY DEF DestroySockets, OnlyStaleListsRevive, ReaderInv, RemoveInv, Target, TypeOK
<1> QED
  BY <1>1, <1>2, <1>3, <1>4, <1>5, <1>6

LEMMA DestroyEndsKeeps ==
  ASSUME IInv, DestroyEnds
  PROVE  IInv'
<1> USE ConstantsOK DEF ConstantsOK, IInv, Threads, dialVars, At, CanLock, CanRLock
<1>1. TypeOK'
  BY DEF DestroyEnds, TypeOK
<1>2. SizeInv'
  BY Sizes DEF DestroyEnds, SizeInv, TypeOK
<1>3. ReaderInv'
  BY DEF DestroyEnds, ReaderInv, TypeOK
<1>4. RemoveInv'
  BY DEF DestroyEnds, RemoveInv, ReaderInv, Target, TypeOK
<1>5. OnlyStaleListsForget'
  BY DEF DestroyEnds, OnlyStaleListsForget, SizeInv, TypeOK
<1>6. OnlyStaleListsRevive'
  BY DEF DestroyEnds, OnlyStaleListsRevive, ReaderInv, RemoveInv, Target, TypeOK
<1> QED
  BY <1>1, <1>2, <1>3, <1>4, <1>5, <1>6

LEMMA CopyKeeps ==
  ASSUME IInv, NEW t \in Threads, Copy(t)
  PROVE  IInv'
<1> USE ConstantsOK DEF ConstantsOK, IInv, Threads, dialVars, At, CanLock, CanRLock
<1>1. /\ \A u \in Threads : list'[u] = list[u] \/ list'[u] \subseteq rpcconn
      /\ UNCHANGED <<conn, got, rpcconn, rw, round, todo, fresh, stale>>
  BY DEF Copy, TypeOK
<1>2. TypeOK'
  BY DEF Copy, Target, TypeOK
<1>3. SizeInv'
  <2>1. Cardinality(rpcconn) <= Size
    BY Sizes DEF SizeInv
  <2>2. ASSUME NEW u \in Threads
        PROVE  Cardinality(list'[u]) <= Size
    <3>1. CASE list'[u] = list[u]
      BY <3>1 DEF SizeInv
    <3>2. CASE list'[u] \subseteq rpcconn
      <4>1. Cardinality(list'[u]) <= Cardinality(rpcconn)
        BY <3>2, SubsetSize DEF TypeOK
      <4>2. Cardinality(list'[u]) \in Nat
        BY <3>2, SubsetFinite DEF TypeOK
      <4> QED
        BY <2>1, <4>1, <4>2, Sizes
    <3> QED
      BY <1>1, <3>1, <3>2
  <2> QED
    BY <1>1, <2>2 DEF SizeInv
<1>4. ReaderInv'
  <2>1. \A k \in Conns : \/ pc'[k] = pc[k]
                         \/ /\ pc[k] = "remove"
                            /\ pc'[k] \in {"store", "done"}
    BY DEF Copy, TypeOK
  <2>2. \A k \in fresh : pc'[k] = pc[k]
    BY DEF Copy, SizeInv
  <2> QED
    BY <1>1, <2>1, <2>2 DEF ReaderInv, TypeOK
<1>5. RemoveInv'
  BY DEF Copy, Target, RemoveInv, ReaderInv, TypeOK
<1>6. OnlyStaleListsForget'
  BY DEF Copy, Target, OnlyStaleListsForget, SizeInv, TypeOK
<1>7. OnlyStaleListsRevive'
  BY DEF Copy, Target, OnlyStaleListsRevive, ReaderInv, RemoveInv, TypeOK
<1> QED
  BY <1>2, <1>3, <1>4, <1>5, <1>6, <1>7

LEMMA StoreKeeps ==
  ASSUME IInv, NEW t \in Threads, Store(t)
  PROVE  IInv'
<1> USE ConstantsOK DEF ConstantsOK, IInv, Threads, dialVars, At, CanLock, CanRLock
<1>1. /\ rw = Nil /\ fresh = {} /\ pc[t] = "store"
      /\ rpcconn' = list[t]
      /\ list' = [list EXCEPT ![t] = {}]
      /\ stale' = stale \cup Differ(list[t], Target(t))
      /\ pc' = [pc EXCEPT ![t] = "done"]
      /\ UNCHANGED <<conn, got, rw, round, todo, fresh, destroying>>
  BY DEF Store, SizeInv
<1>2. TypeOK'
  BY DEF Store, Target, Differ, TypeOK
<1>3. SizeInv'
  <2>1. Cardinality(rpcconn') \in Nat /\ Cardinality(rpcconn') <= Size
    BY <1>1, Sizes DEF SizeInv
  <2>2. \A u \in Threads : Cardinality(list'[u]) <= Size
    BY <1>1, EmptySize DEF SizeInv, TypeOK
  <2> QED
    BY <1>1, <2>1, <2>2, EmptySize DEF SizeInv
<1>4. ReaderInv'
  BY DEF Store, Target, Differ, ReaderInv, TypeOK
<1>5. RemoveInv'
  BY DEF Store, Target, Differ, RemoveInv, ReaderInv, TypeOK
<1>6. OnlyStaleListsForget'
  <2>1. conn[Target(t)] # "live"
    BY <1>1 DEF RemoveInv
  <2> QED
    BY <1>1, <2>1 DEF OnlyStaleListsForget, Differ
<1>7. OnlyStaleListsRevive'
  BY DEF Store, Target, Differ, OnlyStaleListsRevive, ReaderInv, RemoveInv, TypeOK
<1> QED
  BY <1>2, <1>3, <1>4, <1>5, <1>6, <1>7

-----------------------------------------------------------------------------
(* The theorems. *)

LEMMA InitHolds == Init => IInv
<1> SUFFICES ASSUME Init
             PROVE  IInv
  OBVIOUS
<1> USE ConstantsOK DEF ConstantsOK, Init, Threads
<1>1. TypeOK
  <2>1. /\ conn \in [Conns -> {"unused", "live", "lost", "closed"}]
        /\ got \in [Calls -> Conns \cup {Nil}]
        /\ list \in [Threads -> SUBSET Conns]
    OBVIOUS
  <2>2. pc \in [Threads -> {"call", "dial", "write", "none", "read", "remove",
                            "store", "done"}]
    OBVIOUS
  <2>3. /\ rpcconn \subseteq Conns /\ fresh \subseteq Conns /\ stale \subseteq Conns
        /\ rw \in Calls \cup {Nil} /\ round \in 0 .. 2 /\ todo \in 0 .. Size
    OBVIOUS
  <2>4. destroying \in {"no", "holds", "done"} /\ destroying # "holds"
    OBVIOUS
  <2>5. \A c \in Calls : pc[c] = "dial" <=> rw = c
    OBVIOUS
  <2> QED
    BY <2>1, <2>2, <2>3, <2>4, <2>5 DEF TypeOK
<1>2. SizeInv
  BY EmptySize DEF SizeInv
<1>3. ReaderInv
  BY DEF ReaderInv
<1>4. RemoveInv
  BY DEF RemoveInv
<1>5. OnlyStaleListsForget /\ OnlyStaleListsRevive
  BY DEF OnlyStaleListsForget, OnlyStaleListsRevive
<1> QED
  BY <1>1, <1>2, <1>3, <1>4, <1>5 DEF IInv

LEMMA StepHolds == IInv /\ [Next]_vars => IInv'
<1> SUFFICES ASSUME IInv, [Next]_vars
             PROVE  IInv'
  OBVIOUS
<1>1. CASE UNCHANGED vars
  BY <1>1 DEF vars, dialVars, IInv, TypeOK, SizeInv, ReaderInv, RemoveInv,
              Target, OnlyStaleListsForget, OnlyStaleListsRevive
<1>2. CASE \E c \in Calls : Response(c) \/ WriteEnds(c) \/ WriteFails(c)
  BY <1>2, LockKeeps, DialKeeps, DialFailsKeeps, SecondRoundKeeps, ChooseKeeps,
     NoNodeKeeps, WriteEndsKeeps, WriteFailsKeeps DEF Response
<1>3. CASE \E k \in Conns : Lose(k) \/ ReaderEnds(k)
  BY <1>3, LoseKeeps, ReaderEndsKeeps
<1>4. CASE \E t \in Threads : Remove(t)
  BY <1>4, CopyKeeps, StoreKeeps DEF Remove
<1>5. CASE DestroySockets \/ DestroyEnds
  BY <1>5, DestroySocketsKeeps, DestroyEndsKeeps
<1> QED
  BY <1>1, <1>2, <1>3, <1>4, <1>5 DEF Next

LEMMA InvariantHolds == Spec => []IInv
BY InitHolds, StepHolds, PTL DEF Spec

(* Every variable keeps its type, and whoever dials holds the lock.         *)
THEOREM TypeCorrect == Spec => []TypeOK
BY InvariantHolds, PTL DEF IInv

(* The pool of a service never holds more connections than its size,        *)
(* however dialing, removing and storing stale lists interleave.            *)
THEOREM PoolBounded == Spec => []PoolBound
<1>1. IInv => PoolBound
  BY Sizes, ConstantsOK DEF ConstantsOK, IInv, SizeInv, PoolBound
<1> QED
  BY <1>1, InvariantHolds, PTL

(* A live connection is lost to the pool only by a stale list.              *)
THEOREM ForgottenByStaleLists == Spec => []OnlyStaleListsForget
BY InvariantHolds, PTL DEF IInv

(* A connection whose end was reported is back only by a stale list.        *)
THEOREM RevivedByStaleLists == Spec => []OnlyStaleListsRevive
BY InvariantHolds, PTL DEF IInv
=============================================================================
