---------------------------- MODULE QueueProofs -----------------------------
(***************************************************************************)
(* Theorems about hw5/src/queue.c for any number of threads, items and     *)
(* nodes.  IInv is inductive; NoNullDeref and the refinement of Fifo       *)
(* follow from it.  Each action has a step of its own, and the conjuncts   *)
(* of IInv are preserved one by one.                                       *)
(***************************************************************************)
EXTENDS Queue, SequenceTheorems, FiniteSetTheorems, TLAPS

Claiming == {"enq_post", "deq_lock", "deq_pop", "inv_pop"}

USE DEF Steps

-----------------------------------------------------------------------------
(* How the set of claims follows one thread's pc.                          *)

LEMMA ClaimsFinite == IsFiniteSet(Claims) /\ Cardinality(Claims) \in Nat
<1>1. IsFiniteSet(Threads)
  BY QueueAssumption DEF Threads
<1>2. IsFiniteSet(Claims)
  BY <1>1, FS_Subset DEF Claims
<1> QED BY <1>2, FS_CardinalityType

LEMMA ClaimTaken ==
  ASSUME TypeOK, NEW t \in Threads, NEW b \in Claiming, pc[t] \notin Claiming,
         pc' = [pc EXCEPT ![t] = b]
  PROVE  Cardinality(Claims') = Cardinality(Claims) + 1
<1>1. Claims' = Claims \cup {t} /\ t \notin Claims
  BY DEF Claims, Claiming, TypeOK
<1> QED BY <1>1, ClaimsFinite, FS_AddElement

LEMMA ClaimDropped ==
  ASSUME TypeOK, NEW t \in Threads, NEW b \in Steps \ Claiming, pc[t] \in Claiming,
         pc' = [pc EXCEPT ![t] = b]
  PROVE  Cardinality(Claims') = Cardinality(Claims) - 1
<1>1. Claims' = Claims \ {t} /\ t \in Claims
  BY DEF Claims, Claiming, TypeOK
<1> QED BY <1>1, ClaimsFinite, FS_RemoveElement

LEMMA ClaimsKept ==
  ASSUME TypeOK, NEW t \in Threads, NEW b, pc[t] \in Claiming <=> b \in Claiming,
         pc' = [pc EXCEPT ![t] = b]
  PROVE  Claims' = Claims
BY DEF Claims, Claiming, TypeOK

LEMMA ClaimCounts ==
  ASSUME NEW t \in Claims
  PROVE  Cardinality(Claims) >= 1
<1>1. Cardinality(Claims) # 0
  BY ClaimsFinite, FS_EmptySet
<1> QED BY <1>1, ClaimsFinite

-----------------------------------------------------------------------------
(* What linking and popping a node do to the list.                         *)

\* A node that is about to be popped exists.
LEMMA FrontExists ==
  ASSUME IInv, NEW t \in Threads, pc[t] \in {"deq_pop", "inv_pop"}, ~invalid
  PROVE  list # <<>> /\ front = list[1] /\ front \in live /\ Len(list) >= 1
<1>1. t \in Claims
  BY DEF Claims
<1>2. Cardinality(Claims) >= 1
  BY <1>1, ClaimCounts
<1>3. Len(list) >= 1
  BY <1>2, ClaimsFinite DEF IInv, TypeOK, TokenConservation
<1> QED BY <1>3 DEF IInv, Linked, TypeOK

-----------------------------------------------------------------------------
(* Each action preserves the invariant.  First the steps that leave the    *)
(* list alone.                                                             *)

LEMMA CallEnqueuePreserves ==
  ASSUME IInv, NEW t \in Enqueuers, CallEnqueue(t)
  PROVE  IInv'
<1> USE DEF IInv
<1>1. t \in Threads
  BY DEF Threads
<1>2. TypeOK'
  BY <1>1 DEF CallEnqueue, TypeOK, ptrs, Goto
<1>3. Linked'
  BY DEF CallEnqueue, Linked, ptrs
<1>4. TokenConservation'
  BY <1>1, ClaimsKept DEF CallEnqueue, TypeOK, TokenConservation, Claiming, Goto, ptrs
<1>5. Mutex'
  BY <1>1, QueueAssumption DEF CallEnqueue, TypeOK, Mutex, Goto, Threads
<1>6. StillValid'
  BY <1>1 DEF CallEnqueue, TypeOK, StillValid, Goto
<1>7. ArgOwned'
  BY <1>1, QueueAssumption DEF CallEnqueue, Owned, TypeOK, ArgOwned, Goto, ptrs
<1> QED BY <1>2, <1>3, <1>4, <1>5, <1>6, <1>7

LEMMA CallDequeuePreserves ==
  ASSUME IInv, NEW t \in Dequeuers, CallDequeue(t)
  PROVE  IInv'
<1> USE DEF IInv
<1>1. t \in Threads
  BY DEF Threads
<1>2. TypeOK'
  BY <1>1 DEF CallDequeue, TypeOK, ptrs, Goto
<1>3. Linked'
  BY DEF CallDequeue, Linked, ptrs
<1>4. TokenConservation'
  BY <1>1, ClaimsKept DEF CallDequeue, TypeOK, TokenConservation, Claiming, Goto, ptrs
<1>5. Mutex'
  BY <1>1, QueueAssumption DEF CallDequeue, TypeOK, Mutex, Goto, Threads
<1>6. StillValid'
  BY <1>1 DEF CallDequeue, TypeOK, StillValid, Goto
<1>7. ArgOwned'
  BY <1>1 DEF CallDequeue, TypeOK, ArgOwned, Goto, ptrs
<1> QED BY <1>2, <1>3, <1>4, <1>5, <1>6, <1>7

LEMMA CallInvalidatePreserves ==
  ASSUME IInv, NEW t \in Invalidators, CallInvalidate(t)
  PROVE  IInv'
<1> USE DEF IInv
<1>1. t \in Threads
  BY DEF Threads
<1>2. TypeOK'
  BY <1>1 DEF CallInvalidate, TypeOK, ptrs, Goto
<1>3. Linked'
  BY DEF CallInvalidate, Linked, ptrs
<1>4. TokenConservation'
  BY <1>1, ClaimsKept DEF CallInvalidate, TypeOK, TokenConservation, Claiming, Goto, ptrs
<1>5. Mutex'
  BY <1>1, QueueAssumption DEF CallInvalidate, TypeOK, Mutex, Goto, Threads
<1>6. StillValid'
  BY <1>1 DEF CallInvalidate, TypeOK, StillValid, Goto
<1>7. ArgOwned'
  BY <1>1 DEF CallInvalidate, TypeOK, ArgOwned, Goto, ptrs
<1> QED BY <1>2, <1>3, <1>4, <1>5, <1>6, <1>7

LEMMA TakeLockPreserves ==
  ASSUME IInv, NEW t \in Threads, TakeLock(t)
  PROVE  IInv'
<1> USE DEF IInv
<1>1. t \in Threads
  BY DEF Threads
<1>2. TypeOK'
  BY <1>1 DEF TakeLock, TypeOK, ptrs, Goto
<1>3. Linked'
  BY DEF TakeLock, Linked, ptrs
<1>4. TokenConservation'
  BY <1>1, ClaimsKept DEF TakeLock, TypeOK, TokenConservation, Claiming, Goto, ptrs
<1>5. Mutex'
  BY <1>1, QueueAssumption DEF TakeLock, TypeOK, Mutex, Goto, Threads
<1>6. StillValid'
  BY <1>1 DEF TakeLock, TypeOK, StillValid, Goto
<1>7. ArgOwned'
  BY <1>1 DEF TakeLock, TypeOK, ArgOwned, Goto, ptrs
<1> QED BY <1>2, <1>3, <1>4, <1>5, <1>6, <1>7

LEMMA RejectPreserves ==
  ASSUME IInv, NEW t \in Threads, Reject(t)
  PROVE  IInv'
<1> USE DEF IInv
<1>1. t \in Threads
  BY DEF Threads
<1>2. TypeOK'
  BY <1>1 DEF Reject, TypeOK, ptrs, Goto
<1>3. Linked'
  BY DEF Reject, Linked, ptrs
<1>4. TokenConservation'
  BY <1>1, ClaimsKept DEF Reject, TypeOK, TokenConservation, Claiming, Goto, ptrs
<1>5. Mutex'
  BY <1>1, QueueAssumption DEF Reject, TypeOK, Mutex, Goto, Threads
<1>6. StillValid'
  BY <1>1 DEF Reject, TypeOK, StillValid, Goto
<1>7. ArgOwned'
  BY <1>1 DEF Reject, TypeOK, ArgOwned, Goto, ptrs
<1> QED BY <1>2, <1>3, <1>4, <1>5, <1>6, <1>7

LEMMA UnlockPreserves ==
  ASSUME IInv, NEW t \in Threads, Unlock(t)
  PROVE  IInv'
<1> USE DEF IInv
<1>1. t \in Threads
  BY DEF Threads
<1>2. TypeOK'
  BY <1>1 DEF Unlock, TypeOK, ptrs, Goto
<1>3. Linked'
  BY DEF Unlock, Linked, ptrs
<1>4. TokenConservation'
  BY <1>1, ClaimsKept DEF Unlock, TypeOK, TokenConservation, Claiming, Goto, ptrs
<1>5. Mutex'
  BY <1>1, QueueAssumption DEF Unlock, TypeOK, Mutex, Goto, Threads
<1>6. StillValid'
  BY <1>1 DEF Unlock, TypeOK, StillValid, Goto
<1>7. ArgOwned'
  BY <1>1 DEF Unlock, TypeOK, ArgOwned, Goto, ptrs
<1> QED BY <1>2, <1>3, <1>4, <1>5, <1>6, <1>7

LEMMA EnqPostPreserves ==
  ASSUME IInv, NEW t \in Threads, EnqPost(t)
  PROVE  IInv'
<1> USE DEF IInv
<1>1. TypeOK'
  BY DEF EnqPost, TypeOK, ptrs, Goto
<1>2. Linked'
  BY DEF EnqPost, Linked, ptrs
<1>3. TokenConservation'
  <2>1. Cardinality(Claims') = Cardinality(Claims) - 1
    BY ClaimDropped DEF EnqPost, Claiming, Goto
  <2> QED BY <2>1, ClaimsFinite DEF EnqPost, TypeOK, TokenConservation, ptrs
<1>4. Mutex'
  BY DEF EnqPost, TypeOK, Mutex, Goto
<1>5. StillValid'
  BY DEF EnqPost, TypeOK, StillValid, Mutex, Goto
<1>6. ArgOwned'
  BY DEF EnqPost, TypeOK, ArgOwned, Goto, ptrs
<1> QED BY <1>1, <1>2, <1>3, <1>4, <1>5, <1>6

LEMMA DeqWaitPreserves ==
  ASSUME IInv, NEW t \in Threads, DeqWait(t)
  PROVE  IInv'
<1> USE DEF IInv
<1>1. TypeOK'
  BY DEF DeqWait, TypeOK, ptrs, Goto
<1>2. Linked'
  BY DEF DeqWait, Linked, ptrs
<1>3. TokenConservation'
  <2>1. Cardinality(Claims') = Cardinality(Claims) + 1
    BY ClaimTaken DEF DeqWait, Claiming, Goto
  <2> QED BY <2>1, ClaimsFinite DEF DeqWait, TypeOK, TokenConservation, ptrs
<1>4. Mutex'
  BY DEF DeqWait, TypeOK, Mutex, Goto
<1>5. StillValid'
  BY DEF DeqWait, TypeOK, StillValid, Mutex, Goto
<1>6. ArgOwned'
  BY DEF DeqWait, TypeOK, ArgOwned, Goto, ptrs
<1> QED BY <1>1, <1>2, <1>3, <1>4, <1>5, <1>6

LEMMA InvCheckPreserves ==
  ASSUME IInv, NEW t \in Threads, InvCheck(t)
  PROVE  IInv'
<1> USE DEF IInv
<1>1. TypeOK'
  BY DEF InvCheck, TypeOK, ptrs, Goto
<1>2. Linked'
  BY DEF InvCheck, Linked, ptrs
<1>3. TokenConservation'
  BY ClaimsKept DEF InvCheck, TypeOK, TokenConservation, Claiming, Goto, ptrs
<1>4. Mutex'
  BY DEF InvCheck, TypeOK, Mutex, Goto
<1>5. StillValid'
  BY DEF InvCheck, TypeOK, StillValid, Mutex, Goto
<1>6. ArgOwned'
  BY DEF InvCheck, TypeOK, ArgOwned, Goto, ptrs
<1> QED BY <1>1, <1>2, <1>3, <1>4, <1>5, <1>6

LEMMA InvWaitPreserves ==
  ASSUME IInv, NEW t \in Threads, InvWait(t)
  PROVE  IInv'
<1> USE DEF IInv
<1>1. TypeOK'
  BY DEF InvWait, TypeOK, ptrs, Goto
<1>2. Linked'
  BY DEF InvWait, Linked, ptrs
<1>3. TokenConservation'
  <2>1. Cardinality(Claims') = Cardinality(Claims) + 1
    BY ClaimTaken DEF InvWait, Claiming, Goto
  <2> QED BY <2>1, ClaimsFinite DEF InvWait, TypeOK, TokenConservation, ptrs
<1>4. Mutex'
  BY DEF InvWait, TypeOK, Mutex, Goto
<1>5. StillValid'
  BY DEF InvWait, TypeOK, StillValid, Mutex, Goto
<1>6. ArgOwned'
  BY DEF InvWait, TypeOK, ArgOwned, Goto, ptrs
<1> QED BY <1>1, <1>2, <1>3, <1>4, <1>5, <1>6

-----------------------------------------------------------------------------
(* The steps that change the list.                                         *)

LEMMA EnqLinkPreserves ==
  ASSUME IInv, NEW t \in Threads, EnqLink(t)
  PROVE  IInv'
<1> USE DEF IInv
<1>1. PICK n \in Nodes \ live :
        /\ live' = live \cup {n}
        /\ item' = [item EXCEPT ![n] = arg[t]]
        /\ next' = IF front = NULL THEN [next EXCEPT ![n] = n]
                                   ELSE [next EXCEPT ![n] = NULL, ![rear] = n]
        /\ front' = IF front = NULL THEN n ELSE front
        /\ rear' = n
        /\ list' = Append(list, n)
  BY DEF EnqLink
<1>2. /\ pc[t] = "enq_link" /\ pc' = [pc EXCEPT ![t] = "enq_post"]
      /\ ~invalid /\ arg' = [arg EXCEPT ![t] = NULL]
      /\ UNCHANGED <<items, lock, invalid, got, destroyed>>
  BY DEF EnqLink, Goto
<1>3. /\ list \in Seq(Nodes) /\ list' \in Seq(Nodes)
      /\ Len(list) \in Nat /\ Len(list') = Len(list) + 1
      /\ \A m \in 1..Len(list) : list'[m] = list[m] /\ list[m] # n
      /\ list'[Len(list')] = n
  BY <1>1 DEF TypeOK, Linked
<1>4. TypeOK'
  BY <1>1, <1>2, <1>3 DEF TypeOK
<1>5. Linked'
  <2>1. live' = {list'[m] : m \in 1..Len(list')}
    BY <1>1, <1>3 DEF Linked
  <2>2. \A l, m \in 1..Len(list') : list'[l] = list'[m] => l = m
    BY <1>3 DEF Linked
  <2>3. front' = IF list' = <<>> THEN NULL ELSE list'[1]
    BY <1>1, <1>3, QueueAssumption DEF Linked, TypeOK
  <2>4. rear' = IF list' = <<>> THEN NULL ELSE list'[Len(list')]
    BY <1>1, <1>3
  <2>5. \A m \in 1..Len(list') - 1 : next'[list'[m]] = list'[m + 1]
    <3>1. CASE list = <<>>
      BY <3>1, <1>3
    <3>2. CASE list # <<>>
      <4>1. front # NULL /\ rear = list[Len(list)] /\ Len(list) >= 1
        BY <3>2, <1>3, QueueAssumption DEF Linked, TypeOK
      <4>2. next' = [next EXCEPT ![n] = NULL, ![rear] = n] /\ rear # n
        BY <4>1, <1>1, <1>3
      <4>3. next'[list[Len(list)]] = n
        BY <4>1, <4>2, <1>3 DEF TypeOK
      <4>4. ASSUME NEW m \in 1..Len(list) - 1
            PROVE  next'[list[m]] = list[m + 1]
        <5>1. list[m] # rear /\ list[m] # n /\ list[m] \in Nodes
          BY <4>1, <1>3 DEF Linked
        <5> QED BY <5>1, <4>2 DEF Linked, TypeOK
      <4> QED BY <4>3, <4>4, <1>3
    <3> QED BY <3>1, <3>2
  <2>6. \A m \in live' : item'[m] # NULL
    BY <1>1, <1>2, QueueAssumption DEF Linked, TypeOK, ArgOwned
  <2> QED BY <2>1, <2>2, <2>3, <2>4, <2>5, <2>6 DEF Linked
<1>6. TokenConservation'
  <2>1. Cardinality(Claims') = Cardinality(Claims) + 1
    BY <1>2, ClaimTaken DEF Claiming
  <2> QED BY <2>1, <1>2, <1>3, ClaimsFinite DEF TypeOK, TokenConservation
<1>7. Mutex'
  BY <1>2 DEF TypeOK, Mutex
<1>8. StillValid'
  BY <1>2 DEF TypeOK, StillValid
<1>9. ArgOwned'
  BY <1>1, <1>2 DEF TypeOK, ArgOwned
<1> QED BY <1>4, <1>5, <1>6, <1>7, <1>8, <1>9

\* Popping the front node keeps the rest of the list threaded.
LEMMA PopLinked ==
  ASSUME TypeOK, Linked, list # <<>>, PopFront
  PROVE  /\ Linked'
         /\ list' \in Seq(Nodes) /\ Len(list) \in Nat /\ Len(list') = Len(list) - 1
         /\ \A m \in 1..Len(list') : list'[m] = list[m + 1]
         /\ front = list[1] /\ live' = live \ {front}
         /\ front' \in Nodes \cup {NULL} /\ rear' \in Nodes \cup {NULL}
         /\ next' \in [Nodes -> Nodes \cup {NULL}]
         /\ item' = [item EXCEPT ![front] = NULL]
         /\ item' \in [Nodes -> Items \cup {NULL}]
<1>1. /\ list \in Seq(Nodes) /\ Len(list) \in Nat /\ Len(list) >= 1
      /\ front = list[1] /\ rear = list[Len(list)] /\ front \in Nodes
  BY DEF TypeOK, Linked
<1>2. /\ list' \in Seq(Nodes) /\ Len(list') = Len(list) - 1
      /\ \A m \in 1..Len(list') : list'[m] = list[m + 1]
  BY <1>1, HeadTailProperties DEF PopFront
<1>3. live' = live \ {front} /\ next' = [next EXCEPT ![front] = NULL]
      /\ item' = [item EXCEPT ![front] = NULL]
  BY DEF PopFront
<1>4. front # rear <=> Len(list) > 1
  BY <1>1 DEF Linked
<1>5. /\ front' = IF list' = <<>> THEN NULL ELSE list'[1]
      /\ rear' = IF list' = <<>> THEN NULL ELSE list'[Len(list')]
  <2>1. CASE Len(list) = 1
    BY <2>1, <1>1, <1>2, <1>4 DEF PopFront
  <2>2. CASE Len(list) > 1
    <3>1. front' = next[list[1]] /\ rear' = list[Len(list)]
      BY <2>2, <1>1, <1>4 DEF PopFront
    <3>2. next[list[1]] = list[2]
      BY <2>2, <1>1 DEF Linked
    <3> QED BY <2>2, <3>1, <3>2, <1>1, <1>2
  <2>3. \A k \in Nat : k >= 1 => k = 1 \/ k > 1
    OBVIOUS
  <2>4. Len(list) = 1 \/ Len(list) > 1
    BY <1>1, <2>3
  <2> QED BY <2>1, <2>2, <2>4
<1>6. \A m \in 2..Len(list) : list[m] # front
  BY <1>1 DEF Linked
<1>7. live' = {list'[m] : m \in 1..Len(list')}
  <2>1. ASSUME NEW x \in live' PROVE \E m \in 1..Len(list') : list'[m] = x
    <3>1. PICK m \in 1..Len(list) : list[m] = x
      BY <1>3 DEF Linked
    <3>2. m # 1 /\ m - 1 \in 1..Len(list')
      BY <3>1, <1>1, <1>2, <1>3
    <3>3. list'[m - 1] = list[(m - 1) + 1] /\ (m - 1) + 1 = m
      BY <3>2, <1>2
    <3> QED BY <3>1, <3>2, <3>3
  <2>2. ASSUME NEW m \in 1..Len(list') PROVE list'[m] \in live'
    <3>1. m + 1 \in 2..Len(list) /\ list'[m] = list[m + 1]
      BY <1>1, <1>2
    <3> QED BY <3>1, <1>1, <1>3, <1>6 DEF Linked
  <2> QED BY <2>1, <2>2
<1>8. \A l, m \in 1..Len(list') : list'[l] = list'[m] => l = m
  BY <1>1, <1>2 DEF Linked
<1>9. \A m \in 1..Len(list') - 1 : next'[list'[m]] = list'[m + 1]
  <2> SUFFICES ASSUME NEW m \in 1..Len(list') - 1
               PROVE  next'[list'[m]] = list'[m + 1]
    OBVIOUS
  <2>1. /\ list'[m] = list[m + 1] /\ list'[m + 1] = list[m + 2]
        /\ m + 1 \in 2..Len(list) - 1
    BY <1>1, <1>2
  <2>2. next[list[m + 1]] = list[m + 2] /\ list[m + 1] \in Nodes
    BY <2>1, <1>1 DEF Linked
  <2> QED BY <2>1, <2>2, <1>3, <1>6 DEF TypeOK
<1>10. Linked'
  <2>1. \A n \in live' : item'[n] # NULL
    BY <1>3 DEF TypeOK, Linked
  <2> QED BY <2>1, <1>5, <1>7, <1>8, <1>9 DEF Linked
<1>11. front' \in Nodes \cup {NULL} /\ rear' \in Nodes \cup {NULL}
  BY <1>1, <1>2, <1>5
<1> QED BY <1>1, <1>2, <1>3, <1>10, <1>11 DEF TypeOK

LEMMA DeqPopPreserves ==
  ASSUME IInv, NEW t \in Threads, DeqPop(t)
  PROVE  IInv'
<1> USE DEF IInv
<1>1. pc[t] \in {"deq_pop", "inv_pop"} /\ ~invalid /\ PopFront
  BY DEF DeqPop, Goto, StillValid
<1>2. list # <<>> /\ front \in live /\ Len(list) >= 1
  BY <1>1, FrontExists
<1>3. /\ Linked'
      /\ list' \in Seq(Nodes) /\ Len(list) \in Nat /\ Len(list') = Len(list) - 1
      /\ live' = live \ {front}
      /\ front' \in Nodes \cup {NULL} /\ rear' \in Nodes \cup {NULL}
      /\ next' \in [Nodes -> Nodes \cup {NULL}]
      /\ item' = [item EXCEPT ![front] = NULL]
      /\ item' \in [Nodes -> Items \cup {NULL}]
  BY <1>1, <1>2, PopLinked
<1>4. item[front] \in Items
  BY <1>2 DEF TypeOK, Linked
<1>5. TypeOK'
  BY <1>2, <1>3, <1>4 DEF DeqPop, TypeOK, Goto
<1>6. TokenConservation'
  <2>1. Cardinality(Claims') = Cardinality(Claims) - 1
    BY ClaimDropped DEF DeqPop, Claiming, Goto
  <2> QED BY <2>1, <1>1, <1>3, ClaimsFinite DEF DeqPop, TypeOK, TokenConservation
<1>7. Mutex'
  BY DEF DeqPop, TypeOK, Mutex, Goto
<1>8. StillValid'
  BY DEF DeqPop, TypeOK, StillValid, Goto
<1>9. ArgOwned'
  BY <1>2, <1>3 DEF DeqPop, TypeOK, ArgOwned, Goto
<1> QED BY <1>3, <1>5, <1>6, <1>7, <1>8, <1>9

LEMMA InvPopPreserves ==
  ASSUME IInv, NEW t \in Threads, InvPop(t)
  PROVE  IInv'
<1> USE DEF IInv
<1>1. pc[t] \in {"deq_pop", "inv_pop"} /\ ~invalid /\ PopFront
  BY DEF InvPop, Goto, StillValid
<1>2. list # <<>> /\ front \in live /\ Len(list) >= 1
  BY <1>1, FrontExists
<1>3. /\ Linked'
      /\ list' \in Seq(Nodes) /\ Len(list) \in Nat /\ Len(list') = Len(list) - 1
      /\ live' = live \ {front}
      /\ front' \in Nodes \cup {NULL} /\ rear' \in Nodes \cup {NULL}
      /\ next' \in [Nodes -> Nodes \cup {NULL}]
      /\ item' = [item EXCEPT ![front] = NULL]
      /\ item' \in [Nodes -> Items \cup {NULL}]
  BY <1>1, <1>2, PopLinked
<1>4. item[front] \in Items
  BY <1>2 DEF TypeOK, Linked
<1>5. TypeOK'
  BY <1>2, <1>3, <1>4 DEF InvPop, TypeOK, Goto
<1>6. TokenConservation'
  <2>1. Cardinality(Claims') = Cardinality(Claims) - 1
    BY ClaimDropped DEF InvPop, Claiming, Goto
  <2> QED BY <2>1, <1>1, <1>3, ClaimsFinite DEF InvPop, TypeOK, TokenConservation
<1>7. Mutex'
  BY DEF InvPop, TypeOK, Mutex, Goto
<1>8. StillValid'
  BY DEF InvPop, TypeOK, StillValid, Goto
<1>9. ArgOwned'
  BY <1>2, <1>3 DEF InvPop, TypeOK, ArgOwned, Goto
<1> QED BY <1>3, <1>5, <1>6, <1>7, <1>8, <1>9

-----------------------------------------------------------------------------
(* The theorems.                                                           *)

\* The invariant of queue.c holds from create_queue on, whatever its callers do.
THEOREM Invariance == Spec => []IInv
<1>1. Init => IInv
  <2> SUFFICES ASSUME Init PROVE IInv
    OBVIOUS
  <2>1. Claims = {}
    BY DEF Init, Claims
  <2>2. Cardinality(Claims) = 0
    BY <2>1, FS_EmptySet
  <2>3. TypeOK
    <3>1. <<>> \in Seq(Nodes) /\ 0 \in Nat
      OBVIOUS
    <3>2. /\ pc \in [Threads -> Steps] /\ arg \in [Threads -> Items \cup {NULL}]
          /\ got \in [Threads -> Items \cup {NULL}]
      BY DEF Init
    <3> QED BY <3>1, <3>2 DEF Init, create_queue, TypeOK
  <2>4. Linked
    BY DEF Init, create_queue, Linked
  <2>5. TokenConservation
    BY <2>2 DEF Init, create_queue, TokenConservation
  <2>6. Mutex /\ StillValid /\ ArgOwned
    BY QueueAssumption DEF Init, create_queue, Mutex, StillValid, ArgOwned, Threads
  <2> QED BY <2>3, <2>4, <2>5, <2>6 DEF IInv
<1>2. IInv /\ [Next]_vars => IInv'
  <2> SUFFICES ASSUME IInv, [Next]_vars PROVE IInv'
    OBVIOUS
  <2>1. ASSUME NEW t \in Enqueuers, CallEnqueue(t) PROVE IInv'
    BY <2>1, CallEnqueuePreserves
  <2>2. ASSUME NEW t \in Dequeuers, CallDequeue(t) PROVE IInv'
    BY <2>2, CallDequeuePreserves
  <2>3. ASSUME NEW t \in Invalidators, CallInvalidate(t) PROVE IInv'
    BY <2>3, CallInvalidatePreserves
  <2>4. ASSUME NEW t \in Threads, Step(t) PROVE IInv'
    BY <2>4, TakeLockPreserves, RejectPreserves, UnlockPreserves, EnqLinkPreserves,
       EnqPostPreserves, DeqWaitPreserves, DeqPopPreserves, InvCheckPreserves,
       InvWaitPreserves, InvPopPreserves DEF Step
  <2>5. CASE UNCHANGED vars
    BY <2>5 DEF vars, ptrs, IInv, TypeOK, Linked, TokenConservation, Claims, Mutex,
       StillValid, ArgOwned
  <2> QED BY <2>1, <2>2, <2>3, <2>4, <2>5 DEF Next
<1> QED BY <1>1, <1>2, PTL DEF Spec

\* The pointers of queue.c thread exactly the allocated nodes, at every moment of
\* every interleaving of any number of callers.
THEOREM PointersLinked == Spec => []Linked
<1>1. IInv => Linked
  BY DEF IInv
<1> QED BY <1>1, Invariance, PTL

\* While the queue is valid, tokens left and tokens taken add up to the nodes.
THEOREM TokensMatchNodes == Spec => []TokenConservation
<1>1. IInv => TokenConservation
  BY DEF IInv
<1> QED BY <1>1, Invariance, PTL

\* No thread dereferences a NULL front, for any number of threads: the token a
\* caller took before the lock is a node nobody else may pop.
THEOREM NullSafety == Spec => []NoNullDeref
<1>1. IInv => NoNullDeref
  <2> SUFFICES ASSUME IInv, NEW t \in Threads,
                      pc[t] = "inv_pop" \/ (pc[t] = "deq_pop" /\ ~invalid)
               PROVE  front # NULL
    BY DEF NoNullDeref
  <2>1. ~invalid /\ pc[t] \in {"deq_pop", "inv_pop"}
    BY DEF IInv, StillValid
  <2>2. front \in live
    BY <2>1, FrontExists
  <2> QED BY <2>2, QueueAssumption DEF IInv, TypeOK
<1> QED BY <1>1, Invariance, PTL

-----------------------------------------------------------------------------
(* The refinement: what the abstract queue contains before and after.      *)

Contents == [n \in 1..Len(list) |-> item[list[n]]]

LEMMA LinkAppends ==
  ASSUME IInv, NEW t \in Threads, EnqLink(t)
  PROVE  Contents' = Append(Contents, arg[t]) /\ arg[t] \in Items
<1> USE DEF IInv
<1>1. PICK n \in Nodes \ live : item' = [item EXCEPT ![n] = arg[t]] /\ list' = Append(list, n)
  BY DEF EnqLink
<1>2. arg[t] \in Items
  BY DEF EnqLink, Goto, TypeOK, ArgOwned
<1>3. /\ Len(list) \in Nat /\ Len(list') = Len(list) + 1 /\ list'[Len(list')] = n
      /\ \A m \in 1..Len(list) : list'[m] = list[m] /\ list[m] # n /\ list[m] \in Nodes
  BY <1>1 DEF TypeOK, Linked
<1>4. Contents \in Seq(Items \cup {NULL}) /\ Len(Contents) = Len(list)
  BY <1>3 DEF Contents, TypeOK
<1>5. \A m \in 1..Len(list') : item'[list'[m]] = Append(Contents, arg[t])[m]
  BY <1>1, <1>3, <1>4 DEF Contents, TypeOK
<1>6. Append(Contents, arg[t]) = [m \in 1..Len(list') |-> Append(Contents, arg[t])[m]]
  BY <1>3, <1>4
<1> QED BY <1>2, <1>5, <1>6 DEF Contents

LEMMA PopTakesHead ==
  ASSUME IInv, list # <<>>, PopFront
  PROVE  Contents # <<>> /\ Head(Contents) = item[front] /\ Contents' = Tail(Contents)
<1> USE DEF IInv
<1>1. /\ list' \in Seq(Nodes) /\ Len(list) \in Nat /\ Len(list') = Len(list) - 1
      /\ \A m \in 1..Len(list') : list'[m] = list[m + 1]
      /\ front = list[1] /\ item' = [item EXCEPT ![front] = NULL]
  BY PopLinked
<1>2. Len(list) >= 1 /\ \A m \in 1..Len(list) : list[m] \in Nodes
  BY <1>1 DEF TypeOK
<1>3. /\ Contents \in Seq(Items \cup {NULL}) /\ Len(Contents) = Len(list)
      /\ \A m \in 1..Len(list) : Contents[m] = item[list[m]]
  BY <1>1, <1>2 DEF Contents, TypeOK
<1>4. \A m \in 1..Len(list') : item'[list'[m]] = Contents[m + 1]
  <2> SUFFICES ASSUME NEW m \in 1..Len(list') PROVE item'[list'[m]] = Contents[m + 1]
    OBVIOUS
  <2>1. m + 1 \in 1..Len(list) /\ m + 1 # 1 /\ list'[m] = list[m + 1]
    BY <1>1
  <2>2. list[m + 1] # front
    BY <2>1, <1>1, <1>2 DEF Linked
  <2> QED BY <2>1, <2>2, <1>1, <1>2, <1>3 DEF TypeOK
<1>5. /\ Tail(Contents) \in Seq(Items \cup {NULL}) /\ Len(Tail(Contents)) = Len(list')
      /\ \A m \in 1..Len(list') : Tail(Contents)[m] = Contents[m + 1]
  <2>1. Contents # <<>> /\ Len(list') = Len(Contents) - 1
    BY <1>1, <1>2, <1>3
  <2> QED BY <1>3, <2>1, HeadTailProperties
<1>6. /\ Contents' \in Seq(Items \cup {NULL}) /\ Len(Contents') = Len(list')
      /\ \A m \in 1..Len(list') : Contents'[m] = item'[list'[m]]
  <2>1. item' \in [Nodes -> Items \cup {NULL}]
    BY <1>1 DEF TypeOK
  <2> QED BY <1>1, <2>1 DEF Contents
<1>7. Contents' = Tail(Contents)
  BY <1>1, <1>4, <1>5, <1>6, SeqEqual, SMTT(30)
<1> QED BY <1>1, <1>2, <1>3, <1>7

\* The linked list with its semaphore and its mutex implements the abstract queue,
\* for any number of threads, items and nodes.
THEOREM Refinement == Spec => RefinesFifo
<1>1. Init => Abstract!FifoInit
  <2> SUFFICES ASSUME Init PROVE Abstract!FifoInit
    OBVIOUS
  <2>1. [n \in 1..Len(list) |-> item[list[n]]] = <<>>
    BY DEF Init, create_queue
  <2> QED BY <2>1 DEF Init, create_queue, Abstract!FifoInit, Threads
<1>2. IInv /\ [Next]_vars => [Abstract!FifoNext]_(Abstract!fifoVars)
  <2> SUFFICES ASSUME IInv, [Next]_vars PROVE [Abstract!FifoNext]_(Abstract!fifoVars)
    OBVIOUS
  <2>1. ASSUME UNCHANGED <<ptrs, got, destroyed, invalid>>
        PROVE  UNCHANGED Abstract!fifoVars
    BY <2>1 DEF ptrs, Abstract!fifoVars
  <2>2. ASSUME NEW t \in Enqueuers, CallEnqueue(t) PROVE UNCHANGED Abstract!fifoVars
    BY <2>1, <2>2 DEF CallEnqueue
  <2>3. ASSUME NEW t \in Dequeuers, CallDequeue(t) PROVE Abstract!Release(t)
    BY <2>3 DEF CallDequeue, ptrs, Abstract!Release
  <2>4. ASSUME NEW t \in Invalidators, CallInvalidate(t) PROVE UNCHANGED Abstract!fifoVars
    BY <2>1, <2>4 DEF CallInvalidate
  <2>5. ASSUME NEW t \in Threads,
               TakeLock(t) \/ Reject(t) \/ Unlock(t) \/ EnqPost(t) \/ DeqWait(t) \/ InvWait(t)
        PROVE  UNCHANGED Abstract!fifoVars
    BY <2>1, <2>5 DEF TakeLock, Reject, Unlock, EnqPost, DeqWait, InvWait
  <2>6. ASSUME NEW t \in Threads, EnqLink(t), NEW i \in Items, i = arg[t]
        PROVE  Abstract!Enqueue(i)
    <3>1. Contents' = Append(Contents, arg[t])
      BY <2>6, LinkAppends
    <3>2. arg[t] # NULL
      BY <2>6 DEF EnqLink, Goto, IInv, ArgOwned
    <3>3. \A n \in DOMAIN Contents : Contents[n] # i
      BY <2>6, <3>2 DEF Contents, IInv, ArgOwned, Linked
    <3>4. /\ arg[t] \notin destroyed /\ \A u \in Threads : got[u] # arg[t]
          /\ ~invalid /\ UNCHANGED <<got, destroyed, invalid>>
      BY <2>6, <3>2 DEF EnqLink, IInv, ArgOwned
    <3> QED BY <2>6, <3>1, <3>3, <3>4 DEF Contents, Abstract!Enqueue
  <2>7. ASSUME NEW t \in Threads, DeqPop(t) PROVE Abstract!Dequeue(t)
    <3>1. list # <<>> /\ PopFront /\ ~invalid
      BY <2>7, FrontExists DEF DeqPop, Goto
    <3>2. Contents # <<>> /\ Head(Contents) = item[front] /\ Contents' = Tail(Contents)
      BY <3>1, PopTakesHead
    <3> QED BY <2>7, <3>1, <3>2 DEF DeqPop, Contents, Abstract!Dequeue
  <2>8. ASSUME NEW t \in Threads, InvPop(t) PROVE Abstract!Destroy
    <3>1. ~invalid
      BY <2>8 DEF InvPop, Goto, IInv, StillValid
    <3>2. list # <<>> /\ PopFront
      BY <2>8, <3>1, FrontExists DEF InvPop, Goto
    <3>3. Contents # <<>> /\ Head(Contents) = item[front] /\ Contents' = Tail(Contents)
      BY <3>2, PopTakesHead
    <3> QED BY <2>8, <3>1, <3>3 DEF InvPop, Contents, Abstract!Destroy
  <2>9. ASSUME NEW t \in Threads, InvCheck(t)
        PROVE  Abstract!Close \/ UNCHANGED Abstract!fifoVars
    <3>1. CASE UNCHANGED invalid
      BY <2>1, <2>9, <3>1 DEF InvCheck
    <3>2. CASE invalid' = TRUE
      BY <2>9, <3>2 DEF InvCheck, ptrs, Abstract!Close
    <3> QED BY <2>9, <3>1, <3>2 DEF InvCheck
  <2>10. CASE UNCHANGED vars
    BY <2>1, <2>10 DEF vars
  <2> QED
    <3>1. ASSUME NEW t \in Threads, Step(t) PROVE [Abstract!FifoNext]_(Abstract!fifoVars)
      <4>1. CASE EnqLink(t)
        <5>1. PICK i \in Items : i = arg[t]
          BY <4>1, LinkAppends
        <5>2. Abstract!Enqueue(i)
          BY <4>1, <5>1, <2>6
        <5> QED BY <5>2 DEF Abstract!FifoNext
      <4>2. CASE DeqPop(t)
        BY <4>2, <2>7 DEF Abstract!FifoNext, Threads
      <4>3. CASE InvPop(t)
        BY <4>3, <2>8 DEF Abstract!FifoNext
      <4>4. CASE InvCheck(t)
        BY <4>4, <2>9 DEF Abstract!FifoNext
      <4> QED BY <3>1, <4>1, <4>2, <4>3, <4>4, <2>5 DEF Step
    <3>2. ASSUME NEW t \in Dequeuers, CallDequeue(t) PROVE Abstract!FifoNext
      BY <3>2, <2>3 DEF Abstract!FifoNext, Threads
    <3> QED BY <2>2, <2>4, <2>10, <3>1, <3>2 DEF Next
<1> QED BY <1>1, <1>2, Invariance, PTL DEF Spec, RefinesFifo, Abstract!FifoSpec
=============================================================================
