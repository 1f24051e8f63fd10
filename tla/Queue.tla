------------------------------- MODULE Queue --------------------------------
(***************************************************************************)
(* hw5/src/queue.c: the linked list behind cream's request queue, its      *)
(* counting semaphore `items` and its mutex `lock`.  Every blocking call   *)
(* (pthread_mutex_lock, sem_wait) is a step of its own, every critical     *)
(* section between two of them is one step.  A node is freed (and forgets  *)
(* its fields) and allocated again as malloc would; `list` is a ghost: the *)
(* nodes from front to rear.                                               *)
(***************************************************************************)
EXTENDS Naturals, Sequences, FiniteSets

CONSTANTS Enqueuers, Dequeuers, Invalidators,  \* the threads, by what they call
          Items, Nodes, NULL

ASSUME QueueAssumption == /\ NULL \notin Nodes \cup Items
                          /\ NULL \notin Enqueuers \cup Dequeuers \cup Invalidators
                          /\ IsFiniteSet(Enqueuers \cup Dequeuers \cup Invalidators)

VARIABLES front, rear, next, item,  \* the fields of queue_t and queue_node_t
          live,                     \* the nodes calloc has handed out
          items, lock, invalid,
          pc, arg, got, destroyed,  \* the callers; arg[t]: item t is enqueuing
          list

ptrs == <<front, rear, next, item, live, list>>
vars == <<ptrs, items, lock, invalid, pc, arg, got, destroyed>>
Threads == Enqueuers \cup Dequeuers \cup Invalidators

create_queue ==
  /\ front = NULL /\ rear = NULL /\ live = {} /\ list = <<>>
  /\ next = [n \in Nodes |-> NULL] /\ item = [n \in Nodes |-> NULL]
  /\ items = 0 /\ lock = NULL /\ invalid = FALSE

Init == /\ create_queue
        /\ pc = [t \in Threads |-> "idle"]
        /\ arg = [t \in Threads |-> NULL]
        /\ got = [t \in Threads |-> NULL]
        /\ destroyed = {}

Goto(t, a, b) == pc[t] = a /\ pc' = [pc EXCEPT ![t] = b]

\* An item is the caller's to enqueue while nobody else holds it.
Owned(i) == /\ i \notin destroyed
            /\ \A t \in Threads : arg[t] # i /\ got[t] # i
            /\ \A n \in live : item[n] # i

-----------------------------------------------------------------------------
(* The calls: what happens before the first blocking step.                 *)

CallEnqueue(t) == /\ Goto(t, "idle", "enq_lock")
                  /\ \E i \in Items : Owned(i) /\ arg' = [arg EXCEPT ![t] = i]
                  /\ UNCHANGED <<ptrs, items, lock, invalid, got, destroyed>>

CallDequeue(t) == /\ Goto(t, "idle", "deq_wait")
                  /\ got' = [got EXCEPT ![t] = NULL]
                  /\ UNCHANGED <<ptrs, items, lock, invalid, arg, destroyed>>

CallInvalidate(t) == /\ Goto(t, "idle", "inv_lock")
                     /\ UNCHANGED <<ptrs, items, lock, invalid, arg, got, destroyed>>

-----------------------------------------------------------------------------
(* The mutex.                                                              *)

TakeLock(t) == /\ \/ Goto(t, "enq_lock", "enq_link")
                  \/ Goto(t, "deq_lock", "deq_pop")
                  \/ Goto(t, "inv_lock", "inv_check")
               /\ lock = NULL
               /\ lock' = t
               /\ UNCHANGED <<ptrs, items, invalid, arg, got, destroyed>>

\* Each operation looks at `invalid` first thing under the lock.
Reject(t) == /\ invalid
             /\ pc[t] \in {"enq_link", "deq_pop", "inv_check"}
             /\ pc' = [pc EXCEPT ![t] = "idle"]
             /\ lock' = NULL
             /\ arg' = [arg EXCEPT ![t] = NULL]
             /\ UNCHANGED <<ptrs, items, invalid, got, destroyed>>

Unlock(t) == /\ Goto(t, "unlock", "idle")
             /\ lock' = NULL
             /\ UNCHANGED <<ptrs, items, invalid, arg, got, destroyed>>

-----------------------------------------------------------------------------
(* enqueue.  A first node points at itself until a second one follows it.  *)

\* Mutant: the check of `invalid` is dropped.
EnqLink_unchecked(t) ==
  /\ Goto(t, "enq_link", "enq_post")
  /\ \E n \in Nodes \ live :
       /\ live' = live \cup {n}
       /\ item' = [item EXCEPT ![n] = arg[t]]
       /\ next' = IF front = NULL THEN [next EXCEPT ![n] = n]
                                  ELSE [next EXCEPT ![n] = NULL, ![rear] = n]
       /\ front' = IF front = NULL THEN n ELSE front
       /\ rear' = n
       /\ list' = Append(list, n)
  /\ arg' = [arg EXCEPT ![t] = NULL]
  /\ UNCHANGED <<items, lock, invalid, got, destroyed>>

\* Mutant: the new node goes in front of the others.
EnqLink_atFront(t) ==
  /\ Goto(t, "enq_link", "enq_post")
  /\ ~invalid
  /\ \E n \in Nodes \ live :
       /\ live' = live \cup {n}
       /\ item' = [item EXCEPT ![n] = arg[t]]
       /\ next' = [next EXCEPT ![n] = front]
       /\ front' = n
       /\ rear' = IF front = NULL THEN n ELSE rear
       /\ list' = <<n>> \o list
  /\ arg' = [arg EXCEPT ![t] = NULL]
  /\ UNCHANGED <<items, lock, invalid, got, destroyed>>

EnqLink(t) ==
  /\ Goto(t, "enq_link", "enq_post")
  /\ ~invalid
  /\ \E n \in Nodes \ live :
       /\ live' = live \cup {n}
       /\ item' = [item EXCEPT ![n] = arg[t]]
       /\ next' = IF front = NULL THEN [next EXCEPT ![n] = n]
                                  ELSE [next EXCEPT ![n] = NULL, ![rear] = n]
       /\ front' = IF front = NULL THEN n ELSE front
       /\ rear' = n
       /\ list' = Append(list, n)
  /\ arg' = [arg EXCEPT ![t] = NULL]
  /\ UNCHANGED <<items, lock, invalid, got, destroyed>>

\* Mutant: the semaphore is not posted.
EnqPost_missing(t) == /\ Goto(t, "enq_post", "unlock")
                      /\ UNCHANGED <<ptrs, items, lock, invalid, arg, got, destroyed>>

EnqPost(t) == /\ Goto(t, "enq_post", "unlock")
              /\ items' = items + 1
              /\ UNCHANGED <<ptrs, lock, invalid, arg, got, destroyed>>

-----------------------------------------------------------------------------
(* Taking the front node off the list and freeing it: dequeue and          *)
(* invalidate_queue run the same code.                                     *)

\* Mutant: the last node leaves and rear still points at it.
PopFront_staleRear == /\ IF front # rear THEN front' = next[front]
                                         ELSE front' = NULL
                      /\ live' = live \ {front}
                      /\ list' = Tail(list)
                      /\ next' = [next EXCEPT ![front] = NULL]
                      /\ item' = [item EXCEPT ![front] = NULL]
                      /\ UNCHANGED rear

PopFront == /\ IF front # rear THEN front' = next[front] /\ UNCHANGED rear
                               ELSE front' = NULL /\ rear' = NULL
            /\ live' = live \ {front}
            /\ list' = Tail(list)
            /\ next' = [next EXCEPT ![front] = NULL]
            /\ item' = [item EXCEPT ![front] = NULL]

DeqWait(t) == /\ Goto(t, "deq_wait", "deq_lock")
              /\ items > 0
              /\ items' = items - 1
              /\ UNCHANGED <<ptrs, lock, invalid, arg, got, destroyed>>

DeqPop(t) == /\ Goto(t, "deq_pop", "unlock")
             /\ ~invalid
             /\ PopFront
             /\ got' = [got EXCEPT ![t] = item[front]]
             /\ UNCHANGED <<items, lock, invalid, arg, destroyed>>

-----------------------------------------------------------------------------
(* invalidate_queue.  sem_getvalue and sem_wait are two steps: a dequeuer  *)
(* does not need the lock to take the token in between.                    *)

InvCheck(t) == /\ ~invalid
               /\ \/ items > 0 /\ Goto(t, "inv_check", "inv_wait") /\ UNCHANGED invalid
                  \/ items = 0 /\ Goto(t, "inv_check", "unlock") /\ invalid' = TRUE
               /\ UNCHANGED <<ptrs, items, lock, arg, got, destroyed>>

\* Mutant: the destructor loop pops without taking a token.
InvWait_noToken(t) == /\ Goto(t, "inv_wait", "inv_pop")
                      /\ UNCHANGED <<ptrs, items, lock, invalid, arg, got, destroyed>>

InvWait(t) == /\ Goto(t, "inv_wait", "inv_pop")
              /\ items > 0
              /\ items' = items - 1
              /\ UNCHANGED <<ptrs, lock, invalid, arg, got, destroyed>>

InvPop(t) == /\ Goto(t, "inv_pop", "inv_check")
             /\ PopFront
             /\ destroyed' = destroyed \cup {item[front]}
             /\ UNCHANGED <<items, lock, invalid, arg, got>>

-----------------------------------------------------------------------------
Step(t) == \/ TakeLock(t) \/ Reject(t) \/ Unlock(t)
           \/ EnqLink(t) \/ EnqPost(t)
           \/ DeqWait(t) \/ DeqPop(t)
           \/ InvCheck(t) \/ InvWait(t) \/ InvPop(t)

Next == \/ \E t \in Enqueuers : CallEnqueue(t)
        \/ \E t \in Dequeuers : CallDequeue(t)
        \/ \E t \in Invalidators : CallInvalidate(t)
        \/ \E t \in Threads : Step(t)

Spec == Init /\ [][Next]_vars

(* The scheduler runs every thread that can run, and a worker comes back   *)
(* for the next connection; nobody is obliged to connect or to invalidate. *)
Fairness == /\ \A t \in Threads : WF_vars(Step(t))
            /\ \A t \in Dequeuers : WF_vars(CallDequeue(t))

FairSpec == Spec /\ Fairness

-----------------------------------------------------------------------------
(* The properties.                                                         *)

Steps == {"idle", "enq_lock", "enq_link", "enq_post", "deq_wait", "deq_lock",
          "deq_pop", "inv_lock", "inv_check", "inv_wait", "inv_pop", "unlock"}

\* Every field holds a value of its C type; the semaphore is never negative.
TypeOK == /\ front \in Nodes \cup {NULL} /\ rear \in Nodes \cup {NULL}
          /\ lock \in Threads \cup {NULL}
          /\ next \in [Nodes -> Nodes \cup {NULL}]
          /\ item \in [Nodes -> Items \cup {NULL}]
          /\ live \subseteq Nodes
          /\ list \in Seq(Nodes)
          /\ items \in Nat
          /\ invalid \in BOOLEAN
          /\ pc \in [Threads -> Steps]
          /\ arg \in [Threads -> Items \cup {NULL}]
          /\ got \in [Threads -> Items \cup {NULL}]
          /\ destroyed \subseteq Items

\* The pointers front, rear and next thread exactly the allocated nodes, each
\* once, in the order they came, and each carries an item: no node leaks, and
\* none is reachable once freed (queue.c 55-66, 85-94 and 25-34).
Linked == /\ live = {list[n] : n \in 1..Len(list)}
          /\ \A m, n \in 1..Len(list) : list[m] = list[n] => m = n
          /\ \A n \in live : item[n] # NULL
          /\ front = IF list = <<>> THEN NULL ELSE list[1]
          /\ rear = IF list = <<>> THEN NULL ELSE list[Len(list)]
          /\ \A n \in 1..Len(list) - 1 : next[list[n]] = list[n + 1]

\* A thread owes the list a pop once it has a token, and the semaphore a post
\* once it has linked a node.
Claims == {t \in Threads : pc[t] \in {"enq_post", "deq_lock", "deq_pop", "inv_pop"}}

\* While the queue is valid the semaphore and the tokens in the callers' hands
\* add up to the nodes in the list (sem_wait at 79 happens before the lock).
TokenConservation == ~invalid => Len(list) = items + Cardinality(Claims)

\* Nobody reads node->item through a NULL front (queue.c 26 and 86): a token
\* guarantees a node, whoever else pops between sem_wait and the lock.
NoNullDeref == \A t \in Threads :
                 (pc[t] = "inv_pop" \/ (pc[t] = "deq_pop" /\ ~invalid)) => front # NULL

\* The mutex is held from the lock to the unlock of each operation.
Mutex == \A t \in Threads :
           lock = t <=> pc[t] \in {"enq_link", "enq_post", "deq_pop", "inv_check",
                                  "inv_wait", "inv_pop", "unlock"}

\* An operation that has found the queue valid is the only one that could change
\* that before it is done.
StillValid == \A t \in Threads : pc[t] \in {"enq_post", "inv_wait", "inv_pop"} => ~invalid

\* What a thread is enqueuing is nobody else's.
ArgOwned == \A t \in Threads :
              /\ pc[t] \in {"enq_lock", "enq_link"} => arg[t] # NULL
              /\ arg[t] # NULL => /\ arg[t] \notin destroyed
                                  /\ \A u \in Threads : got[u] # arg[t]
                                  /\ \A u \in Threads : arg[u] = arg[t] => u = t
                                  /\ \A n \in live : item[n] # arg[t]

\* The inductive invariant of queue.c: the pointers and the tokens above, the mutex
\* that keeps the critical sections apart, and who owns an item on its way in.
IInv == TypeOK /\ Linked /\ TokenConservation /\ Mutex /\ StillValid /\ ArgOwned

\* The linked list implements the abstract queue: first in first out, each item
\* to one dequeuer or to the destructor, nothing accepted or handed out once
\* the queue is invalid (queue.c 12-100).
Abstract == INSTANCE Fifo WITH q <- [n \in 1..Len(list) |-> item[list[n]]],
                               closed <- invalid
RefinesFifo == Abstract!FifoSpec

\* An item that enqueue has linked is eventually handed to a dequeuer, whatever
\* the threads do in between, or else somebody has called invalidate_queue.
Queued(i) == \E n \in 1..Len(list) : item[list[n]] = i
Undisturbed == ~invalid /\ \A t \in Invalidators : pc[t] = "idle"
EnqueuedIsTaken == \A i \in Items :
    Queued(i) ~> (\E t \in Dequeuers : got[t] = i) \/ i \in destroyed \/ ~Undisturbed

\* queue.h 42: invalidate_queue returns true or false.  It may instead sleep at
\* line 24 with the mutex held, when a dequeuer took the token it had seen.
InvalidateReturns == \A t \in Invalidators : pc[t] = "inv_lock" ~> pc[t] = "idle"
=============================================================================
