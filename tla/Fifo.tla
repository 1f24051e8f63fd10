-------------------------------- MODULE Fifo --------------------------------
(***************************************************************************)
(* What hw5/include/queue.h promises of a queue_t, with every call atomic: *)
(* items come out oldest first, each to one thread or to the destructor.   *)
(* Queue.tla implements it; Cream.tla runs the server on top of it.        *)
(***************************************************************************)
EXTENDS Sequences, Naturals

CONSTANTS Items,    \* what callers put in: pointers to accepted descriptors
          Threads,  \* the threads that may call
          NULL

VARIABLES q,          \* the items in the queue, oldest first
          got,        \* got[t]: the item t's last dequeue returned, or NULL
          destroyed,  \* the items passed to the destructor
          closed      \* set once invalidate_queue has marked the queue

fifoVars == <<q, got, destroyed, closed>>

FifoInit == /\ q = <<>>
            /\ got = [t \in Threads |-> NULL]
            /\ destroyed = {}
            /\ closed = FALSE

Enqueue(i) == /\ ~closed
              /\ i \notin destroyed
              /\ \A n \in DOMAIN q : q[n] # i
              /\ \A t \in Threads : got[t] # i
              /\ q' = Append(q, i)
              /\ UNCHANGED <<got, destroyed, closed>>

Dequeue(t) == /\ ~closed
              /\ q # <<>>
              /\ got' = [got EXCEPT ![t] = Head(q)]
              /\ q' = Tail(q)
              /\ UNCHANGED <<destroyed, closed>>

\* The caller is done with the item its last dequeue returned.
Release(t) == /\ got' = [got EXCEPT ![t] = NULL]
              /\ UNCHANGED <<q, destroyed, closed>>

Destroy == /\ ~closed
           /\ q # <<>>
           /\ destroyed' = destroyed \cup {Head(q)}
           /\ q' = Tail(q)
           /\ UNCHANGED <<got, closed>>

Close == ~closed /\ closed' = TRUE /\ UNCHANGED <<q, got, destroyed>>

FifoNext == \/ \E i \in Items : Enqueue(i)
            \/ \E t \in Threads : Dequeue(t) \/ Release(t)
            \/ Destroy \/ Close

FifoSpec == FifoInit /\ [][FifoNext]_fifoVars
=============================================================================
