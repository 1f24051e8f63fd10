------------------------------ MODULE MultiMap ------------------------------
(***************************************************************************)
(* What hashmap_t amounts to for its callers, every call atomic: a bounded *)
(* collection of key/value pairs.  A put may or may not take the older     *)
(* pairs of its key out: hashmap.h 59 says that the value of a key that is *)
(* there is overwritten, the code adds a second pair, and this collection  *)
(* allows both.  Each pair leaves once: overwritten by a put of its key,   *)
(* deleted, replaced in a full map, or destroyed.  HashMap.tla implements  *)
(* it.                                                                     *)
(***************************************************************************)
EXTENDS Naturals, FiniteSets

CONSTANTS Keys, Objs, KeyOf, Capacity

VARIABLES entries,    \* the pairs in the map
          destroyed,  \* the pairs given to destroy_function
          offered,    \* the pairs some put in progress holds
          used,       \* every pair ever passed to put
          closed

mapVars == <<entries, destroyed, offered, used, closed>>

MapInit == /\ entries = {} /\ destroyed = {}
           /\ offered = {} /\ used = {} /\ closed = FALSE

\* A caller hands in a pair nobody has put before.
Offer(o) == /\ o \notin used
            /\ used' = used \cup {o}
            /\ offered' = offered \cup {o}
            /\ UNCHANGED <<entries, destroyed, closed>>

Decided(o) == /\ o \in offered
              /\ offered' = offered \ {o}
              /\ UNCHANGED <<destroyed, used, closed>>

\* Any of the older pairs of the key may leave, and no pair of another key.
Add(o) == /\ Decided(o) /\ ~closed
          /\ Cardinality(entries) < Capacity
          /\ \E older \in SUBSET {e \in entries : KeyOf[e] = KeyOf[o]} :
               entries' = (entries \ older) \cup {o}

\* A put into a full map, forced or of a key that is there, costs exactly one
\* entry.
Replace(o, e) == /\ Decided(o) /\ ~closed
                 /\ Cardinality(entries) = Capacity
                 /\ e \in entries
                 /\ entries' = (entries \ {e}) \cup {o}

Refuse(o) == /\ Decided(o)
             /\ closed \/ Cardinality(entries) = Capacity
             /\ UNCHANGED entries

Remove(k) == /\ ~closed
             /\ \E e \in entries : KeyOf[e] = k /\ entries' = entries \ {e}
             /\ UNCHANGED <<destroyed, offered, used, closed>>

DestroyAll == /\ ~closed
              /\ entries' = {}
              /\ destroyed' = destroyed \cup entries
              /\ closed' \in BOOLEAN
              /\ UNCHANGED <<offered, used>>

MapNext == \/ \E o \in Objs : \/ Offer(o) \/ Add(o) \/ Refuse(o)
                              \/ \E e \in Objs : Replace(o, e)
           \/ \E k \in Keys : Remove(k)
           \/ DestroyAll

MapSpec == MapInit /\ [][MapNext]_mapVars
=============================================================================
