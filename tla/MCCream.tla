------------------------------ MODULE MCCream -------------------------------
(***************************************************************************)
(* Cream for TLC: few workers, few connections, and requests about one or  *)
(* two keys.                                                               *)
(***************************************************************************)
EXTENDS Cream, TLC

CONSTANTS k1, k2, o1, o2, o3

MCKeyOf == [o \in Objs |-> IF o = o3 /\ k2 \in Keys THEN k2 ELSE k1]
MCHashOf == [k \in Keys |-> IF k = k1 THEN 5 ELSE 1]

AllRequests == [op : {"PUT", "GET", "EVICT", "CLEAR"}, key : Keys]
                 \cup {[op |-> "malformed", key |-> k1]}

Symmetry == Permutations(Threads) \cup Permutations(Conns) \cup Permutations({o1, o2} \cap Objs)
=============================================================================
