----------------------------- MODULE MCHashMap ------------------------------
(***************************************************************************)
(* HashMap for TLC: two keys whose home slots collide in a table of two    *)
(* slots (and differ in a table of three), and a few pairs.                *)
(***************************************************************************)
EXTENDS HashMap, TLC

CONSTANTS k1, k2, o1, o2, o3, o4

MCKeyOf == [o \in Objs |-> IF o \in {o1, o2} THEN k1 ELSE k2]
MCHashOf == [k \in Keys |-> IF k = k1 THEN 5 ELSE 1]

\* Pairs of the same key are interchangeable, and so are the threads.
Symmetry == Permutations(Threads) \cup Permutations({o1, o2} \cap Objs)
              \cup Permutations({o3, o4} \cap Objs)
=============================================================================
