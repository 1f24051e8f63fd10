----------------------------- MODULE HashTable ------------------------------
(***************************************************************************)
(* The data of hw5/src/hashmap.c: an open-addressed table of map_node_t    *)
(* with tombstones.  An element of Objs is one key/value pair a caller     *)
(* allocated; a slot holds the key it compares (NULL: key_len is 0), the   *)
(* pair its pointers point to, the pair whose length val_len is (NULL: 0)  *)
(* and the tombstone.                                                      *)
(***************************************************************************)
EXTENDS Naturals, FiniteSets

CONSTANTS Keys, Objs, NULL,
          KeyOf,     \* the key of a pair
          HashOf,    \* hash_function
          Capacity

ASSUME HashTableAssumption == /\ NULL \notin Keys \cup Objs
                              /\ KeyOf \in [Objs -> Keys]
                              /\ HashOf \in [Keys -> Nat]
                              /\ Capacity \in Nat \ {0}

Slots == 0..Capacity - 1
NoSlot == Capacity
Slot == [key : Keys \cup {NULL}, base : Objs \cup {NULL},
         len : Objs \cup {NULL}, tomb : BOOLEAN]

EmptyTable == [i \in Slots |-> [key |-> NULL, base |-> NULL, len |-> NULL, tomb |-> FALSE]]

get_index(key) == HashOf[key] % Capacity

\* The slot of S that linear probing from key's home slot reaches first.
Distances(key, S) == {d \in Slots : (get_index(key) + d) % Capacity \in S}

First(key, S) ==
  LET D == Distances(key, S)
  IN  IF D = {} THEN NoSlot
      ELSE (get_index(key) + CHOOSE d \in D : \A e \in D : d <= e) % Capacity

Vacant(nodes) == {i \in Slots : nodes[i].tomb \/ nodes[i].base = NULL}
Live(nodes) == Slots \ Vacant(nodes)
Matching(nodes, key) == {i \in Slots : ~nodes[i].tomb /\ nodes[i].key = key}
Entries(nodes) == {nodes[i].base : i \in Live(nodes)}

-----------------------------------------------------------------------------
(* What the three critical sections store.                                 *)

\* Mutant: a vacant slot is filled and keeps its tombstone.
Insert_keepTomb(nodes, obj) ==
  [nodes EXCEPT ![First(KeyOf[obj], Vacant(nodes))] =
     [key |-> KeyOf[obj], base |-> obj, len |-> obj, tomb |-> @.tomb]]

Insert(nodes, obj) ==
  [nodes EXCEPT ![First(KeyOf[obj], Vacant(nodes))] =
     [key |-> KeyOf[obj], base |-> obj, len |-> obj, tomb |-> FALSE]]

Overwrite(nodes, obj) ==
  [nodes EXCEPT ![get_index(KeyOf[obj])] =
     [@ EXCEPT !.key = KeyOf[obj], !.base = obj, !.len = obj]]

Bury(nodes, i) == [nodes EXCEPT ![i].tomb = TRUE]

Cleared(nodes) ==
  [i \in Slots |-> IF nodes[i].tomb THEN nodes[i]
                   ELSE [nodes[i] EXCEPT !.key = NULL, !.len = NULL, !.tomb = TRUE]]
=============================================================================
