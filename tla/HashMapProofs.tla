---------------------------- MODULE HashMapProofs ----------------------------
(***************************************************************************)
(* Theorems about hw5/src/hashmap.c for any number of threads, keys and    *)
(* pairs, any table size and any hash function.  HInv is inductive; the    *)
(* readers-writer lock, the count of live slots, the ownership of pairs,   *)
(* what a reader found and what a miss means are parts of it.  A conjunct  *)
(* is shown preserved by the actions that can disturb it.                  *)
(***************************************************************************)
EXTENDS HashMap, FiniteSetTheorems, WellFoundedInduction, TLAPS

-----------------------------------------------------------------------------
(* The inductive invariant.                                                *)

\* Where a thread is tells what it was called for, and with what.
Calls ==
  \A t \in Threads :
    /\ pc[t] = "idle" <=> call[t].op = "none"
    /\ pc[t] \in {"lock", "write"} => call[t].op \in {"put", "delete", "clear", "invalidate"}
    /\ pc[t] = "load_node" => call[t].op = "delete"
    /\ pc[t] \in {"enter", "first", "scan", "leave", "load", "load_base", "load_len"} =>
         call[t].op = "get"
    /\ call[t].op \in {"get", "delete"} => call[t].key \in Keys
    /\ call[t].op = "put" => call[t].obj \in Objs /\ call[t].key = KeyOf[call[t].obj]

\* invalidate_map has the map for itself.
Alone == \A t, u \in Threads : call[t].op = "invalidate" /\ u # t => pc[u] = "idle"

\* The pair a put holds is in nobody else's hands.
PairsOwned ==
  /\ Entries(nodes) \cup destroyed \subseteq used
  /\ \A t \in Threads : Offers(t) =>
        /\ call[t].obj \in used \ (Entries(nodes) \cup destroyed)
        /\ \A u \in Threads : Offers(u) /\ call[u].obj = call[t].obj => u = t

\* A slot that can match a key points to a pair.
KeyedSlots == \A i \in Slots : ~nodes[i].tomb /\ nodes[i].key # NULL => nodes[i].base # NULL

\* A slot found stays one that points to some pair, whoever holds the lock.
Found == \A t \in Threads :
           /\ pc[t] \in {"load_node", "load", "load_base", "load_len"} =>
                slot[t] \in Slots /\ nodes[slot[t]].base # NULL
           /\ pc[t] = "load_len" => ret[t].base # NULL

Emptied == invalid => size = 0 /\ Readers = {}

HInv == /\ TypeOK /\ Calls /\ Alone /\ LockDiscipline
        /\ SizeIsLive /\ LiveSlotsOwn /\ PairsOwned /\ KeyedSlots
        /\ ReadStable /\ Found /\ Emptied
        /\ MissIsJustified

-----------------------------------------------------------------------------
(* Probing.                                                                *)

LEMMA Remainder ==
  ASSUME NEW a \in Nat, NEW c \in Nat \ {0}
  PROVE  a % c \in 0 .. c - 1
OBVIOUS

LEMMA RemainderOfSmall ==
  ASSUME NEW c \in Nat \ {0}, NEW a \in 0 .. c - 1
  PROVE  a % c = a /\ (a + c) % c = a
OBVIOUS

LEMMA HomeSlot ==
  ASSUME NEW k \in Keys
  PROVE  get_index(k) \in Slots
BY HashTableAssumption, Remainder DEF get_index, Slots

\* A set of numbers that is not empty has a least one.
LEMMA Least ==
  ASSUME NEW D, D \subseteq Nat, D # {}
  PROVE  \E d \in D : \A e \in D : d <= e
<1>1. PICK d \in D : \A e \in D : ~ (<<e, d>> \in OpToRel(<, Nat))
  BY NatLessThanWellFounded, WFMin
<1>2. \A e \in D : ~ (e < d)
  BY <1>1 DEF OpToRel
<1> QED BY <1>2

\* Linear probing finds a slot of S if there is one (hashmap.c 51-53, 102-111).
LEMMA ProbingFinds ==
  ASSUME NEW k \in Keys, NEW S, S \subseteq Slots
  PROVE  /\ S = {} => First(k, S) = NoSlot
         /\ S # {} => First(k, S) \in S
<1> DEFINE h == get_index(k)
           D == Distances(k, S)
<1>1. h \in 0 .. Capacity - 1 /\ Capacity \in Nat \ {0}
  BY HomeSlot, HashTableAssumption DEF Slots
<1>2. CASE S = {}
  <2>1. D = {}
    BY <1>2 DEF Distances
  <2> QED BY <1>2, <2>1 DEF First
<1>3. CASE S # {}
  <2>1. PICK i \in S : TRUE
    BY <1>3
  <2>2. i \in 0 .. Capacity - 1
    BY DEF Slots
  <2>3. \E d \in Slots : (h + d) % Capacity = i
    <3>1. CASE i >= h
      <4>1. i - h \in Slots /\ h + (i - h) = i
        BY <3>1, <2>2, <1>1 DEF Slots
      <4> QED BY <4>1, <2>2, <1>1, RemainderOfSmall
    <3>2. CASE i < h
      <4>1. Capacity - h + i \in Slots /\ h + (Capacity - h + i) = i + Capacity
        BY <3>2, <2>2, <1>1 DEF Slots
      <4> QED BY <4>1, <2>2, <1>1, RemainderOfSmall
    <3> QED BY <3>1, <3>2, <2>2, <1>1
  <2>4. D # {} /\ D \subseteq Nat
    BY <2>3, <1>1 DEF Distances, Slots
  <2>5. \E d \in D : \A e \in D : d <= e
    BY <2>4, Least
  <2>6. First(k, S) \in S
    BY <2>4, <2>5 DEF First, Distances
  <2> QED BY <1>3, <2>6
<1> QED BY <1>2, <1>3

-----------------------------------------------------------------------------
(* The table: which slots live after a store, a burial, a clear.           *)

Full(o) == [key |-> KeyOf[o], base |-> o, len |-> o, tomb |-> FALSE]
\* The table with o's pair in slot v; the pairs in the other slots.
Filled(n, v, o) == [n EXCEPT ![v] = Full(o)]

EntriesBut(n, v) == {n[i].base : i \in Live(n) \ {v}}

LEMMA LiveCounted ==
  ASSUME NEW n
  PROVE  /\ Live(n) \subseteq Slots /\ Vacant(n) \subseteq Slots
         /\ IsFiniteSet(Slots) /\ IsFiniteSet(Live(n))
         /\ Cardinality(Live(n)) \in 0 .. Capacity
         /\ Cardinality(Live(n)) = Capacity <=> Live(n) = Slots
         /\ Cardinality(Live(n)) = Capacity <=> Vacant(n) = {}
         /\ Cardinality(Live(n)) = 0 <=> Live(n) = {}
<1>1. IsFiniteSet(Slots) /\ Cardinality(Slots) = Capacity
  BY FS_Interval, HashTableAssumption DEF Slots
<1>2. Live(n) \subseteq Slots /\ Vacant(n) \subseteq Slots /\ (Live(n) = Slots <=> Vacant(n) = {})
  BY DEF Live, Vacant
<1>3. /\ IsFiniteSet(Live(n)) /\ Cardinality(Live(n)) <= Capacity
      /\ Cardinality(Slots) = Cardinality(Live(n)) => Slots = Live(n)
  BY <1>1, <1>2, FS_Subset
<1>4. Cardinality(Live(n)) \in Nat /\ (Cardinality(Live(n)) = 0 <=> Live(n) = {})
  BY <1>3, FS_CardinalityType, FS_EmptySet
<1> QED BY <1>1, <1>2, <1>3, <1>4, HashTableAssumption

\* A slot is the record of its four fields; what EXCEPT makes of one.
LEMMA SlotFields ==
  ASSUME NEW r \in Slot
  PROVE  /\ r.key \in Keys \cup {NULL} /\ r.base \in Objs \cup {NULL}
         /\ r.len \in Objs \cup {NULL} /\ r.tomb \in BOOLEAN
BY DEF Slot

LEMMA FieldChanged ==
  ASSUME NEW r \in Slot, NEW x
  PROVE  /\ [r EXCEPT !.key = x] = [key |-> x, base |-> r.base, len |-> r.len, tomb |-> r.tomb]
         /\ [r EXCEPT !.base = x] = [key |-> r.key, base |-> x, len |-> r.len, tomb |-> r.tomb]
         /\ [r EXCEPT !.len = x] = [key |-> r.key, base |-> r.base, len |-> x, tomb |-> r.tomb]
         /\ [r EXCEPT !.tomb = x] = [key |-> r.key, base |-> r.base, len |-> r.len, tomb |-> x]
BY DEF Slot

LEMMA SlotBuried ==
  ASSUME NEW r \in Slot
  PROVE  [r EXCEPT !.tomb = TRUE] = [key |-> r.key, base |-> r.base, len |-> r.len, tomb |-> TRUE]
<1>1. \A x : [r EXCEPT !.tomb = x] = [key |-> r.key, base |-> r.base, len |-> r.len, tomb |-> x]
  BY FieldChanged
<1> QED BY <1>1, Zenon

LEMMA SlotOverwritten ==
  ASSUME NEW r \in Slot, NEW k \in Keys, NEW o \in Objs
  PROVE  [r EXCEPT !.key = k, !.base = o, !.len = o]
            = [key |-> k, base |-> o, len |-> o, tomb |-> r.tomb]
<1>1. PICK r1 : r1 = [r EXCEPT !.key = k]
  OBVIOUS
<1>2. r1 = [key |-> k, base |-> r.base, len |-> r.len, tomb |-> r.tomb] /\ r1 \in Slot
  BY <1>1, FieldChanged DEF Slot
<1>3. PICK r2 : r2 = [r1 EXCEPT !.base = o]
  OBVIOUS
<1>4. r2 = [key |-> k, base |-> o, len |-> r.len, tomb |-> r.tomb]
  BY <1>2, <1>3, FieldChanged
<1>5. r2 \in Slot
  BY <1>4 DEF Slot
<1>6. [r2 EXCEPT !.len = o] = [key |-> k, base |-> o, len |-> o, tomb |-> r.tomb]
  BY <1>4, <1>5, FieldChanged
<1>7. [r EXCEPT !.key = k, !.base = o, !.len = o] = [r2 EXCEPT !.len = o]
  BY <1>1, <1>3, Zenon
<1> QED BY <1>6, <1>7

LEMMA SlotVacated ==
  ASSUME NEW r \in Slot
  PROVE  [r EXCEPT !.key = NULL, !.len = NULL, !.tomb = TRUE]
            = [key |-> NULL, base |-> r.base, len |-> NULL, tomb |-> TRUE]
<1>1. PICK r1 : r1 = [r EXCEPT !.key = NULL]
  OBVIOUS
<1>2. r1 = [key |-> NULL, base |-> r.base, len |-> r.len, tomb |-> r.tomb] /\ r1 \in Slot
  BY <1>1, FieldChanged DEF Slot
<1>3. PICK r2 : r2 = [r1 EXCEPT !.len = NULL]
  OBVIOUS
<1>4. r2 = [key |-> NULL, base |-> r.base, len |-> NULL, tomb |-> r.tomb]
  BY <1>2, <1>3, FieldChanged
<1>5. r2 \in Slot
  BY <1>4 DEF Slot
<1>6. [r2 EXCEPT !.tomb = TRUE] = [key |-> NULL, base |-> r.base, len |-> NULL, tomb |-> TRUE]
  BY <1>4, <1>5, SlotBuried
<1>7. [r EXCEPT !.key = NULL, !.len = NULL, !.tomb = TRUE] = [r2 EXCEPT !.tomb = TRUE]
  BY <1>1, <1>3, Zenon
<1> QED BY <1>6, <1>7

\* A pair is stored in a slot that was vacant or not.
LEMMA Stored ==
  ASSUME NEW n \in [Slots -> Slot], NEW v \in Slots, NEW o \in Objs,
         NEW m, m = Filled(n, v, o)
  PROVE  /\ m \in [Slots -> Slot]
         /\ Live(m) = Live(n) \cup {v}
         /\ o \in Entries(m)
         /\ Entries(m) = EntriesBut(n, v) \cup {o}
         /\ m[v] = Full(o) /\ \A i \in Slots \ {v} : m[i] = n[i]
<1>1. Full(o) \in Slot /\ o # NULL
  BY HashTableAssumption DEF Full, Slot
<1>2. m \in [Slots -> Slot] /\ m[v] = Full(o) /\ \A i \in Slots \ {v} : m[i] = n[i]
  BY <1>1 DEF Filled
<1>3. Live(m) = Live(n) \cup {v}
  BY <1>1, <1>2 DEF Live, Vacant, Full
<1>4. Entries(m) = EntriesBut(n, v) \cup {o}
  <2>1. Live(m) \subseteq Slots /\ Live(n) \subseteq Slots
    BY LiveCounted
  <2>2. m[v].base = o
    BY <1>2 DEF Full
  <2>3. Entries(m) \subseteq EntriesBut(n, v) \cup {o}
    BY <1>2, <1>3, <2>1, <2>2 DEF Entries, EntriesBut
  <2>4. EntriesBut(n, v) \subseteq Entries(m)
    <3> SUFFICES ASSUME NEW i \in Live(n) \ {v} PROVE n[i].base \in Entries(m)
      BY DEF EntriesBut
    <3>1. i \in Live(m) /\ m[i] = n[i]
      BY <1>2, <1>3, <2>1
    <3> QED BY <3>1 DEF Entries
  <2>5. o \in Entries(m)
    BY <1>3, <2>2 DEF Entries
  <2> QED BY <2>3, <2>4, <2>5
<1> QED BY <1>2, <1>3, <1>4

LEMMA Inserted ==
  ASSUME NEW n \in [Slots -> Slot], NEW o \in Objs, Vacant(n) # {}
  PROVE  \E v \in Vacant(n) : Insert(n, o) = Filled(n, v, o)
<1>1. First(KeyOf[o], Vacant(n)) \in Vacant(n)
  BY ProbingFinds, LiveCounted, HashTableAssumption
<1> QED BY <1>1 DEF Insert, Filled, Full

LEMMA Overwritten ==
  ASSUME NEW n \in [Slots -> Slot], NEW o \in Objs, Live(n) = Slots
  PROVE  /\ get_index(KeyOf[o]) \in Slots
         /\ Overwrite(n, o) = Filled(n, get_index(KeyOf[o]), o)
<1>1. get_index(KeyOf[o]) \in Slots
  BY HomeSlot, HashTableAssumption
<1>2. n[get_index(KeyOf[o])] \in Slot /\ ~ n[get_index(KeyOf[o])].tomb
  BY <1>1 DEF Live, Vacant, Slot
<1>3. [n[get_index(KeyOf[o])] EXCEPT !.key = KeyOf[o], !.base = o, !.len = o] = Full(o)
  <2>1. KeyOf[o] \in Keys
    BY HashTableAssumption
  <2>2. n[get_index(KeyOf[o])].tomb = FALSE
    BY <1>2, SlotFields
  <2> QED BY <1>2, <2>1, <2>2, SlotOverwritten DEF Full
<1> QED BY <1>1, <1>3 DEF Overwrite, Filled

LEMMA Buried ==
  ASSUME NEW n \in [Slots -> Slot], NEW i \in Slots, NEW m, m = Bury(n, i)
  PROVE  /\ m \in [Slots -> Slot]
         /\ Live(m) = Live(n) \ {i}
         /\ Entries(m) = EntriesBut(n, i)
         /\ m[i].tomb /\ m[i].base = n[i].base
         /\ \A j \in Slots \ {i} : m[j] = n[j]
<1>1. [n[i] EXCEPT !.tomb = TRUE]
        = [key |-> n[i].key, base |-> n[i].base, len |-> n[i].len, tomb |-> TRUE]
  BY SlotBuried
<1>2. [n[i] EXCEPT !.tomb = TRUE] \in Slot
  BY <1>1, SlotFields DEF Slot
<1>3. m = [n EXCEPT ![i] = [n[i] EXCEPT !.tomb = TRUE]]
  BY DEF Bury
<1>4. m \in [Slots -> Slot] /\ \A j \in Slots \ {i} : m[j] = n[j]
  BY <1>2, <1>3
<1>5. m[i].tomb /\ m[i].base = n[i].base
  BY <1>1, <1>3
<1>6. Live(m) = Live(n) \ {i}
  BY <1>4, <1>5 DEF Live, Vacant
<1>7. Entries(m) = EntriesBut(n, i)
  <2>1. Live(n) \subseteq Slots
    BY LiveCounted
  <2> QED BY <1>4, <1>6, <2>1 DEF Entries, EntriesBut
<1> QED BY <1>4, <1>5, <1>6, <1>7

LEMMA AllCleared ==
  ASSUME NEW n \in [Slots -> Slot]
  PROVE  /\ Cleared(n) \in [Slots -> Slot]
         /\ Live(Cleared(n)) = {} /\ Entries(Cleared(n)) = {}
         /\ \A i \in Slots : Cleared(n)[i].tomb /\ Cleared(n)[i].base = n[i].base
<1>1. /\ Cleared(n) \in [Slots -> Slot]
      /\ \A i \in Slots : Cleared(n)[i].tomb /\ Cleared(n)[i].base = n[i].base
  <2>1. \A i \in Slots : ~n[i].tomb => [n[i] EXCEPT !.key = NULL, !.len = NULL, !.tomb = TRUE]
             = [key |-> NULL, base |-> n[i].base, len |-> NULL, tomb |-> TRUE]
    BY SlotVacated
  <2>2. \A i \in Slots : /\ n[i] \in Slot
                         /\ Cleared(n)[i] = IF n[i].tomb THEN n[i]
                              ELSE [key |-> NULL, base |-> n[i].base, len |-> NULL, tomb |-> TRUE]
    BY <2>1 DEF Cleared
  <2>3. \A i \in Slots : Cleared(n)[i] \in Slot /\ Cleared(n)[i].tomb /\ Cleared(n)[i].base = n[i].base
    <3> SUFFICES ASSUME NEW i \in Slots
                 PROVE  Cleared(n)[i] \in Slot /\ Cleared(n)[i].tomb /\ Cleared(n)[i].base = n[i].base
      OBVIOUS
    <3>1. CASE n[i].tomb
      BY <3>1, <2>2
    <3>2. CASE ~ n[i].tomb
      <4>1. Cleared(n)[i] = [key |-> NULL, base |-> n[i].base, len |-> NULL, tomb |-> TRUE]
        BY <3>2, <2>2
      <4> QED BY <4>1, <2>2, SlotFields DEF Slot
    <3> QED BY <3>1, <3>2
  <2>4. Cleared(n) = [i \in Slots |-> Cleared(n)[i]]
    BY DEF Cleared
  <2> QED BY <2>3, <2>4
<1>2. Live(Cleared(n)) = {}
  BY <1>1 DEF Live, Vacant
<1> QED BY <1>1, <1>2 DEF Entries

LEMMA NothingYet ==
  /\ EmptyTable \in [Slots -> Slot]
  /\ Live(EmptyTable) = {} /\ Entries(EmptyTable) = {}
  /\ \A i \in Slots : ~ EmptyTable[i].tomb /\ EmptyTable[i].key = NULL
<1>1. EmptyTable \in [Slots -> Slot]
  BY DEF EmptyTable, Slot
<1>2. Live(EmptyTable) = {}
  BY DEF EmptyTable, Live, Vacant
<1> QED BY <1>1, <1>2 DEF EmptyTable, Entries

-----------------------------------------------------------------------------
(* What the critical sections do to the table.                             *)

\* t's pair goes into slot v, vacant or not.
Stores(t, v) == /\ v \in Slots
                /\ nodes' = Filled(nodes, v, call[t].obj)
                /\ size' = Cardinality(Live(nodes) \cup {v})
                /\ ~invalid /\ UNCHANGED <<invalid, destroyed>>

\* The slot t has found is vacated.
Buries(t, i) == /\ i \in Live(nodes) /\ nodes[i].key = call[t].key
                /\ nodes' = Bury(nodes, i)
                /\ size' = size - 1 /\ size # 0
                /\ slot' = [slot EXCEPT ![t] = i]
                /\ ~invalid /\ UNCHANGED <<invalid, destroyed>>

LEMMA StoreCounted ==
  ASSUME TypeOK, NEW t \in Threads, NEW v, Stores(t, v), call[t].obj \in Objs
  PROVE  /\ nodes' \in [Slots -> Slot] /\ Live(nodes)' = Live(nodes) \cup {v}
         /\ Entries(nodes)' = EntriesBut(nodes, v) \cup {call[t].obj}
         /\ call[t].obj \in Entries(nodes)' /\ nodes'[v] = Full(call[t].obj)
         /\ \A i \in Slots \ {v} : nodes'[i] = nodes[i]
         /\ size' = Cardinality(Live(nodes)') /\ size' \in 0 .. Capacity
<1>1. /\ nodes' \in [Slots -> Slot] /\ Live(nodes') = Live(nodes) \cup {v}
      /\ Entries(nodes') = EntriesBut(nodes, v) \cup {call[t].obj}
      /\ call[t].obj \in Entries(nodes') /\ nodes'[v] = Full(call[t].obj)
      /\ \A i \in Slots \ {v} : nodes'[i] = nodes[i]
  <2>1. nodes \in [Slots -> Slot] /\ v \in Slots /\ nodes' = Filled(nodes, v, call[t].obj)
    BY DEF Stores, TypeOK
  <2> QED BY <2>1, Stored
<1>2. size' = Cardinality(Live(nodes'))
  BY <1>1 DEF Stores
<1> QED BY <1>1, <1>2, LiveCounted

LEMMA BuryCounted ==
  ASSUME TypeOK, NEW t \in Threads, NEW i \in Slots, Buries(t, i)
  PROVE  /\ nodes' \in [Slots -> Slot] /\ Live(nodes') = Live(nodes) \ {i}
         /\ Entries(nodes') = EntriesBut(nodes, i)
         /\ nodes'[i].tomb /\ nodes'[i].base = nodes[i].base
         /\ \A j \in Slots \ {i} : nodes'[j] = nodes[j]
<1>1. nodes \in [Slots -> Slot] /\ nodes' = Bury(nodes, i)
  BY DEF Buries, TypeOK
<1> QED BY <1>1, Buried

LEMMA PutVacantStores ==
  ASSUME HInv, NEW t \in Threads, PutVacant(t)
  PROVE  /\ Offers(t) /\ call[t].obj \in Objs /\ pc[t] = "write"
         /\ \E v \in Vacant(nodes) : Stores(t, v)
<1> USE DEF HInv
<1>1. Offers(t) /\ call[t].obj \in Objs /\ pc[t] = "write"
  BY DEF PutVacant, Finish, Goto, Offers, Calls
<1>2. Vacant(nodes) # {}
  BY LiveCounted DEF PutVacant, SizeIsLive
<1>3. nodes' = Insert(nodes, call[t].obj) /\ size' = size + 1 /\ ~invalid
      /\ UNCHANGED <<invalid, destroyed>>
  BY <1>2 DEF PutVacant
<1>4. PICK v \in Vacant(nodes) : nodes' = Filled(nodes, v, call[t].obj)
  BY <1>1, <1>2, <1>3, Inserted DEF TypeOK
<1>5. v \in Slots /\ v \notin Live(nodes)
  BY DEF Live, Vacant
<1>6. Cardinality(Live(nodes) \cup {v}) = size + 1
  BY <1>5, LiveCounted, FS_AddElement DEF SizeIsLive
<1> QED BY <1>1, <1>3, <1>4, <1>5, <1>6 DEF Stores

LEMMA PutFullStores ==
  ASSUME HInv, NEW t \in Threads, PutFull(t)
  PROVE  /\ Offers(t) /\ call[t].obj \in Objs /\ pc[t] = "write" /\ Live(nodes) = Slots
         /\ call[t].force => \E v \in Live(nodes) : Stores(t, v)
         /\ ~call[t].force => UNCHANGED map
<1> USE DEF HInv
<1>1. Offers(t) /\ call[t].obj \in Objs /\ pc[t] = "write"
  BY DEF PutFull, Finish, Goto, Offers, Calls
<1>2. Live(nodes) = Slots
  BY LiveCounted DEF PutFull, SizeIsLive
<1>3. ASSUME call[t].force PROVE \E v \in Live(nodes) : Stores(t, v)
  <2>1. nodes' = Overwrite(nodes, call[t].obj) /\ size' = size /\ ~invalid
        /\ UNCHANGED <<invalid, destroyed>>
    BY <1>3 DEF PutFull
  <2> DEFINE v == get_index(KeyOf[call[t].obj])
  <2>2. v \in Slots /\ nodes' = Filled(nodes, v, call[t].obj)
    BY <1>1, <1>2, <2>1, Overwritten DEF TypeOK
  <2>3. Live(nodes) \cup {v} = Live(nodes)
    BY <1>2, <2>2
  <2> QED BY <1>2, <2>1, <2>2, <2>3 DEF Stores, SizeIsLive
<1>4. ~call[t].force => UNCHANGED map
  BY DEF PutFull, map
<1> QED BY <1>1, <1>2, <1>3, <1>4

LEMMA DeleteBuries ==
  ASSUME HInv, NEW t \in Threads, Delete(t)
  PROVE  /\ pc[t] = "write" /\ call[t].op = "delete" /\ call[t].key \in Keys
         /\ \E i \in Slots : Buries(t, i)
<1> USE DEF HInv
<1>1. pc[t] = "write" /\ call[t].op = "delete" /\ call[t].key \in Keys
  BY DEF Delete, Finish, Goto, Calls
<1> DEFINE M == Matching(nodes, call[t].key)
           i == First(call[t].key, M)
<1>2. i # NoSlot /\ nodes' = Bury(nodes, i) /\ slot' = [slot EXCEPT ![t] = i]
      /\ size' = size - 1 /\ size # 0 /\ ~invalid /\ UNCHANGED <<invalid, destroyed>>
  BY DEF Delete
<1>3. M \subseteq Slots
  BY DEF Matching
<1>4. i \in M
  BY <1>1, <1>2, <1>3, ProbingFinds
<1>5. i \in Slots /\ ~ nodes[i].tomb /\ nodes[i].key = call[t].key
  BY <1>4 DEF Matching
<1>6. nodes[i].base # NULL
  BY <1>1, <1>5, HashTableAssumption DEF KeyedSlots
<1>7. i \in Live(nodes)
  BY <1>5, <1>6 DEF Live, Vacant
<1> QED BY <1>1, <1>2, <1>5, <1>7 DEF Buries

-----------------------------------------------------------------------------
(* Types.                                                                  *)

LEMMA EntriesArePairs ==
  ASSUME NEW n \in [Slots -> Slot]
  PROVE  Entries(n) \subseteq Objs
BY SlotFields DEF Entries, Live, Vacant

\* The steps of get are taken by a thread that was called for get.
LEMMA InGet ==
  ASSUME Calls, TypeOK, NEW t \in Threads,
         pc[t] \in {"enter", "first", "scan", "leave", "load", "load_base", "load_len"}
  PROVE  call[t].op = "get" /\ call[t].key \in Keys
BY DEF Calls

LEMMA ReadersCounted ==
  /\ IsFiniteSet(Readers) /\ Cardinality(Readers) \in Nat
  /\ Cardinality(Readers) = 0 <=> Readers = {}
<1>1. IsFiniteSet(Readers)
  BY HashMapAssumption, FS_Subset DEF Readers
<1> QED BY <1>1, FS_CardinalityType, FS_EmptySet

Loaded == [key : Keys \cup {NULL}, base : Objs \cup {NULL}, len : Objs \cup {NULL}]

LEMMA LoadedKept ==
  ASSUME NEW f \in [Threads -> Loaded], NEW t \in Threads, NEW x \in Objs \cup {NULL}
  PROVE  /\ [f EXCEPT ![t].base = x] \in [Threads -> Loaded]
         /\ [f EXCEPT ![t].base = x][t].base = x
         /\ [f EXCEPT ![t].len = x] \in [Threads -> Loaded]
         /\ [f EXCEPT ![t].len = x][t].base = f[t].base
<1>1. f[t] \in Loaded
  OBVIOUS
<1>2. [f[t] EXCEPT !.base = x] \in Loaded /\ [f[t] EXCEPT !.base = x].base = x
  BY <1>1 DEF Loaded
<1>3. [f[t] EXCEPT !.len = x] \in Loaded /\ [f[t] EXCEPT !.len = x].base = f[t].base
  BY <1>1 DEF Loaded
<1> QED BY <1>2, <1>3

LEMMA TypeKept ==
  ASSUME HInv, Next
  PROVE  TypeOK'
<1> USE DEF HInv
<1>1. PICK t \in Threads : Call(t) \/ Step(t) \/ ResetErrno(t)
  BY DEF Next
<1>2. absent' \in [Threads -> BOOLEAN]
  BY DEF Next, NoteAbsence
<1> USE DEF Goto, TypeOK
<1>3. CASE Call(t)
  <2> USE DEF Start, KeyCall, map, locks, results
  <2>1. ASSUME NEW o \in Objs, NEW f \in BOOLEAN, CallPut(t, o, f) PROVE TypeOK'
    BY <2>1, <1>2, HashTableAssumption DEF CallPut
  <2>2. ASSUME NEW k \in Keys, CallGet(t, k) PROVE TypeOK'
    BY <2>2, <1>2 DEF CallGet
  <2>3. ASSUME NEW k \in Keys, CallDelete(t, k) PROVE TypeOK'
    BY <2>3, <1>2 DEF CallDelete
  <2>4. CASE CallClear(t)
    BY <2>4, <1>2 DEF CallClear
  <2>5. CASE CallInvalidate(t)
    BY <2>5, <1>2 DEF CallInvalidate
  <2> QED BY <1>3, <2>1, <2>2, <2>3, <2>4, <2>5 DEF Call
<1>4. CASE ResetErrno(t)
  BY <1>4, <1>2 DEF ResetErrno, map, locks
<1>5. CASE Step(t)
  <2> USE DEF map, locks, results, Finish, SetErrno, Answer
  <2>1. CASE WriteLock(t)
    BY <2>1, <1>2 DEF WriteLock
  <2>2. CASE PutVacant(t)
    <3>1. PICK v : Stores(t, v) /\ call[t].obj \in Objs
      BY <2>2, PutVacantStores
    <3>2. nodes' \in [Slots -> Slot] /\ size' \in 0 .. Capacity
      BY <3>1, StoreCounted
    <3> QED BY <2>2, <1>2, <3>2 DEF PutVacant
  <2>3. CASE PutFull(t)
    <3>1. nodes' \in [Slots -> Slot] /\ size' \in 0 .. Capacity
      BY <2>3, PutFullStores, StoreCounted
    <3> QED BY <2>3, <1>2, <3>1 DEF PutFull
  <2>4. CASE Refuse(t)
    BY <2>4, <1>2 DEF Refuse
  <2>5. CASE Delete(t)
    <3>1. PICK i \in Slots : Buries(t, i)
      BY <2>5, DeleteBuries
    <3>2. nodes' \in [Slots -> Slot]
      BY <3>1, BuryCounted
    <3>3. size' \in 0 .. Capacity
      BY <3>1, HashTableAssumption DEF Buries
    <3>4. slot' \in [Threads -> Slots \cup {NoSlot}]
      BY <3>1 DEF Buries
    <3> QED BY <2>5, <1>2, <3>2, <3>3, <3>4 DEF Delete
  <2>6. CASE Clear(t)
    <3>1. nodes' \in [Slots -> Slot] /\ size' \in 0 .. Capacity
      BY <2>6, AllCleared, HashTableAssumption DEF Clear
    <3>2. destroyed' \subseteq Objs
      BY <2>6, EntriesArePairs DEF Clear
    <3> QED BY <2>6, <1>2, <3>1, <3>2 DEF Clear
  <2>7. CASE Invalidate(t)
    <3>1. nodes' \in [Slots -> Slot] /\ size' \in 0 .. Capacity
      BY <2>7, NothingYet, HashTableAssumption DEF Invalidate
    <3>2. destroyed' \subseteq Objs
      BY <2>7, EntriesArePairs DEF Invalidate
    <3> QED BY <2>7, <1>2, <3>1, <3>2 DEF Invalidate
  <2>8. CASE LoadNode(t)
    BY <2>8, <1>2, SlotFields DEF LoadNode, Found
  <2>9. CASE GetRefused(t)
    BY <2>9, <1>2 DEF GetRefused
  <2>10. CASE GetEnter(t)
    BY <2>10, <1>2, SMTT(30) DEF GetEnter
  <2>11. CASE GetFirst(t)
    BY <2>11, <1>2 DEF GetFirst
  <2>12. CASE Scan(t)
    <3>1. call[t].key \in Keys
      BY <2>12, InGet DEF Scan
    <3>2. Matching(nodes, call[t].key) \subseteq Slots
      BY DEF Matching
    <3>3. First(call[t].key, Matching(nodes, call[t].key)) \in Slots \cup {NoSlot}
      BY <3>1, <3>2, ProbingFinds
    <3> QED BY <2>12, <1>2, <3>3 DEF Scan
  <2>13. CASE GetLeave(t)
    <3>1. t \in Readers
      BY <2>13 DEF GetLeave, Readers
    <3>2. num_readers \in Nat \ {0}
      BY <3>1, ReadersCounted DEF LockDiscipline
    <3>3. num_readers - 1 \in Nat
      BY <3>2
    <3> QED BY <2>13, <1>2, <3>3 DEF GetLeave
  <2>14. CASE LoadBase(t)
    <3>1. nodes[slot[t]].base \in Objs \cup {NULL}
      BY <2>14, SlotFields DEF LoadBase, Found
    <3>2. ret' \in [Threads -> Loaded]
      BY <2>14, <3>1, LoadedKept DEF LoadBase, Loaded
    <3> QED BY <2>14, <1>2, <3>2 DEF LoadBase, Loaded
  <2>15. CASE LoadLen(t)
    <3>1. nodes[slot[t]].len \in Objs \cup {NULL}
      BY <2>15, SlotFields DEF LoadLen, Found
    <3>2. ret' \in [Threads -> Loaded]
      BY <2>15, <3>1, LoadedKept DEF LoadLen, Loaded
    <3> QED BY <2>15, <1>2, <3>2 DEF LoadLen, Loaded
  <2>16. CASE Return(t)
    BY <2>16, <1>2 DEF Return, NoCall, KeyCall, NoRet
  <2> QED BY <1>5, <2>1, <2>2, <2>3, <2>4, <2>5, <2>6, <2>7, <2>8, <2>9, <2>10, <2>11,
             <2>12, <2>13, <2>14, <2>15, <2>16 DEF Step
<1> QED BY <1>1, <1>3, <1>4, <1>5

-----------------------------------------------------------------------------
(* Threads.                                                                *)

\* Only t has moved.
OnlyMoved(t) == \A u \in Threads \ {t} :
                  /\ pc'[u] = pc[u] /\ call'[u] = call[u] /\ slot'[u] = slot[u]
                  /\ ret'[u] = ret[u] /\ ok'[u] = ok[u]

Acts(t) == Call(t) \/ Step(t) \/ ResetErrno(t)

\* t's call has begun.
Called(t) == /\ \A u \in Threads : call[u].op # "invalidate"
             /\ pc[t] = "idle" /\ pc'[t] \in {"lock", "enter"}
             /\ call'[t].op # "none"
             /\ pc'[t] = "lock" => call'[t].op \in {"put", "delete", "clear", "invalidate"}
             /\ pc'[t] = "enter" => call'[t].op = "get"
             /\ call'[t].op \in {"get", "delete"} => call'[t].key \in Keys
             /\ call'[t].op = "put" =>
                  /\ call'[t].obj \in Objs \ used /\ call'[t].key = KeyOf[call'[t].obj]
                  /\ used' = used \cup {call'[t].obj}
             /\ call'[t].op # "put" => used' = used
             /\ call'[t].op = "invalidate" => \A u \in Threads : pc[u] = "idle"
             /\ UNCHANGED <<map, locks, slot, ret, ok>>

LEMMA Calling ==
  ASSUME TypeOK, NEW t \in Threads, Call(t)
  PROVE  Called(t) /\ OnlyMoved(t)
<1> USE DEF Start, KeyCall, map, locks, results, Goto, TypeOK, OnlyMoved, Called
<1>1. ASSUME NEW o \in Objs, NEW f \in BOOLEAN, CallPut(t, o, f) PROVE Called(t) /\ OnlyMoved(t)
  <2>1. KeyOf[o] \in Keys
    BY HashTableAssumption
  <2>2. call'[t].op = "put" /\ call'[t].obj = o /\ call'[t].key = KeyOf[o]
    BY <1>1 DEF CallPut
  <2> QED BY <1>1, <2>1, <2>2 DEF CallPut
<1>2. ASSUME NEW k \in Keys, CallGet(t, k) PROVE Called(t) /\ OnlyMoved(t)
  BY <1>2 DEF CallGet
<1>3. ASSUME NEW k \in Keys, CallDelete(t, k) PROVE Called(t) /\ OnlyMoved(t)
  BY <1>3 DEF CallDelete
<1>4. CASE CallClear(t)
  BY <1>4 DEF CallClear
<1>5. CASE CallInvalidate(t)
  BY <1>5 DEF CallInvalidate
<1> QED BY <1>1, <1>2, <1>3, <1>4, <1>5 DEF Call

\* Where a call in progress may go next, and what it leaves alone.
Moved(t) ==
  /\ \/ pc[t] = "lock" /\ pc'[t] = "write" /\ UNCHANGED map
     \/ pc[t] = "write" /\ pc'[t] = "ret"
     \/ pc[t] = "write" /\ pc'[t] = "load_node" /\ call[t].op = "delete"
     \/ /\ UNCHANGED map
        /\ \/ pc[t] = "load_node" /\ pc'[t] = "ret"
           \/ pc[t] = "enter" /\ pc'[t] \in {"ret", "first", "scan"}
           \/ pc[t] = "first" /\ pc'[t] = "scan"
           \/ pc[t] = "scan" /\ pc'[t] = "leave"
           \/ pc[t] = "leave" /\ pc'[t] \in {"ret", "load"}
           \/ pc[t] = "load" /\ pc'[t] \in {"load_len", "load_base"}
           \/ pc[t] \in {"load_len", "load_base"} /\ pc'[t] = "ret"
  /\ call' = call

LEMMA Moving ==
  ASSUME TypeOK, NEW t \in Threads, Step(t)
  PROVE  /\ OnlyMoved(t) /\ used' = used
         /\ \/ Moved(t)
            \/ Return(t) /\ call'[t] = NoCall /\ pc[t] = "ret" /\ pc'[t] = "idle" /\ UNCHANGED map
<1> USE DEF map, locks, results, Goto, TypeOK, OnlyMoved, Moved, Finish, SetErrno, Answer
<1>1. CASE WriteLock(t)
  BY <1>1 DEF WriteLock
<1>2. CASE PutVacant(t)
  BY <1>2 DEF PutVacant
<1>3. CASE PutFull(t)
  BY <1>3 DEF PutFull
<1>4. CASE Refuse(t)
  BY <1>4 DEF Refuse
<1>5. CASE Delete(t)
  BY <1>5 DEF Delete
<1>6. CASE Clear(t)
  BY <1>6 DEF Clear
<1>7. CASE Invalidate(t)
  BY <1>7 DEF Invalidate
<1>8. CASE LoadNode(t)
  BY <1>8 DEF LoadNode
<1>9. CASE GetRefused(t)
  BY <1>9 DEF GetRefused
<1>10. CASE GetEnter(t)
  BY <1>10 DEF GetEnter
<1>11. CASE GetFirst(t)
  BY <1>11 DEF GetFirst
<1>12. CASE Scan(t)
  BY <1>12 DEF Scan
<1>13. CASE GetLeave(t)
  BY <1>13 DEF GetLeave
<1>14. CASE LoadBase(t)
  BY <1>14 DEF LoadBase
<1>15. CASE LoadLen(t)
  BY <1>15 DEF LoadLen
<1>16. CASE Return(t)
  BY <1>16 DEF Return
<1> QED BY <1>1, <1>2, <1>3, <1>4, <1>5, <1>6, <1>7, <1>8, <1>9, <1>10, <1>11, <1>12, <1>13,
           <1>14, <1>15, <1>16 DEF Step

LEMMA OneActs ==
  ASSUME TypeOK, Next
  PROVE  \E t \in Threads :
           /\ Acts(t) /\ OnlyMoved(t)
           /\ \/ Called(t)
              \/ Step(t) /\ used' = used /\ Moved(t)
              \/ /\ used' = used /\ Return(t) /\ call'[t] = NoCall
                 /\ pc[t] = "ret" /\ pc'[t] = "idle" /\ UNCHANGED map
              \/ UNCHANGED <<map, locks, pc, call, slot, ret, ok, used>>
<1>1. PICK t \in Threads : Acts(t)
  BY DEF Next, Acts
<1>2. CASE Call(t)
  BY <1>1, <1>2, Calling
<1>3. CASE Step(t)
  BY <1>1, <1>3, Moving
<1>4. CASE ResetErrno(t)
  BY <1>1, <1>4 DEF ResetErrno, OnlyMoved
<1> QED BY <1>1, <1>2, <1>3, <1>4 DEF Acts

LEMMA CallsKept ==
  ASSUME HInv, Next
  PROVE  Calls' /\ Alone'
<1> USE DEF HInv
<1>1. PICK t \in Threads :
        /\ OnlyMoved(t)
        /\ \/ Called(t)
           \/ Moved(t)
           \/ call'[t] = NoCall /\ pc[t] = "ret" /\ pc'[t] = "idle"
           \/ UNCHANGED <<pc, call>>
  BY OneActs
<1>2. Calls'
  BY <1>1 DEF Calls, OnlyMoved, Called, Moved, NoCall, KeyCall
<1>3. Alone'
  BY <1>1 DEF Alone, Calls, OnlyMoved, Called, Moved, NoCall, KeyCall
<1> QED BY <1>2, <1>3

-----------------------------------------------------------------------------
(* The table, step by step.                                                *)

Leaves(t, where) == pc[t] = "write" /\ pc'[t] = where /\ call' = call /\ used' = used

StoreStep(t) == /\ Leaves(t, "ret") /\ Offers(t) /\ call[t].obj \in Objs
                /\ \E v : Stores(t, v) /\ (v \in Vacant(nodes) \/ Live(nodes) = Slots)

BuryStep(t) == /\ Leaves(t, "load_node") /\ call[t].op = "delete" /\ call[t].key \in Keys
               /\ \E i \in Slots : Buries(t, i)

\* clear_map and invalidate_map.
WipeStep(t) == /\ Leaves(t, "ret") /\ call[t].op \in {"clear", "invalidate"} /\ ~invalid
               /\ nodes' \in [Slots -> Slot] /\ size' = 0
               /\ Live(nodes') = {} /\ Entries(nodes') = {}
               /\ \A i \in Slots : nodes'[i].tomb \/ nodes'[i].key = NULL
               /\ destroyed' = destroyed \cup Entries(nodes)
               /\ \/ /\ call[t].op = "clear" /\ invalid' = invalid
                     /\ \A i \in Slots : nodes'[i].base = nodes[i].base
                  \/ call[t].op = "invalidate" /\ invalid' = TRUE

TableStep(t) == UNCHANGED map \/ StoreStep(t) \/ BuryStep(t) \/ WipeStep(t)

LEMMA TableSteps ==
  ASSUME HInv, NEW t \in Threads, Step(t)
  PROVE  TableStep(t)
<1> USE DEF HInv, TableStep
<1> USE DEF Goto, TypeOK, Finish
<1>1. used' = used /\ OnlyMoved(t) /\ (Moved(t) \/ UNCHANGED map)
  BY Moving
<1>2. CASE PutVacant(t)
  BY <1>2, <1>1, PutVacantStores DEF StoreStep, Leaves, PutVacant, Live, Vacant
<1>3. CASE PutFull(t)
  BY <1>3, <1>1, PutFullStores DEF StoreStep, Leaves, PutFull
<1>4. CASE Delete(t)
  BY <1>4, <1>1, DeleteBuries DEF BuryStep, Leaves, Delete
<1>5. CASE Clear(t)
  <2>1. Leaves(t, "ret") /\ call[t].op = "clear" /\ ~invalid /\ nodes' = Cleared(nodes)
        /\ size' = 0 /\ destroyed' = destroyed \cup Entries(nodes) /\ invalid' = invalid
    BY <1>5, <1>1 DEF Clear, Leaves
  <2> QED BY <2>1, AllCleared DEF WipeStep
<1>6. CASE Invalidate(t)
  <2>1. Leaves(t, "ret") /\ call[t].op = "invalidate" /\ ~invalid /\ nodes' = EmptyTable
        /\ size' = 0 /\ invalid' = TRUE
        /\ destroyed' = destroyed \cup IF size = 0 THEN {} ELSE Entries(nodes)
    BY <1>6, <1>1 DEF Invalidate, Leaves
  <2>2. size = 0 => Entries(nodes) = {}
    BY LiveCounted DEF SizeIsLive, Entries
  <2> QED BY <2>1, <2>2, NothingYet DEF WipeStep
<1>7. CASE UNCHANGED map
  BY <1>7
<1>8. CASE Refuse(t)
  BY <1>8 DEF Refuse
<1>9. CASE pc[t] # "write"
  BY <1>1, <1>9 DEF Moved
<1>10. pc[t] = "write" => \/ PutVacant(t) \/ PutFull(t) \/ Delete(t) \/ Clear(t)
                          \/ Invalidate(t) \/ Refuse(t)
  BY DEF Step, WriteLock, LoadNode, GetRefused, GetEnter, GetFirst, Scan, GetLeave,
         LoadBase, LoadLen, Return
<1> QED BY <1>2, <1>3, <1>4, <1>5, <1>6, <1>7, <1>8, <1>9, <1>10

LEMMA OneTableStep ==
  ASSUME HInv, Next
  PROVE  \E t \in Threads : OnlyMoved(t) /\ TableStep(t)
<1>1. PICK t \in Threads : OnlyMoved(t) /\ (UNCHANGED map \/ Step(t))
  BY OneActs DEF HInv, Called
<1> QED BY <1>1, TableSteps DEF TableStep

LEMMA SizeKept ==
  ASSUME HInv, Next
  PROVE  SizeIsLive'
<1>1. PICK t \in Threads : TableStep(t)
  BY OneTableStep
<1>2. CASE UNCHANGED map
  BY <1>2 DEF map, SizeIsLive, HInv
<1>3. CASE StoreStep(t)
  BY <1>3, StoreCounted DEF StoreStep, SizeIsLive, HInv
<1>4. CASE BuryStep(t)
  <2>1. PICK i \in Slots : Buries(t, i)
    BY <1>4 DEF BuryStep
  <2>2. i \in Live(nodes) /\ Live(nodes') = Live(nodes) \ {i} /\ size' = size - 1
    BY <2>1, BuryCounted DEF Buries, HInv
  <2>3. Cardinality(Live(nodes) \ {i}) = Cardinality(Live(nodes)) - 1
    BY <2>2, LiveCounted, FS_RemoveElement
  <2> QED BY <2>2, <2>3 DEF SizeIsLive, HInv
<1>5. CASE WipeStep(t)
  BY <1>5, FS_EmptySet DEF WipeStep, SizeIsLive
<1> QED BY <1>1, <1>2, <1>3, <1>4, <1>5 DEF TableStep

LEMMA KeyedKept ==
  ASSUME HInv, Next
  PROVE  KeyedSlots'
<1>1. PICK t \in Threads : TableStep(t)
  BY OneTableStep
<1>2. CASE UNCHANGED map
  BY <1>2 DEF map, KeyedSlots, HInv
<1>3. CASE StoreStep(t)
  <2>1. PICK v : Stores(t, v) /\ call[t].obj \in Objs
    BY <1>3 DEF StoreStep
  <2>2. nodes'[v].base # NULL /\ \A i \in Slots \ {v} : nodes'[i] = nodes[i]
    <3>1. nodes'[v] = Full(call[t].obj) /\ \A i \in Slots \ {v} : nodes'[i] = nodes[i]
      BY <2>1, StoreCounted DEF HInv
    <3>2. call[t].obj # NULL
      BY <2>1, HashTableAssumption
    <3> QED BY <3>1, <3>2 DEF Full
  <2> QED BY <2>2 DEF KeyedSlots, HInv
<1>4. CASE BuryStep(t)
  <2>1. PICK i \in Slots : Buries(t, i)
    BY <1>4 DEF BuryStep
  <2>2. nodes'[i].tomb /\ \A j \in Slots \ {i} : nodes'[j] = nodes[j]
    BY <2>1, BuryCounted DEF Buries, HInv
  <2> QED BY <2>2 DEF KeyedSlots, HInv
<1>5. CASE WipeStep(t)
  BY <1>5 DEF WipeStep, KeyedSlots
<1> QED BY <1>1, <1>2, <1>3, <1>4, <1>5 DEF TableStep

-----------------------------------------------------------------------------
(* Who owns a pair.                                                        *)

\* What a live slot promises, and what each step of the table keeps of it.
LEMMA SlotsOwnKept ==
  ASSUME HInv, Next
  PROVE  LiveSlotsOwn'
<1> USE DEF HInv
<1>1. PICK t \in Threads : TableStep(t)
  BY OneTableStep
<1>2. CASE UNCHANGED map
  BY <1>2 DEF map, LiveSlotsOwn
<1>3. CASE StoreStep(t)
  <2> DEFINE o == call[t].obj
  <2>1. PICK v \in Slots : Stores(t, v) /\ o \in Objs
    BY <1>3 DEF StoreStep, Stores
  <2>2. /\ Live(nodes') = Live(nodes) \cup {v} /\ nodes'[v] = Full(o)
        /\ \A i \in Slots \ {v} : nodes'[i] = nodes[i]
    BY <2>1, StoreCounted
  <2>3. nodes'[v].base = o /\ nodes'[v].len = o /\ nodes'[v].key = KeyOf[o]
    BY <2>2 DEF Full
  <2>4. o \notin destroyed /\ o \notin Entries(nodes) /\ destroyed' = destroyed
    BY <1>3, <2>1 DEF StoreStep, PairsOwned, Stores
  <2>5. \A i \in Live(nodes) : i \in Slots /\ nodes[i].base # o
    BY <2>4 DEF Entries, Live
  <2> QED BY <2>2, <2>3, <2>4, <2>5 DEF LiveSlotsOwn
<1>4. CASE BuryStep(t)
  <2>1. PICK i \in Slots : Buries(t, i)
    BY <1>4 DEF BuryStep
  <2>2. Live(nodes') = Live(nodes) \ {i} /\ \A j \in Slots \ {i} : nodes'[j] = nodes[j]
    BY <2>1, BuryCounted DEF Buries
  <2>3. destroyed' = destroyed /\ Live(nodes) \subseteq Slots
    BY <2>1 DEF Buries, Live
  <2> QED BY <2>2, <2>3 DEF LiveSlotsOwn
<1>5. CASE WipeStep(t)
  BY <1>5 DEF WipeStep, LiveSlotsOwn
<1> QED BY <1>1, <1>2, <1>3, <1>4, <1>5 DEF TableStep

\* The pairs in the table and the destroyed ones: what a step adds.
LEMMA PairsMoved ==
  ASSUME HInv, NEW t \in Threads, TableStep(t)
  PROVE  \/ Entries(nodes') \cup destroyed' \subseteq Entries(nodes) \cup destroyed
         \/ /\ StoreStep(t)
            /\ Entries(nodes') \cup destroyed' \subseteq Entries(nodes) \cup destroyed \cup {call[t].obj}
<1> USE DEF HInv
<1>2. CASE UNCHANGED map
  BY <1>2 DEF map
<1>3. CASE StoreStep(t)
  <2>1. PICK v \in Slots : Stores(t, v) /\ call[t].obj \in Objs
    BY <1>3 DEF StoreStep, Stores
  <2>2. Entries(nodes') = EntriesBut(nodes, v) \cup {call[t].obj} /\ destroyed' = destroyed
    BY <2>1, StoreCounted DEF Stores
  <2>3. EntriesBut(nodes, v) \subseteq Entries(nodes)
    BY DEF EntriesBut, Entries
  <2> QED BY <1>3, <2>2, <2>3
<1>4. CASE BuryStep(t)
  <2>1. PICK i \in Slots : Buries(t, i)
    BY <1>4 DEF BuryStep
  <2>2. Entries(nodes') = EntriesBut(nodes, i) /\ destroyed' = destroyed
    BY <2>1, BuryCounted DEF Buries
  <2>3. EntriesBut(nodes, i) \subseteq Entries(nodes)
    BY DEF EntriesBut, Entries
  <2> QED BY <2>2, <2>3
<1>5. CASE WipeStep(t)
  BY <1>5 DEF WipeStep
<1> QED BY <1>2, <1>3, <1>4, <1>5 DEF TableStep

LEMMA PairsKept ==
  ASSUME HInv, Next
  PROVE  PairsOwned'
<1> USE DEF HInv
<1>1. PICK t \in Threads :
        /\ Acts(t) /\ OnlyMoved(t)
        /\ \/ Called(t)
           \/ Step(t) /\ used' = used /\ Moved(t)
           \/ used' = used /\ call'[t] = NoCall /\ UNCHANGED map
           \/ UNCHANGED <<map, pc, call, used>>
  BY OneActs
<1>2. CASE Called(t)
  <2>1. Entries(nodes') = Entries(nodes) /\ destroyed' = destroyed /\ used \subseteq used'
    BY <1>2 DEF Called, map
  <2>2. ASSUME NEW u \in Threads, Offers(u)'
        PROVE  \/ u # t /\ Offers(u) /\ call'[u].obj = call[u].obj
               \/ u = t /\ call'[u].obj \in used' \ used
    BY <1>1, <1>2, <2>2 DEF Called, Offers, OnlyMoved
  <2> QED BY <2>1, <2>2 DEF PairsOwned
<1>3. CASE Step(t) /\ used' = used /\ Moved(t)
  <2>1. TableStep(t)
    BY <1>3, TableSteps
  <2>2. ASSUME NEW u \in Threads, Offers(u)'
        PROVE  Offers(u) /\ call'[u].obj = call[u].obj
    BY <1>1, <1>3, <2>2 DEF Moved, Offers, OnlyMoved
  <2>3. CASE Entries(nodes') \cup destroyed' \subseteq Entries(nodes) \cup destroyed
    BY <1>3, <2>2, <2>3 DEF PairsOwned
  <2>4. CASE /\ StoreStep(t)
             /\ Entries(nodes') \cup destroyed' \subseteq Entries(nodes) \cup destroyed \cup {call[t].obj}
    <3>1. Offers(t) /\ ~Offers(t)'
      BY <2>4 DEF StoreStep, Leaves, Offers
    <3>2. call[t].obj \in used /\ \A u \in Threads : Offers(u) /\ call[u].obj = call[t].obj => u = t
      BY <3>1 DEF PairsOwned
    <3> QED BY <1>3, <2>2, <2>4, <3>1, <3>2 DEF PairsOwned
  <2> QED BY <2>1, <2>3, <2>4, PairsMoved
<1>4. CASE used' = used /\ call'[t] = NoCall /\ UNCHANGED map
  <2>1. ASSUME NEW u \in Threads, Offers(u)'
        PROVE  Offers(u) /\ call'[u].obj = call[u].obj
    BY <1>1, <1>4, <2>1 DEF NoCall, KeyCall, Offers, OnlyMoved
  <2> QED BY <1>4, <2>1 DEF PairsOwned, map
<1>5. CASE UNCHANGED <<map, pc, call, used>>
  BY <1>5 DEF PairsOwned, map, Offers
<1> QED BY <1>1, <1>2, <1>3, <1>4, <1>5

-----------------------------------------------------------------------------
(* The readers-writer lock.                                                *)

\* Where a thread must be for it to matter to the lock.
Places == {"write", "first", "scan", "leave"}

\* A step that goes past none of them leaves the lock alone.
Aside(t) == /\ UNCHANGED locks
            /\ \A p \in Places : pc[t] = p <=> pc'[t] = p

LeavesWrite(t) == /\ pc[t] = "write" /\ pc'[t] \notin Places
                  /\ write_lock' = NULL /\ UNCHANGED <<num_readers, fields_lock>>

LockStep(t) == \/ WriteLock(t) \/ LeavesWrite(t) \/ GetEnter(t) \/ GetFirst(t) \/ GetLeave(t)
               \/ UNCHANGED locks /\ pc[t] = "scan" /\ pc'[t] = "leave"
               \/ Aside(t)

LEMMA OneLockStep ==
  ASSUME TypeOK, Next
  PROVE  \E t \in Threads : OnlyMoved(t) /\ LockStep(t)
<1>1. PICK t \in Threads : Acts(t) /\ OnlyMoved(t)
  BY OneActs
<1> USE DEF LockStep, Aside, LeavesWrite, Places, Goto, TypeOK
<1>2. CASE Call(t)
  BY <1>1, <1>2, Calling DEF Called
<1>3. CASE ResetErrno(t)
  BY <1>1, <1>3 DEF ResetErrno
<1>4. CASE Step(t)
  <2>1. CASE WriteLock(t) \/ GetEnter(t) \/ GetFirst(t) \/ GetLeave(t)
    BY <1>1, <2>1
  <2>2. CASE PutVacant(t) \/ PutFull(t) \/ Refuse(t) \/ Delete(t) \/ Clear(t) \/ Invalidate(t)
    <3>1. LeavesWrite(t)
      BY <2>2 DEF PutVacant, PutFull, Refuse, Delete, Clear, Invalidate, Finish
    <3> QED BY <1>1, <3>1
  <2>3. CASE LoadNode(t) \/ GetRefused(t) \/ LoadBase(t) \/ LoadLen(t) \/ Return(t)
    <3>1. Aside(t)
      BY <2>3 DEF LoadNode, GetRefused, LoadBase, LoadLen, Return
    <3> QED BY <1>1, <3>1
  <2>4. CASE Scan(t)
    BY <1>1, <2>4 DEF Scan, locks
  <2> QED BY <1>4, <2>1, <2>2, <2>3, <2>4 DEF Step
<1> QED BY <1>1, <1>2, <1>3, <1>4 DEF Acts

LEMMA LocksKept ==
  ASSUME HInv, Next
  PROVE  LockDiscipline'
<1> USE DEF HInv
<1>1. PICK t \in Threads : OnlyMoved(t) /\ LockStep(t)
  BY OneLockStep
<1>2. \A u \in Threads \ {t} : pc'[u] = pc[u]
  BY <1>1 DEF OnlyMoved
<1>3. t # NULL /\ \A u \in Threads : u # NULL
  BY HashMapAssumption
<1> USE DEF Readers, Inside, Writing
<1>4. CASE WriteLock(t)
  <2>1. pc[t] = "lock" /\ pc'[t] = "write" /\ write_lock = NULL /\ write_lock' = t
        /\ UNCHANGED <<num_readers, fields_lock>>
    BY <1>4 DEF WriteLock, Goto, TypeOK
  <2>2. Writing = {} /\ Inside = {}
    BY <2>1 DEF LockDiscipline
  <2>3. Readers' = Readers /\ Inside' = {} /\ Writing' = {t}
    BY <1>2, <2>1, <2>2
  <2> QED BY <1>2, <1>3, <2>1, <2>3 DEF LockDiscipline
<1>5. CASE LeavesWrite(t)
  <2>1. /\ pc[t] = "write" /\ pc'[t] \notin {"write", "first", "scan", "leave"}
        /\ write_lock' = NULL /\ UNCHANGED <<num_readers, fields_lock>>
    BY <1>5 DEF LeavesWrite, Places
  <2>2. Writing = {t} /\ Inside = {}
    BY <2>1 DEF LockDiscipline
  <2>3. Readers' = Readers /\ Inside' = {} /\ Writing' = {}
    BY <1>2, <2>1, <2>2
  <2> QED BY <1>2, <1>3, <2>1, <2>3 DEF LockDiscipline
<1>6. CASE GetEnter(t)
  <2>1. /\ pc[t] = "enter" /\ fields_lock = NULL /\ write_lock' = write_lock
        /\ num_readers' = num_readers + 1
        /\ IF num_readers' = 1 THEN pc'[t] = "first" /\ fields_lock' = t
                               ELSE pc'[t] = "scan" /\ fields_lock' = NULL
    BY <1>6 DEF GetEnter, Goto, TypeOK
  <2>2. Readers' = Readers \cup {t} /\ t \notin Readers /\ Writing' = Writing
    BY <1>2, <2>1
  <2>3. num_readers' = Cardinality(Readers')
    <3>1. IsFiniteSet(Readers) /\ num_readers = Cardinality(Readers)
      BY ReadersCounted DEF LockDiscipline
    <3>2. Cardinality(Readers') = Cardinality(Readers) + 1
      BY <2>2, <3>1, FS_AddElement, Zenon
    <3> QED BY <2>1, <3>1, <3>2
  <2>4. Readers = Inside
    BY <1>3, <2>1 DEF LockDiscipline
  <2>5. CASE num_readers' = 1
    <3>1. Inside' = Inside /\ Inside = {}
      BY <1>2, <2>1, <2>4, <2>5, ReadersCounted DEF LockDiscipline
    <3> QED BY <1>2, <1>3, <2>1, <2>2, <2>3, <2>5, <3>1 DEF LockDiscipline
  <2>6. CASE num_readers' # 1
    <3>1. Inside' = Inside \cup {t} /\ Inside # {}
      BY <1>2, <2>1, <2>4, <2>6, ReadersCounted DEF LockDiscipline
    <3>2. Writing = {} /\ write_lock # NULL
      BY <3>1 DEF LockDiscipline
    <3> QED BY <1>2, <1>3, <2>1, <2>2, <2>3, <2>6, <3>1, <3>2 DEF LockDiscipline
  <2> QED BY <2>5, <2>6
<1>7. CASE GetFirst(t)
  <2>1. /\ pc[t] = "first" /\ pc'[t] = "scan" /\ write_lock = NULL /\ write_lock' = t
        /\ fields_lock' = NULL /\ num_readers' = num_readers
    BY <1>7 DEF GetFirst, Goto, TypeOK
  <2>2. Writing = {} /\ Inside = {}
    BY <2>1 DEF LockDiscipline
  <2>3. Readers' = Readers /\ Inside' = {t} /\ Writing' = {}
    BY <1>2, <2>1, <2>2
  <2>4. \A u \in Threads : pc'[u] # "first"
    BY <1>2, <2>1 DEF LockDiscipline
  <2> QED BY <1>2, <1>3, <2>1, <2>3, <2>4 DEF LockDiscipline
<1>8. CASE GetLeave(t)
  <2>1. /\ pc[t] = "leave" /\ pc'[t] \in {"ret", "load"} /\ fields_lock = NULL
        /\ fields_lock' = NULL /\ num_readers' = num_readers - 1
        /\ write_lock' = IF num_readers' = 0 THEN NULL ELSE write_lock
    BY <1>8 DEF GetLeave, Goto, TypeOK
  <2>2. Readers' = Readers \ {t} /\ t \in Readers /\ Writing' = Writing
    BY <1>2, <2>1
  <2>3. num_readers' = Cardinality(Readers')
    <3>1. IsFiniteSet(Readers) /\ num_readers = Cardinality(Readers)
      BY ReadersCounted DEF LockDiscipline
    <3>2. Cardinality(Readers') = Cardinality(Readers) - 1
      BY <2>2, <3>1, FS_RemoveElement, Zenon
    <3> QED BY <2>1, <3>1, <3>2
  <2>4. \A u \in Threads : pc[u] # "first" /\ pc'[u] # "first"
    BY <1>2, <1>3, <2>1 DEF LockDiscipline
  <2>5. Readers' = Inside' /\ Writing = {} /\ write_lock # NULL
    BY <2>1, <2>4 DEF LockDiscipline
  <2>6. num_readers' = 0 <=> Inside' = {}
    BY <2>2, <2>3, <2>5, ReadersCounted, FS_EmptySet, FS_RemoveElement
  <2> QED BY <1>3, <2>1, <2>2, <2>3, <2>4, <2>5, <2>6 DEF LockDiscipline
<1>9. CASE UNCHANGED locks /\ pc[t] = "scan" /\ pc'[t] = "leave"
  <2>1. Readers' = Readers /\ Inside' = Inside /\ Writing' = Writing
    BY <1>2, <1>9
  <2> QED BY <1>2, <1>9, <2>1 DEF LockDiscipline, locks
<1>10. CASE Aside(t)
  <2>1. /\ Readers' = Readers /\ Inside' = Inside /\ Writing' = Writing
        /\ \A u \in Threads : pc'[u] = "first" <=> pc[u] = "first"
    BY <1>2, <1>10 DEF Aside, Places
  <2> QED BY <1>10, <2>1 DEF LockDiscipline, Aside, locks
<1> QED BY <1>1, <1>4, <1>5, <1>6, <1>7, <1>8, <1>9, <1>10 DEF LockStep

-----------------------------------------------------------------------------
(* What a reader finds.                                                    *)

\* While a thread writes nobody is inside, and while invalidate_map runs nobody
\* else runs.
LEMMA WriterAlone ==
  ASSUME HInv, NEW t \in Threads, pc[t] = "write"
  PROVE  Inside = {} /\ (call[t].op = "invalidate" => \A u \in Threads \ {t} : pc[u] = "idle")
BY DEF HInv, LockDiscipline, Writing, Alone

LEMMA ClosedKept ==
  ASSUME HInv, Next
  PROVE  Emptied'
<1> USE DEF HInv
<1>1. PICK t \in Threads :
        /\ Acts(t) /\ OnlyMoved(t)
        /\ \/ Called(t)
           \/ Step(t) /\ Moved(t)
           \/ pc'[t] = "idle" /\ UNCHANGED map
           \/ UNCHANGED <<map, pc>>
  BY OneActs
<1> USE DEF Readers
<1>2. CASE Called(t)
  BY <1>1, <1>2 DEF Called, Emptied, OnlyMoved, map
<1>3. CASE pc'[t] = "idle" /\ UNCHANGED map
  BY <1>1, <1>3 DEF Emptied, OnlyMoved, map
<1>4. CASE UNCHANGED <<map, pc>>
  BY <1>4 DEF Emptied, map
<1>5. CASE Step(t) /\ Moved(t)
  <2>1. TableStep(t)
    BY <1>5, TableSteps
  <2>2. CASE UNCHANGED map
    <3>1. CASE GetEnter(t)
      BY <2>2, <3>1 DEF GetEnter, Emptied, map
    <3>2. CASE pc[t] # "enter"
      <4>1. Readers' \subseteq Readers
        BY <1>1, <1>5, <3>2 DEF Moved, OnlyMoved
      <4> QED BY <2>2, <4>1 DEF Emptied, map
    <3>3. CASE GetRefused(t)
      <4>1. Readers' \subseteq Readers
        BY <1>1, <3>3 DEF GetRefused, Goto, OnlyMoved, TypeOK
      <4> QED BY <2>2, <4>1 DEF Emptied, map
    <3>4. pc[t] = "enter" => GetEnter(t) \/ GetRefused(t)
      BY <1>5 DEF Step, WriteLock, PutVacant, PutFull, Refuse, Delete, Clear, Invalidate, Finish,
                  LoadNode, GetFirst, Scan, GetLeave, LoadBase, LoadLen, Return, Goto
    <3> QED BY <3>1, <3>2, <3>3, <3>4
  <2>3. CASE StoreStep(t)
    BY <2>3 DEF StoreStep, Stores, Emptied
  <2>4. CASE BuryStep(t)
    BY <2>4 DEF BuryStep, Buries, Emptied
  <2>5. CASE WipeStep(t)
    <3>1. CASE call[t].op = "clear"
      BY <2>5, <3>1 DEF WipeStep, Emptied
    <3>2. CASE call[t].op = "invalidate"
      <4>1. pc[t] = "write" /\ pc'[t] = "ret" /\ size' = 0
        BY <2>5 DEF WipeStep, Leaves
      <4>2. \A u \in Threads \ {t} : pc'[u] = "idle"
        BY <1>1, <3>2, <4>1, WriterAlone DEF OnlyMoved
      <4> QED BY <4>1, <4>2 DEF Emptied
    <3>3. call[t].op \in {"clear", "invalidate"} /\ (call[t].op = "clear" => ~invalid')
      BY <2>5 DEF WipeStep
    <3> QED BY <3>1, <3>2, <3>3 DEF Emptied
  <2> QED BY <2>1, <2>2, <2>3, <2>4, <2>5 DEF TableStep
<1> QED BY <1>1, <1>2, <1>3, <1>4, <1>5

\* A call that gets nowhere near the lock leaves what is inside as it was.
LEMMA ReadKept ==
  ASSUME HInv, Next
  PROVE  ReadStable'
<1> USE DEF HInv
<1>1. PICK t \in Threads :
        /\ Acts(t) /\ OnlyMoved(t)
        /\ \/ Called(t)
           \/ Step(t) /\ Moved(t)
           \/ pc'[t] = "idle" /\ UNCHANGED map
           \/ UNCHANGED <<map, pc, call, slot>>
  BY OneActs
<1> USE DEF Inside
<1>2. CASE Called(t)
  BY <1>1, <1>2 DEF Called, ReadStable, OnlyMoved, map
<1>3. CASE pc'[t] = "idle" /\ UNCHANGED map
  BY <1>1, <1>3 DEF ReadStable, OnlyMoved, map
<1>4. CASE UNCHANGED <<map, pc, call, slot>>
  BY <1>4 DEF ReadStable, map
<1>5. CASE Step(t) /\ Moved(t)
  <2>1. CASE pc[t] = "write"
    <3>1. Inside' = {}
      BY <1>1, <1>5, <2>1, WriterAlone DEF Moved, OnlyMoved
    <3> QED BY <3>1 DEF ReadStable
  <2>2. CASE pc[t] # "write"
    <3>1. UNCHANGED map /\ call' = call
      BY <1>5, <2>2 DEF Moved
    <3>2. ~invalid \/ Inside' = {}
      <4>1. CASE GetEnter(t)
        BY <4>1 DEF GetEnter
      <4>2. CASE GetFirst(t)
        BY <4>2 DEF GetFirst, Goto, Emptied, Readers
      <4>3. CASE ~GetEnter(t) /\ ~GetFirst(t)
        <5>1. pc'[t] \in {"scan", "leave"} => pc[t] \in {"scan", "leave"}
          BY <1>5, <4>3 DEF Step, WriteLock, PutVacant, PutFull, Refuse, Delete, Clear,
               Invalidate, Finish, LoadNode, GetRefused, Scan, GetLeave, LoadBase, LoadLen,
               Return, Goto, TypeOK
        <5>2. Inside' \subseteq Inside
          BY <1>1, <5>1 DEF OnlyMoved
        <5> QED BY <5>2 DEF ReadStable
      <4> QED BY <4>1, <4>2, <4>3
    <3>3. ASSUME pc'[t] = "leave"
          PROVE  slot'[t] = First(call[t].key, Matching(nodes, call[t].key))
      <4>1. Scan(t)
        BY <1>5, <3>3 DEF Step, WriteLock, PutVacant, PutFull, Refuse, Delete, Clear,
             Invalidate, Finish, LoadNode, GetRefused, GetEnter, GetFirst, GetLeave, LoadBase,
             LoadLen, Return, Goto, TypeOK
      <4> QED BY <4>1 DEF Scan, TypeOK
    <3> QED BY <1>1, <3>1, <3>2, <3>3 DEF ReadStable, OnlyMoved, map
  <2> QED BY <2>1, <2>2
<1> QED BY <1>1, <1>2, <1>3, <1>4, <1>5

\* The slot that matches a key points to a pair.
LEMMA FoundPoints ==
  ASSUME HInv, NEW k \in Keys, First(k, Matching(nodes, k)) # NoSlot
  PROVE  /\ First(k, Matching(nodes, k)) \in Slots
         /\ nodes[First(k, Matching(nodes, k))].base # NULL
<1>1. Matching(nodes, k) \subseteq Slots
  BY DEF Matching
<1>2. First(k, Matching(nodes, k)) \in Matching(nodes, k)
  BY <1>1, ProbingFinds
<1> QED BY <1>2, HashTableAssumption DEF Matching, KeyedSlots, HInv

\* Only invalidate_map takes a slot's pointer away.
LEMMA PointersStay ==
  ASSUME HInv, NEW t \in Threads, TableStep(t), ~invalid' \/ UNCHANGED map
  PROVE  \A i \in Slots : nodes[i].base # NULL => nodes'[i].base # NULL
<1> USE DEF HInv
<1>1. CASE UNCHANGED map
  BY <1>1 DEF map
<1>2. CASE StoreStep(t)
  <2>1. PICK v \in Slots : Stores(t, v) /\ call[t].obj \in Objs
    BY <1>2 DEF StoreStep, Stores
  <2>2. nodes'[v] = Full(call[t].obj) /\ \A i \in Slots \ {v} : nodes'[i] = nodes[i]
    BY <2>1, StoreCounted
  <2>3. call[t].obj # NULL
    BY <2>1, HashTableAssumption
  <2> QED BY <2>2, <2>3 DEF Full
<1>3. CASE BuryStep(t)
  <2>1. PICK i \in Slots : Buries(t, i)
    BY <1>3 DEF BuryStep
  <2>2. nodes'[i].base = nodes[i].base /\ \A j \in Slots \ {i} : nodes'[j] = nodes[j]
    BY <2>1, BuryCounted DEF Buries
  <2> QED BY <2>2
<1>4. CASE WipeStep(t)
  BY <1>4 DEF WipeStep, map
<1> QED BY <1>1, <1>2, <1>3, <1>4 DEF TableStep

LEMMA FoundKept ==
  ASSUME HInv, Next
  PROVE  Found'
<1> USE DEF HInv
<1>1. PICK t \in Threads :
        /\ Acts(t) /\ OnlyMoved(t)
        /\ \/ Called(t)
           \/ Step(t) /\ Moved(t)
           \/ pc'[t] = "idle" /\ UNCHANGED map
           \/ UNCHANGED <<map, pc, slot, ret>>
  BY OneActs
<1>2. CASE Called(t)
  BY <1>1, <1>2 DEF Called, Found, OnlyMoved, map
<1>3. CASE pc'[t] = "idle" /\ UNCHANGED map
  BY <1>1, <1>3 DEF Found, OnlyMoved, map
<1>4. CASE UNCHANGED <<map, pc, slot, ret>>
  BY <1>4 DEF Found, map
<1>5. CASE Step(t) /\ Moved(t)
  <2> DEFINE Loading == {"load_node", "load", "load_base", "load_len"}
             FoundBy(u) == slot'[u] \in Slots /\ nodes'[slot'[u]].base # NULL
  <2>1. TableStep(t)
    BY <1>5, TableSteps
  <2>2. ASSUME NEW u \in Threads \ {t}, pc'[u] \in Loading
        PROVE  FoundBy(u) /\ (pc'[u] = "load_len" => ret'[u].base # NULL)
    <3>1. pc[u] \in Loading /\ slot'[u] = slot[u] /\ ret'[u] = ret[u] /\ pc'[u] = pc[u]
      BY <1>1, <2>2 DEF OnlyMoved
    <3>2. slot[u] \in Slots /\ nodes[slot[u]].base # NULL
      BY <3>1 DEF Found
    <3>3. ~invalid' \/ UNCHANGED map
      <4>1. CASE invalid /\ ~UNCHANGED map
        BY <2>1, <4>1 DEF TableStep, StoreStep, Stores, BuryStep, Buries, WipeStep
      <4>2. CASE ~invalid /\ invalid'
        <5>1. pc[t] = "write" /\ call[t].op = "invalidate"
          BY <2>1, <4>2 DEF TableStep, StoreStep, Stores, BuryStep, Buries, WipeStep, Leaves, map
        <5> QED BY <5>1, <3>1, WriterAlone
      <4> QED BY <4>1, <4>2
    <3> QED BY <2>1, <3>1, <3>2, <3>3, PointersStay DEF Found
  <2>3. ASSUME pc'[t] \in Loading
        PROVE  FoundBy(t) /\ (pc'[t] = "load_len" => ret'[t].base # NULL)
    <3>1. Delete(t) \/ GetLeave(t) \/ LoadBase(t) \/ LoadLen(t)
      BY <1>5, <2>3 DEF Step, WriteLock, PutVacant, PutFull, Refuse, Clear, Invalidate, Finish,
           LoadNode, GetRefused, GetEnter, GetFirst, Scan, Return, Goto, TypeOK
    <3>2. CASE Delete(t)
      <4>1. PICK i \in Slots : Buries(t, i)
        BY <3>2, DeleteBuries
      <4>2. slot'[t] = i
        BY <4>1 DEF Buries, TypeOK
      <4>3. nodes'[i].base = nodes[i].base
        BY <4>1, BuryCounted DEF Buries
      <4>4. nodes[i].base # NULL /\ pc'[t] = "load_node"
        BY <3>2, <4>1 DEF Buries, Live, Vacant, Delete, Finish, Goto, TypeOK
      <4> QED BY <4>2, <4>3, <4>4
    <3>3. CASE GetLeave(t)
      <4>1. pc[t] = "leave" /\ slot[t] # NoSlot /\ slot' = slot /\ nodes' = nodes
            /\ pc'[t] = "load"
        BY <2>3, <3>3 DEF GetLeave, Goto, TypeOK, map
      <4>2. slot[t] = First(call[t].key, Matching(nodes, call[t].key)) /\ call[t].key \in Keys
        BY <4>1, InGet DEF ReadStable
      <4> QED BY <4>1, <4>2, FoundPoints
    <3>4. CASE LoadBase(t)
      <4>1. pc[t] = "load" /\ slot' = slot /\ nodes' = nodes
            /\ ret' = [ret EXCEPT ![t].base = nodes[slot[t]].base]
        BY <2>3, <3>4 DEF LoadBase, Goto, TypeOK, map
      <4>2. slot[t] \in Slots /\ nodes[slot[t]].base # NULL
        BY <4>1 DEF Found
      <4>3. nodes[slot[t]].base \in Objs \cup {NULL}
        BY <4>2, SlotFields DEF TypeOK
      <4>4. ret \in [Threads -> Loaded]
        BY DEF TypeOK, Loaded
      <4>5. ret'[t].base = nodes[slot[t]].base
        BY <4>1, <4>3, <4>4, LoadedKept
      <4> QED BY <4>1, <4>2, <4>5
    <3>5. CASE LoadLen(t)
      <4>1. pc[t] = "load" /\ slot' = slot /\ nodes' = nodes /\ pc'[t] = "load_base"
        BY <2>3, <3>5 DEF LoadLen, Goto, TypeOK, map
      <4> QED BY <4>1 DEF Found
    <3> QED BY <3>1, <3>2, <3>3, <3>4, <3>5
  <2> QED BY <2>2, <2>3 DEF Found
<1> QED BY <1>1, <1>2, <1>3, <1>4, <1>5

\* An empty map and a closed one have no slot for any key; nor has a map that
\* probing has searched in vain.
LEMMA NoMatch ==
  ASSUME HInv, NEW k \in Keys,
         size = 0 \/ invalid \/ First(k, Matching(nodes, k)) = NoSlot
  PROVE  Matching(nodes, k) = {}
<1> USE DEF HInv
<1>1. CASE size = 0 \/ invalid
  <2>1. Live(nodes) = {}
    BY <1>1, LiveCounted DEF Emptied, SizeIsLive
  <2>2. \A i \in Slots : ~ (~nodes[i].tomb /\ nodes[i].key = k)
    BY <2>1, HashTableAssumption DEF Live, Vacant, KeyedSlots
  <2> QED BY <2>2 DEF Matching
<1>2. CASE First(k, Matching(nodes, k)) = NoSlot
  <2>1. Matching(nodes, k) \subseteq Slots
    BY DEF Matching
  <2>2. NoSlot \notin Slots
    BY HashTableAssumption DEF NoSlot, Slots
  <2> QED BY <1>2, <2>1, <2>2, ProbingFinds
<1> QED BY <1>1, <1>2

LEMMA MissKept ==
  ASSUME HInv, Next
  PROVE  MissIsJustified'
<1> USE DEF HInv
<1>1. PICK t \in Threads :
        /\ Acts(t) /\ OnlyMoved(t)
        /\ \/ Called(t)
           \/ Step(t) /\ Moved(t)
           \/ pc'[t] = "idle"
           \/ UNCHANGED <<map, pc, call, ret>>
  BY OneActs
<1>2. \A u \in Threads :
        /\ pc'[u] # "idle" /\ pc[u] # "idle" /\ absent[u] => absent'[u]
        /\ pc'[u] # "idle" /\ Matching(nodes', call'[u].key) = {} => absent'[u]
  BY DEF Next, NoteAbsence
<1>3. SUFFICES ASSUME NEW u \in Threads, pc'[u] = "ret", call'[u].op \in {"get", "delete"},
                      ret'[u].base = NULL
               PROVE  absent'[u]
  BY DEF MissIsJustified
<1>4. CASE pc[u] = "ret" /\ call'[u] = call[u] /\ ret'[u] = ret[u]
  BY <1>2, <1>3, <1>4 DEF MissIsJustified
<1>5. CASE u # t
  BY <1>1, <1>3, <1>4, <1>5 DEF OnlyMoved
<1>6. CASE u = t /\ UNCHANGED <<map, pc, call, ret>>
  BY <1>3, <1>4, <1>6
<1>7. CASE u = t /\ Step(t) /\ Moved(t)
  <2>1. call'[t] = call[t] /\ pc[t] # "ret"
    BY <1>7 DEF Moved
  <2>2. pc'[t] = "ret" /\ call[t].op \in {"get", "delete"} /\ ret'[t].base = NULL
    BY <1>3, <1>7, <2>1
  <2>3. call[t].key \in Keys
    BY <2>2 DEF Calls
  <2>4. GetRefused(t) \/ GetLeave(t) \/ Refuse(t) \/ LoadNode(t) \/ LoadBase(t) \/ LoadLen(t)
    BY <1>7, <2>1, <2>2 DEF Step, WriteLock, PutVacant, PutFull, Delete, Clear, Invalidate,
         Finish, GetEnter, GetFirst, Scan, Return, Goto, TypeOK
  <2>5. CASE nodes' = nodes /\ Matching(nodes, call[t].key) = {}
    BY <1>2, <1>7, <2>1, <2>2, <2>5
  <2>6. CASE GetRefused(t)
    BY <2>3, <2>5, <2>6, NoMatch DEF GetRefused, map
  <2>7. CASE Refuse(t)
    BY <2>2, <2>3, <2>5, <2>7, NoMatch DEF Refuse, map
  <2>8. CASE GetLeave(t)
    <3>1. pc[t] = "leave" /\ slot[t] = NoSlot /\ nodes' = nodes
      BY <2>2, <2>8 DEF GetLeave, Goto, TypeOK, map
    <3>2. slot[t] = First(call[t].key, Matching(nodes, call[t].key))
      BY <3>1 DEF ReadStable
    <3> QED BY <2>3, <2>5, <3>1, <3>2, NoMatch
  <2>9. CASE LoadNode(t)
    <3>1. pc[t] = "load_node" /\ ret'[t].base = nodes[slot[t]].base
      BY <2>9 DEF LoadNode, Goto, TypeOK
    <3> QED BY <2>2, <3>1 DEF Found
  <2>10. ret \in [Threads -> Loaded]
    BY DEF TypeOK, Loaded
  <2>11. pc[t] \in {"load", "load_base", "load_len"} =>
           nodes[slot[t]].base \in Objs /\ nodes[slot[t]].len \in Objs \cup {NULL}
    BY SlotFields DEF TypeOK, Found
  <2>12. CASE LoadBase(t)
    <3>1. pc[t] = "load_base" /\ ret' = [ret EXCEPT ![t].base = nodes[slot[t]].base]
      BY <2>2, <2>12 DEF LoadBase, Goto, TypeOK
    <3>2. ret'[t].base = nodes[slot[t]].base
      BY <2>10, <2>11, <3>1, LoadedKept
    <3> QED BY <2>2, <2>11, <3>1, <3>2, HashTableAssumption
  <2>13. CASE LoadLen(t)
    <3>1. pc[t] = "load_len" /\ ret' = [ret EXCEPT ![t].len = nodes[slot[t]].len]
      BY <2>2, <2>13 DEF LoadLen, Goto, TypeOK
    <3>2. ret'[t].base = ret[t].base
      BY <2>10, <2>11, <3>1, LoadedKept
    <3> QED BY <2>2, <3>1, <3>2 DEF Found
  <2> QED BY <2>4, <2>6, <2>7, <2>8, <2>9, <2>12, <2>13
<1>8. u = t => pc'[t] # "idle" /\ ~Called(t)
  BY <1>3 DEF Called
<1> QED BY <1>1, <1>5, <1>6, <1>7, <1>8

-----------------------------------------------------------------------------
(* The theorems.                                                           *)

LEMMA HInitially ==
  ASSUME Init
  PROVE  HInv
<1> USE DEF Init, create_map
<1>1. Entries(nodes) = {} /\ Live(nodes) = {} /\ nodes \in [Slots -> Slot]
  BY NothingYet
<1>2. Readers = {} /\ Inside = {} /\ Writing = {}
  BY DEF Readers, Inside, Writing
<1>3. TypeOK
  <2>1. size \in 0 .. Capacity /\ num_readers \in Nat
    BY HashTableAssumption
  <2>2. NoCall \in [op : {"none"}, key : {NULL}, obj : {NULL}, force : BOOLEAN]
    BY DEF NoCall, KeyCall
  <2>3. NoRet \in [key : {NULL}, base : {NULL}, len : {NULL}]
    BY DEF NoRet
  <2>4. call \in [Threads -> [op : {"none", "put", "get", "delete", "clear", "invalidate"},
                              key : Keys \cup {NULL}, obj : Objs \cup {NULL}, force : BOOLEAN]]
    BY <2>2
  <2>5. ret \in [Threads -> [key : Keys \cup {NULL}, base : Objs \cup {NULL},
                             len : Objs \cup {NULL}]]
    BY <2>3
  <2> QED BY <1>1, <2>1, <2>4, <2>5 DEF TypeOK
<1>4. Calls /\ Alone /\ Found /\ MissIsJustified
  BY DEF Calls, Alone, Found, MissIsJustified, NoCall, KeyCall
<1>5. LockDiscipline /\ ReadStable /\ Emptied
  BY <1>2, FS_EmptySet, HashMapAssumption DEF LockDiscipline, ReadStable, Emptied
<1>6. SizeIsLive /\ LiveSlotsOwn /\ KeyedSlots
  BY <1>1, FS_EmptySet, NothingYet DEF SizeIsLive, LiveSlotsOwn, KeyedSlots
<1>7. PairsOwned
  BY <1>1 DEF PairsOwned, Offers
<1> QED BY <1>3, <1>4, <1>5, <1>6, <1>7 DEF HInv

\* Every step keeps the invariant.
LEMMA HStep ==
  ASSUME HInv, [Next]_vars
  PROVE  HInv'
<1>1. CASE Next
  BY <1>1, TypeKept, CallsKept, LocksKept, SizeKept, SlotsOwnKept, PairsKept, KeyedKept,
     ReadKept, FoundKept, ClosedKept, MissKept DEF HInv
<1>2. CASE UNCHANGED vars
  <2> USE <1>2 DEF vars, map, locks, results, HInv
  <2>1. TypeOK' /\ Calls' /\ Alone' /\ Found' /\ MissIsJustified'
    BY DEF TypeOK, Calls, Alone, Found, MissIsJustified
  <2>2. LockDiscipline' /\ ReadStable' /\ Emptied'
    BY DEF LockDiscipline, ReadStable, Emptied, Readers, Inside, Writing
  <2>3. SizeIsLive' /\ LiveSlotsOwn' /\ KeyedSlots' /\ PairsOwned'
    BY DEF SizeIsLive, LiveSlotsOwn, KeyedSlots, PairsOwned, Offers
  <2> QED BY <2>1, <2>2, <2>3
<1> QED BY <1>1, <1>2

\* The invariant holds throughout, for every number of threads, table size and
\* hash function.
THEOREM MapInvariant == Spec => []HInv
<1>1. Init => HInv
  BY HInitially
<1>2. HInv /\ [Next]_vars => HInv'
  BY HStep
<1> QED BY <1>1, <1>2, PTL DEF Spec

\* The two mutexes and num_readers of get (hashmap.c 75-95) make a readers-writer
\* lock, whichever thread gives it back.
THEOREM ReadersWriterLock == Spec => []LockDiscipline
<1>1. HInv => LockDiscipline
  BY DEF HInv
<1> QED BY <1>1, MapInvariant, PTL

\* size is the number of live slots, so that put's probe below capacity ends at
\* a vacant one (hashmap.c 40, 54-58).
THEOREM SizeCountsSlots == Spec => []SizeIsLive
<1>1. HInv => SizeIsLive
  BY DEF HInv
<1> QED BY <1>1, MapInvariant, PTL

\* No live slot points to a destroyed pair or to another slot's (hashmap.c 47, 60,
\* 161): destroy_function never gets a pair twice.
THEOREM SlotsOwnTheirPairs == Spec => []LiveSlotsOwn
<1>1. HInv => LiveSlotsOwn
  BY DEF HInv
<1> QED BY <1>1, MapInvariant, PTL

\* What get found under the lock still holds when it leaves (hashmap.c 98-117).
THEOREM FoundUnderLock == Spec => []ReadStable
<1>1. HInv => ReadStable
  BY DEF HInv
<1> QED BY <1>1, MapInvariant, PTL

\* A call that finds nothing is right about some moment of the call, although get
\* reads size outside the writers' lock (hashmap.c 86, 122).
THEOREM MissesAreTrue == Spec => []MissIsJustified
<1>1. HInv => MissIsJustified
  BY DEF HInv
<1> QED BY <1>1, MapInvariant, PTL

LEMMA PutStores ==
  ASSUME HInv, Next, NEW u \in Threads, call[u].op = "put", ok'[u], ~ok[u]
  PROVE  call[u].obj \in Entries(nodes')
<1> USE DEF HInv
<1>1. PICK t \in Threads :
        /\ Acts(t) /\ OnlyMoved(t)
        /\ \/ UNCHANGED ok
           \/ Step(t)
  <2>1. \A t \in Threads : Return(t) => Step(t)
    BY DEF Step
  <2> QED BY OneActs, <2>1 DEF Called
<1>2. u = t /\ Step(t)
  BY <1>1 DEF OnlyMoved
<1>3. PutVacant(t) \/ PutFull(t)
  BY <1>2 DEF Step, WriteLock, Refuse, Delete, Clear, Invalidate, Finish, LoadNode, GetRefused,
       GetEnter, GetFirst, Scan, GetLeave, LoadBase, LoadLen, Return, results, TypeOK
<1>4. PutFull(t) => call[t].force
  BY <1>2 DEF PutFull, Answer, TypeOK
<1>5. \E v : Stores(t, v) /\ call[t].obj \in Objs
  BY <1>3, <1>4, PutVacantStores, PutFullStores
<1> QED BY <1>2, <1>5, StoreCounted

\* put answers true only for a pair it has stored, although all it looks at is
\* the thread's errno (hashmap.c 64).
THEOREM PutTellsTheTruth == Spec => PutTruthful
<1>1. HInv /\ [Next]_vars =>
        [\A t \in Threads : call[t].op = "put" /\ ok'[t] => ok[t] \/ call[t].obj \in Entries(nodes')]_vars
  BY PutStores
<1> QED BY <1>1, MapInvariant, PTL DEF Spec, PutTruthful

-----------------------------------------------------------------------------
(* The map implements the bounded collection of pairs.                     *)

LEMMA EntriesCounted ==
  ASSUME HInv
  PROVE  Cardinality(Entries(nodes)) = size
<1> DEFINE f == [i \in Live(nodes) |-> nodes[i].base]
<1>1. f \in [Live(nodes) -> Entries(nodes)] /\ \A e \in Entries(nodes) : \E i \in Live(nodes) : f[i] = e
  BY DEF Entries
<1>2. \A i, j \in Live(nodes) : f[i] = f[j] => i = j
  BY DEF HInv, LiveSlotsOwn
<1>3. f \in Surjection(Live(nodes), Entries(nodes)) /\ f \in Injection(Live(nodes), Entries(nodes))
  BY <1>1, <1>2 DEF Surjection, Injection, IsInjective
<1>4. Cardinality(Entries(nodes)) = Cardinality(Live(nodes))
  BY <1>3, LiveCounted, FS_Surjection
<1> QED BY <1>4 DEF HInv, SizeIsLive

LEMMA OthersPairs ==
  ASSUME HInv, NEW i \in Live(nodes)
  PROVE  /\ nodes[i].base \in Entries(nodes)
         /\ EntriesBut(nodes, i) = Entries(nodes) \ {nodes[i].base}
BY DEF Entries, EntriesBut, HInv, LiveSlotsOwn

\* Who holds a pair that put has not yet dealt with.
LEMMA OfferedBy ==
  /\ \A o : o \in Offered <=> \E u \in Threads : Offers(u) /\ call[u].obj = o
  /\ \A o : o \in Offered' <=> \E u \in Threads : Offers(u)' /\ call'[u].obj = o
BY DEF Offered

\* A put that leaves its critical section has decided what becomes of its pair.
LEMMA PairDecided ==
  ASSUME HInv, NEW t \in Threads, OnlyMoved(t), Leaves(t, "ret"), Offers(t)
  PROVE  call[t].obj \in Offered /\ Offered' = Offered \ {call[t].obj}
<1>1. /\ \A u \in Threads \ {t} : Offers(u)' <=> Offers(u)
      /\ ~Offers(t)' /\ call' = call
  BY DEF OnlyMoved, Leaves, Offers
<1>2. \A u \in Threads : Offers(u) /\ call[u].obj = call[t].obj => u = t
  BY DEF HInv, PairsOwned
<1> QED BY <1>1, <1>2, OfferedBy

LEMMA NothingOffered ==
  ASSUME NEW t \in Threads, OnlyMoved(t), Offers(t)' <=> Offers(t),
         Offers(t) => call'[t].obj = call[t].obj
  PROVE  Offered' = Offered
<1>1. \A u \in Threads : /\ Offers(u)' <=> Offers(u)
                         /\ Offers(u) => call'[u].obj = call[u].obj
  BY DEF OnlyMoved, Offers
<1> QED BY <1>1, OfferedBy

\* MultiMap's Cardinality is that of FiniteSets.
LEMMA SameCardinality ==
  ASSUME NEW S
  PROVE  Abstract!Cardinality(S) = Cardinality(S)
BY Zenon DEF Abstract!Cardinality, Cardinality

LEMMA StepImplements ==
  ASSUME HInv, Next
  PROVE  [Abstract!MapNext]_(Abstract!mapVars)
<1> USE DEF HInv
<1>1. PICK t \in Threads :
        /\ OnlyMoved(t)
        /\ \/ Called(t)
           \/ Step(t) /\ used' = used /\ Moved(t)
           \/ used' = used /\ call'[t] = NoCall /\ pc[t] = "ret" /\ pc'[t] = "idle" /\ UNCHANGED map
           \/ UNCHANGED <<map, pc, call, used>>
  BY OneActs
<1> DEFINE o == call[t].obj
           Stutters == UNCHANGED <<Entries(nodes), destroyed, Offered, used, invalid>>
<1>2. Stutters => UNCHANGED Abstract!mapVars
  BY DEF Abstract!mapVars
<1>3. CASE Called(t)
  <2>1. UNCHANGED <<Entries(nodes), destroyed, invalid>>
    BY <1>3 DEF Called, map
  <2>2. CASE call'[t].op = "put"
    <3>1. call'[t].obj \in Objs \ used /\ used' = used \cup {call'[t].obj}
      BY <1>3, <2>2 DEF Called
    <3>2. ~Offers(t) /\ Offers(t)'
      BY <1>3, <2>2 DEF Called, Offers
    <3>3. \A u \in Threads \ {t} : (Offers(u)' <=> Offers(u)) /\ call'[u] = call[u]
      BY <1>1 DEF OnlyMoved, Offers
    <3>4. Offered' = Offered \cup {call'[t].obj}
      BY <3>2, <3>3, OfferedBy
    <3>5. Abstract!Offer(call'[t].obj)
      BY <2>1, <3>1, <3>4 DEF Abstract!Offer
    <3> QED BY <3>1, <3>5 DEF Abstract!MapNext
  <2>3. CASE call'[t].op # "put"
    <3>1. used' = used /\ ~Offers(t) /\ ~Offers(t)'
      BY <1>3, <2>3 DEF Called, Offers
    <3> QED BY <1>1, <1>2, <2>1, <3>1, NothingOffered
  <2> QED BY <2>2, <2>3
<1>4. CASE used' = used /\ call'[t] = NoCall /\ pc[t] = "ret" /\ pc'[t] = "idle" /\ UNCHANGED map
  <2>1. ~Offers(t) /\ ~Offers(t)'
    BY <1>4 DEF Offers
  <2> QED BY <1>1, <1>2, <1>4, <2>1, NothingOffered DEF map
<1>5. CASE UNCHANGED <<map, pc, call, used>>
  BY <1>2, <1>5 DEF map, Offered, Offers
<1>6. CASE Step(t) /\ used' = used /\ Moved(t)
  <2>1. TableStep(t)
    BY <1>6, TableSteps
  <2>2. CASE StoreStep(t)
    <3>1. PICK v \in Slots : Stores(t, v) /\ (v \in Vacant(nodes) \/ Live(nodes) = Slots)
      BY <2>2 DEF StoreStep, Stores
    <3>2. o \in Objs /\ Entries(nodes') = EntriesBut(nodes, v) \cup {o}
      BY <2>2, <3>1, StoreCounted DEF StoreStep
    <3>3. Abstract!Decided(o) /\ ~invalid
      BY <1>1, <2>2, <3>1, PairDecided DEF StoreStep, Leaves, Stores, Abstract!Decided
    <3>4. CASE v \in Vacant(nodes)
      <4>1. EntriesBut(nodes, v) = Entries(nodes)
        BY <3>4 DEF EntriesBut, Entries, Live
      <4>2. Cardinality(Entries(nodes)) < Capacity
        BY <3>4, EntriesCounted, LiveCounted, HashTableAssumption DEF SizeIsLive
      <4>3. {} \in SUBSET {e \in Entries(nodes) : KeyOf[e] = KeyOf[o]}
            /\ Entries(nodes') = (Entries(nodes) \ {}) \cup {o}
        BY <3>2, <4>1
      <4>4. Abstract!Add(o)
        BY <3>3, <4>2, <4>3, SameCardinality DEF Abstract!Add
      <4> QED BY <3>2, <4>4 DEF Abstract!MapNext
    <3>5. CASE Live(nodes) = Slots
      <4>1. /\ nodes[v].base \in Entries(nodes)
            /\ EntriesBut(nodes, v) = Entries(nodes) \ {nodes[v].base}
        BY <3>5, OthersPairs
      <4>2. nodes[v].base \in Objs
        BY <4>1, EntriesArePairs DEF TypeOK
      <4>3. Cardinality(Entries(nodes)) = Capacity
        BY <3>5, EntriesCounted, LiveCounted DEF SizeIsLive
      <4>4. Abstract!Replace(o, nodes[v].base)
        BY <3>2, <3>3, <4>1, <4>3, SameCardinality DEF Abstract!Replace
      <4> QED BY <3>2, <4>2, <4>4 DEF Abstract!MapNext
    <3> QED BY <3>1, <3>4, <3>5
  <2>3. CASE BuryStep(t)
    <3>1. PICK i \in Slots : Buries(t, i)
      BY <2>3 DEF BuryStep
    <3>2. i \in Live(nodes) /\ nodes[i].key = call[t].key /\ call[t].key \in Keys
          /\ Entries(nodes') = EntriesBut(nodes, i) /\ ~invalid /\ UNCHANGED <<invalid, destroyed>>
      BY <2>3, <3>1, BuryCounted DEF BuryStep, Buries
    <3>3. KeyOf[nodes[i].base] = call[t].key
      BY <3>2 DEF LiveSlotsOwn
    <3>4. Offered' = Offered
      BY <1>1, <2>3, NothingOffered DEF BuryStep, Leaves, Offers
    <3>5. Abstract!Remove(call[t].key)
      BY <1>6, <3>2, <3>3, <3>4, OthersPairs DEF Abstract!Remove
    <3> QED BY <3>2, <3>5 DEF Abstract!MapNext
  <2>4. CASE WipeStep(t)
    <3>1. Offered' = Offered
      BY <1>1, <2>4, NothingOffered DEF WipeStep, Leaves, Offers
    <3>2. ~invalid /\ Entries(nodes') = {} /\ destroyed' = destroyed \cup Entries(nodes)
          /\ invalid' \in BOOLEAN
      BY <2>4 DEF WipeStep, TypeOK
    <3>3. Abstract!DestroyAll
      BY <1>6, <3>1, <3>2 DEF Abstract!DestroyAll
    <3> QED BY <3>3 DEF Abstract!MapNext
  <2>5. CASE UNCHANGED map
    <3>1. UNCHANGED <<Entries(nodes), destroyed, used, invalid>>
      BY <1>6, <2>5 DEF map
    <3>2. CASE Offers(t) /\ ~Offers(t)'
      <4>1. pc[t] = "write" /\ pc'[t] = "ret" /\ call[t].op = "put" /\ call' = call
        BY <1>6, <3>2 DEF Moved, Offers
      <4>2. Abstract!Decided(o) /\ o \in Objs
        BY <1>1, <1>6, <3>1, <3>2, <4>1, PairDecided DEF Leaves, Abstract!Decided, Calls
      <4>3. invalid \/ Cardinality(Entries(nodes)) = Capacity
        <5>1. PutVacant(t) \/ PutFull(t) \/ Refuse(t)
          BY <1>6, <4>1 DEF Step, WriteLock, Delete, Clear, Invalidate, Finish, LoadNode,
               GetRefused, GetEnter, GetFirst, Scan, GetLeave, LoadBase, LoadLen, Return, Goto, TypeOK
        <5>2. ~PutVacant(t)
          <6> SUFFICES ASSUME PutVacant(t) PROVE FALSE
            OBVIOUS
          <6>1. PICK v \in Vacant(nodes) : Stores(t, v)
            BY PutVacantStores
          <6>2. v \in Live(nodes')
            BY <6>1, <4>2, StoreCounted
          <6>3. v \notin Live(nodes) /\ nodes' = nodes
            BY <2>5 DEF Live, map
          <6> QED BY <6>2, <6>3
        <5>3. PutFull(t) => size = Capacity
          BY DEF PutFull
        <5>4. Refuse(t) => invalid
          BY <4>1 DEF Refuse
        <5> QED BY <5>1, <5>2, <5>3, <5>4, EntriesCounted
      <4>4. Abstract!Refuse(o)
        BY <3>1, <4>2, <4>3, SameCardinality DEF Abstract!Refuse
      <4> QED BY <4>2, <4>4 DEF Abstract!MapNext
    <3>3. CASE Offers(t)' <=> Offers(t)
      BY <1>1, <1>2, <1>6, <3>1, <3>3, NothingOffered DEF Moved
    <3>4. ~Offers(t) => ~Offers(t)'
      BY <1>6 DEF Moved, Offers
    <3> QED BY <3>2, <3>3, <3>4
  <2> QED BY <2>1, <2>2, <2>3, <2>4, <2>5 DEF TableStep
<1> QED BY <1>1, <1>3, <1>4, <1>5, <1>6

\* The open-addressed table under its lock is MultiMap's bounded collection, in
\* which a put, a delete and a clear are single steps (hashmap.c 31-176).
THEOREM MapImplementsMultiMap == Spec => RefinesMultiMap
<1>1. Init => Abstract!MapInit
  BY NothingYet DEF Init, create_map, Abstract!MapInit, Offered, Offers
<1>2. HInv /\ [Next]_vars => [Abstract!MapNext]_(Abstract!mapVars)
  <2>1. UNCHANGED vars => UNCHANGED Abstract!mapVars
    BY DEF vars, map, Abstract!mapVars, Offered, Offers
  <2> QED BY <2>1, StepImplements
<1> QED BY <1>1, <1>2, MapInvariant, PTL DEF Spec, RefinesMultiMap, Abstract!MapSpec
=============================================================================
