------------------------------ MODULE HashMap -------------------------------
(***************************************************************************)
(* hw5/src/hashmap.c: the concurrent map.  Writers hold write_lock from    *)
(* WriteLock to the end of their critical section, one step each.  The     *)
(* first reader takes write_lock for all of them, holding fields_lock while *)
(* it waits; the last one, whichever thread it is, gives it back.  get and *)
(* delete read the node they found after they have let go of the lock.     *)
(***************************************************************************)
EXTENDS HashTable

CONSTANT Threads

ASSUME HashMapAssumption == IsFiniteSet(Threads) /\ NULL \notin Threads

VARIABLES nodes, size, num_readers, write_lock, fields_lock, invalid,
          pc, call, slot,  \* a call in progress and the slot it has found
          ret, ok, errno,  \* what it returns, and the thread's errno
          destroyed, used, \* the pairs destroyed, the pairs ever put
          absent           \* absent[t]: t's key was missing at some point of its call

map == <<nodes, size, invalid, destroyed>>
locks == <<num_readers, write_lock, fields_lock>>
results == <<ret, ok, errno>>
vars == <<map, locks, pc, call, slot, results, used, absent>>

KeyCall(op, key) == [op |-> op, key |-> key, obj |-> NULL, force |-> FALSE]
NoCall == KeyCall("none", NULL)
NoRet == [key |-> NULL, base |-> NULL, len |-> NULL]

create_map == /\ nodes = EmptyTable /\ size = 0 /\ invalid = FALSE
              /\ num_readers = 0 /\ write_lock = NULL /\ fields_lock = NULL

Init == /\ create_map
        /\ pc = [t \in Threads |-> "idle"]
        /\ call = [t \in Threads |-> NoCall]
        /\ slot = [t \in Threads |-> NoSlot]
        /\ ret = [t \in Threads |-> NoRet]
        /\ ok = [t \in Threads |-> FALSE]
        /\ errno = [t \in Threads |-> "0"]
        /\ destroyed = {} /\ used = {}
        /\ absent = [t \in Threads |-> FALSE]

Goto(t, a, b) == pc[t] = a /\ pc' = [pc EXCEPT ![t] = b]

-----------------------------------------------------------------------------
(* The calls.  invalidate_map runs alone, as in the tests, which call it   *)
(* after joining every thread, and in main, where it follows the accept    *)
(* loop: nothing in the map protects a reader from free(self->nodes).      *)

\* A call begins, and the locals it will return are fresh.
Start(t, c) == /\ \A u \in Threads : call[u].op # "invalidate"
               /\ call' = [call EXCEPT ![t] = c]
               /\ UNCHANGED <<map, locks, slot, results>>

CallPut(t, o, f) == /\ Goto(t, "idle", "lock")
                    /\ o \notin used
                    /\ Start(t, [op |-> "put", key |-> KeyOf[o], obj |-> o, force |-> f])
                    /\ used' = used \cup {o}

CallGet(t, k) == /\ Goto(t, "idle", "enter")
                 /\ Start(t, KeyCall("get", k))
                 /\ UNCHANGED used

CallDelete(t, k) == /\ Goto(t, "idle", "lock")
                    /\ Start(t, KeyCall("delete", k))
                    /\ UNCHANGED used

CallClear(t) == /\ Goto(t, "idle", "lock")
                /\ Start(t, KeyCall("clear", NULL))
                /\ UNCHANGED used

CallInvalidate(t) == /\ \A u \in Threads : pc[u] = "idle"
                     /\ Goto(t, "idle", "lock")
                     /\ Start(t, KeyCall("invalidate", NULL))
                     /\ UNCHANGED used

\* What cream's worker does between two requests.
ResetErrno(t) == /\ pc[t] = "idle"
                 /\ errno' = [errno EXCEPT ![t] = "0"]
                 /\ UNCHANGED <<map, locks, pc, call, slot, ret, ok, used>>

-----------------------------------------------------------------------------
(* The writers.                                                            *)

\* Mutant: the writer goes ahead without waiting for write_lock.
WriteLock_try(t) == /\ Goto(t, "lock", "write")
                    /\ write_lock' = t
                    /\ UNCHANGED <<map, num_readers, fields_lock, call, slot, results, used>>

WriteLock(t) == /\ Goto(t, "lock", "write")
                /\ write_lock = NULL
                /\ write_lock' = t
                /\ UNCHANGED <<map, num_readers, fields_lock, call, slot, results, used>>

\* The end of a critical section: the lock is released on every path.
Finish(t, op, next) == /\ call[t].op = op
                       /\ Goto(t, "write", next)
                       /\ write_lock' = NULL
                       /\ UNCHANGED <<num_readers, fields_lock, call, used>>

SetErrno(t, e) == errno' = [errno EXCEPT ![t] = e]

\* put answers errno == 0, whatever this thread's errno was before the call.
Answer(t, e) == errno' = [errno EXCEPT ![t] = e] /\ ok' = [ok EXCEPT ![t] = e = "0"]

\* Mutant: size is not counted up.
PutVacant_noSize(t) == /\ Finish(t, "put", "ret") /\ ~invalid /\ size # Capacity
                       /\ nodes' = Insert(nodes, call[t].obj)
                       /\ Answer(t, errno[t])
                       /\ UNCHANGED <<size, invalid, destroyed, slot, ret>>

PutVacant(t) == /\ Finish(t, "put", "ret") /\ ~invalid /\ size # Capacity
                /\ IF Vacant(nodes) = {}
                     THEN UNCHANGED <<nodes, size>>
                     ELSE nodes' = Insert(nodes, call[t].obj) /\ size' = size + 1
                /\ Answer(t, errno[t])
                /\ UNCHANGED <<invalid, destroyed, slot, ret>>

\* Mutant: a put refused for lack of room leaves errno alone.
PutFull_silent(t) == /\ Finish(t, "put", "ret") /\ ~invalid /\ size = Capacity
                     /\ nodes' = IF call[t].force THEN Overwrite(nodes, call[t].obj) ELSE nodes
                     /\ Answer(t, errno[t])
                     /\ UNCHANGED <<size, invalid, destroyed, slot, ret>>

PutFull(t) == /\ Finish(t, "put", "ret") /\ ~invalid /\ size = Capacity
              /\ IF call[t].force
                   THEN nodes' = Overwrite(nodes, call[t].obj) /\ Answer(t, errno[t])
                   ELSE UNCHANGED nodes /\ Answer(t, "ENOMEM")
              /\ UNCHANGED <<size, invalid, destroyed, slot, ret>>

\* put, delete, clear_map and invalidate_map on an invalid map, delete on an
\* empty one or one without the key: EINVAL.
Refuse(t) == /\ \E op \in {"put", "delete", "clear", "invalidate"} : Finish(t, op, "ret")
             /\ \/ invalid
                \/ call[t].op = "delete" /\ size = 0
                \/ call[t].op = "delete" /\ Matching(nodes, call[t].key) = {}
             /\ SetErrno(t, "EINVAL")
             /\ UNCHANGED <<map, slot, ret, ok>>

Delete(t) == /\ Finish(t, "delete", "load_node")
             /\ ~invalid /\ size # 0
             /\ LET i == First(call[t].key, Matching(nodes, call[t].key))
                IN  /\ i # NoSlot
                    /\ nodes' = Bury(nodes, i)
                    /\ slot' = [slot EXCEPT ![t] = i]
             /\ size' = size - 1
             /\ UNCHANGED <<invalid, destroyed, results>>

\* Mutant: the entries are destroyed and stay in the table.
Clear_keepsNodes(t) == /\ Finish(t, "clear", "ret") /\ ~invalid
                       /\ destroyed' = destroyed \cup Entries(nodes)
                       /\ size' = 0
                       /\ ok' = [ok EXCEPT ![t] = TRUE]
                       /\ UNCHANGED <<nodes, invalid, slot, ret, errno>>

Clear(t) == /\ Finish(t, "clear", "ret") /\ ~invalid
            /\ destroyed' = destroyed \cup Entries(nodes)
            /\ nodes' = Cleared(nodes)
            /\ size' = 0
            /\ ok' = [ok EXCEPT ![t] = TRUE]
            /\ UNCHANGED <<invalid, slot, ret, errno>>

\* free(self->nodes): what the table held is gone.
Invalidate(t) == /\ Finish(t, "invalidate", "ret") /\ ~invalid
                 /\ destroyed' = destroyed \cup IF size = 0 THEN {} ELSE Entries(nodes)
                 /\ nodes' = EmptyTable
                 /\ size' = 0
                 /\ invalid' = TRUE
                 /\ ok' = [ok EXCEPT ![t] = TRUE]
                 /\ UNCHANGED <<slot, ret, errno>>

\* delete copies the node after unlocking.
LoadNode(t) == /\ Goto(t, "load_node", "ret")
               /\ ret' = [ret EXCEPT ![t] = [key |-> nodes[slot[t]].key,
                                             base |-> nodes[slot[t]].base,
                                             len |-> nodes[slot[t]].len]]
               /\ UNCHANGED <<map, locks, call, slot, ok, errno, used>>

-----------------------------------------------------------------------------
(* get.                                                                    *)

\* Mutant: off by one, a map with one entry is taken for an empty one.
GetRefused_offByOne(t) == /\ Goto(t, "enter", "ret")
                          /\ fields_lock = NULL
                          /\ invalid \/ size <= 1
                          /\ SetErrno(t, "EINVAL")
                          /\ UNCHANGED <<map, locks, call, slot, ret, ok, used>>

\* size and invalid are read under fields_lock, which no writer takes.
GetRefused(t) == /\ Goto(t, "enter", "ret")
                 /\ fields_lock = NULL
                 /\ invalid \/ size = 0
                 /\ SetErrno(t, "EINVAL")
                 /\ UNCHANGED <<map, locks, call, slot, ret, ok, used>>

GetEnter(t) == /\ fields_lock = NULL
               /\ ~invalid /\ size # 0
               /\ num_readers' = num_readers + 1
               /\ IF num_readers' = 1
                    THEN Goto(t, "enter", "first") /\ fields_lock' = t
                    ELSE Goto(t, "enter", "scan") /\ UNCHANGED fields_lock
               /\ UNCHANGED <<map, write_lock, call, slot, results, used>>

GetFirst(t) == /\ Goto(t, "first", "scan")
               /\ write_lock = NULL
               /\ write_lock' = t
               /\ fields_lock' = NULL
               /\ UNCHANGED <<map, num_readers, call, slot, results, used>>

\* Mutant: the probe loop is not bounded by capacity.
Scan_unbounded(t) ==
  LET i == First(call[t].key, Matching(nodes, call[t].key))
  IN  /\ \/ Goto(t, "scan", "leave") /\ i # NoSlot /\ slot' = [slot EXCEPT ![t] = i]
         \/ pc[t] = "scan" /\ i = NoSlot /\ UNCHANGED <<pc, slot>>
      /\ UNCHANGED <<map, locks, call, results, used>>

\* Mutant: the probe loop stops at the first tombstone.
Scan_toTomb(t) ==
  LET M == Matching(nodes, call[t].key)
      i == First(call[t].key, M \cup {j \in Slots : nodes[j].tomb})
  IN  /\ Goto(t, "scan", "leave")
      /\ slot' = [slot EXCEPT ![t] = IF i \in M THEN i ELSE NoSlot]
      /\ UNCHANGED <<map, locks, call, results, used>>

Scan(t) == /\ Goto(t, "scan", "leave")
           /\ slot' = [slot EXCEPT ![t] = First(call[t].key, Matching(nodes, call[t].key))]
           /\ UNCHANGED <<map, locks, call, results, used>>

\* Mutant: the thread that took write_lock gives it back, readers or not.
GetLeave_byTaker(t) ==
  /\ fields_lock = NULL
  /\ num_readers' = num_readers - 1
  /\ write_lock' = IF write_lock = t THEN NULL ELSE write_lock
  /\ IF slot[t] = NoSlot THEN Goto(t, "leave", "ret") /\ SetErrno(t, "EINVAL")
                         ELSE Goto(t, "leave", "load") /\ UNCHANGED errno
  /\ UNCHANGED <<map, fields_lock, call, slot, ret, ok, used>>

GetLeave(t) ==
  /\ fields_lock = NULL
  /\ num_readers' = num_readers - 1
  /\ write_lock' = IF num_readers' = 0 THEN NULL ELSE write_lock
  /\ IF slot[t] = NoSlot THEN Goto(t, "leave", "ret") /\ SetErrno(t, "EINVAL")
                         ELSE Goto(t, "leave", "load") /\ UNCHANGED errno
  /\ UNCHANGED <<map, fields_lock, call, slot, ret, ok, used>>

\* return node->val: two loads, in either order, with no lock held.
LoadBase(t) == /\ Goto(t, "load", "load_len") \/ Goto(t, "load_base", "ret")
               /\ ret' = [ret EXCEPT ![t].base = nodes[slot[t]].base]
               /\ UNCHANGED <<map, locks, call, slot, ok, errno, used>>

LoadLen(t) == /\ Goto(t, "load", "load_base") \/ Goto(t, "load_len", "ret")
              /\ ret' = [ret EXCEPT ![t].len = nodes[slot[t]].len]
              /\ UNCHANGED <<map, locks, call, slot, ok, errno, used>>

Return(t) == /\ Goto(t, "ret", "idle")
             /\ call' = [call EXCEPT ![t] = NoCall]
             /\ slot' = [slot EXCEPT ![t] = NoSlot]
             /\ ret' = [ret EXCEPT ![t] = NoRet]
             /\ ok' = [ok EXCEPT ![t] = FALSE]
             /\ UNCHANGED <<map, locks, errno, used>>

-----------------------------------------------------------------------------
Call(t) == \/ \E o \in Objs, f \in BOOLEAN : CallPut(t, o, f)
           \/ \E k \in Keys : CallGet(t, k) \/ CallDelete(t, k)
           \/ CallClear(t) \/ CallInvalidate(t)

Step(t) == \/ WriteLock(t) \/ PutVacant(t) \/ PutFull(t) \/ Refuse(t)
           \/ Delete(t) \/ Clear(t) \/ Invalidate(t) \/ LoadNode(t)
           \/ GetRefused(t) \/ GetEnter(t) \/ GetFirst(t) \/ Scan(t)
           \/ GetLeave(t) \/ LoadBase(t) \/ LoadLen(t) \/ Return(t)

\* Ghost: whose key is missing now, or has been since the call began.
NoteAbsence == absent' = [t \in Threads |->
                            /\ pc'[t] # "idle"
                            /\ \/ pc[t] # "idle" /\ absent[t]
                               \/ Matching(nodes', call'[t].key) = {}]

Next == /\ \E t \in Threads : Call(t) \/ Step(t) \/ ResetErrno(t)
        /\ NoteAbsence

Spec == Init /\ [][Next]_vars
FairSpec == Spec /\ \A t \in Threads : WF_vars(Step(t) /\ NoteAbsence)

-----------------------------------------------------------------------------
(* The properties.                                                         *)

\* Every field holds a value of its C type; the counters never wrap.
TypeOK == /\ nodes \in [Slots -> Slot]
          /\ size \in 0..Capacity
          /\ num_readers \in Nat
          /\ write_lock \in Threads \cup {NULL} /\ fields_lock \in Threads \cup {NULL}
          /\ invalid \in BOOLEAN
          /\ pc \in [Threads -> {"idle", "lock", "write", "load_node", "enter", "first",
                                 "scan", "leave", "load", "load_base", "load_len", "ret"}]
          /\ call \in [Threads -> [op : {"none", "put", "get", "delete", "clear", "invalidate"},
                                   key : Keys \cup {NULL}, obj : Objs \cup {NULL},
                                   force : BOOLEAN]]
          /\ slot \in [Threads -> Slots \cup {NoSlot}]
          /\ ret \in [Threads -> [key : Keys \cup {NULL}, base : Objs \cup {NULL},
                                  len : Objs \cup {NULL}]]
          /\ ok \in [Threads -> BOOLEAN]
          /\ errno \in [Threads -> {"0", "EINVAL", "ENOMEM"}]
          /\ destroyed \subseteq Objs /\ used \subseteq Objs
          /\ absent \in [Threads -> BOOLEAN]

Readers == {t \in Threads : pc[t] \in {"first", "scan", "leave"}}
Inside == {t \in Threads : pc[t] \in {"scan", "leave"}}
Writing == {t \in Threads : pc[t] = "write"}

\* The two mutexes and num_readers make a readers-writer lock: the count is
\* exact, one writer writes while nobody reads, and write_lock is free exactly
\* when nobody is inside, although its last owner may not be the thread that
\* took it (hashmap.c 75-95).
LockDiscipline ==
  /\ num_readers = Cardinality(Readers)
  /\ \A t \in Threads : fields_lock = t <=> pc[t] = "first"
  /\ \A t \in Writing : write_lock = t /\ Writing = {t} /\ Inside = {}
  /\ write_lock = NULL <=> Writing = {} /\ Inside = {}

\* What a reader has found under the lock, a slot with its key or none, is still
\* true when it leaves, and nobody scans an array invalidate_map has freed.
ReadStable ==
  /\ Inside # {} => ~invalid
  /\ \A t \in Threads : pc[t] = "leave" =>
       slot[t] = First(call[t].key, Matching(nodes, call[t].key))

\* size counts the live slots, so a put below capacity always finds a vacant slot
\* and a full map has no tombstone left (hashmap.c 40, 54-58, 131, 161).
SizeIsLive == size = Cardinality(Live(nodes))

\* No live slot points to a pair that destroy_function has freed or that another
\* slot holds, and its length and key are those of its pair.
LiveSlotsOwn ==
  \A i \in Live(nodes) :
    /\ nodes[i].base \notin destroyed
    /\ nodes[i].len = nodes[i].base /\ nodes[i].key = KeyOf[nodes[i].base]
    /\ \A j \in Live(nodes) : nodes[j].base = nodes[i].base => i = j

\* put answers true only for a pair it has stored, even though all it looks at is
\* errno (hashmap.c 64).
PutTruthful ==
  [][\A t \in Threads : call[t].op = "put" /\ ok'[t] => ok[t] \/ call[t].obj \in Entries(nodes')]_vars

\* A get or a delete that finds nothing is right about some moment of its call,
\* although it reads size without the writers' lock (hashmap.c 86 and 122).
MissIsJustified ==
  \A t \in Threads : pc[t] = "ret" /\ call[t].op \in {"get", "delete"} /\ ret[t].base = NULL
                      => absent[t]

\* The table as MultiMap sees it; a put holds its pair until it has decided.
Offers(t) == call[t].op = "put" /\ pc[t] \in {"lock", "write"}
Offered == {call[t].obj : t \in {u \in Threads : Offers(u)}}
Abstract == INSTANCE MultiMap WITH entries <- Entries(nodes), closed <- invalid, offered <- Offered

\* The table implements the bounded collection of pairs: nothing is stored twice,
\* a put costs a pair of another key only in a full map, a delete removes one
\* pair of its key, what leaves by clear_map or invalidate_map is destroyed, once.
\* Whether a put takes out the older pairs of its own key is left open: hashmap.h
\* 59 says it does, hashmap.c 51-61 keeps them.
RefinesMultiMap == Abstract!MapSpec

\* When callers stop making new calls every call in progress returns: no order of
\* the two mutexes leaves a thread waiting for ever.
NewCall == \E t \in Threads : pc[t] = "idle" /\ pc'[t] # "idle"
AllReturn == <>[][~NewCall]_vars => \A t \in Threads : []<>(pc[t] = "idle")

\* hashmap.h 77: get returns "the corresponding value".
GetReturnsItsKey == \A t \in Threads : pc[t] = "ret" /\ call[t].op = "get" /\ ret[t].base # NULL
                                         => KeyOf[ret[t].base] = call[t].key /\ ret[t].len = ret[t].base
=============================================================================
