-------------------------------- MODULE Sfmm --------------------------------
(***************************************************************************)
(* The memory allocator of hw3/src/sfmm.c: blocks with a header and a      *)
(* footer, four segregated free lists, and a heap that sf_sbrk extends     *)
(* page by page.                                                           *)
(*                                                                         *)
(* A ROW is the 16 bytes of a header and a footer (MIN_PAYLOAD_BYTES).     *)
(* Blocks begin and end on rows, so an address is a row counted from the   *)
(* heap's start and stands for the header there and for the pointer eight  *)
(* bytes further that clients hold.  Block sizes are in rows, as in the    *)
(* block_size field; requests are in bytes.  What clients write into their *)
(* blocks is left out, and so is a link that overlies an old header: both  *)
(* are read only after a tail has been cut (see cut).                      *)
(***************************************************************************)
EXTENDS Integers, FiniteSets

CONSTANTS
    PAGE_SZ,   \* bytes of a page
    MaxPages,  \* the 4 of extendHeap, sf_malloc and sf_sbrk
    ListMax,   \* LIST_1_MAX, LIST_2_MAX, LIST_3_MAX
    Vars,      \* the pointer variables of the client
    Requests,  \* the sizes the client asks for, in bytes
    NULL

ROW == 16
PageRows == PAGE_SZ \div ROW
Lists == 1..4

ASSUME SizesAssumption ==
    /\ PAGE_SZ \in Nat /\ PAGE_SZ % ROW = 0 /\ PAGE_SZ >= 2 * ROW
    /\ MaxPages \in Nat \ {0}
    /\ ListMax \in [1..3 -> Nat] /\ ListMax[1] < ListMax[2] /\ ListMax[2] < ListMax[3]
    /\ Requests \subseteq Nat
    /\ NULL \notin Nat

(* Enough rows for what a failing sf_sbrk lets the code write past the heap. *)
Rows == 0..((2 * MaxPages + 1) * PageRows)

(* m is the allocator's memory and globals: the tags hdr and ftr, the links *)
(* next and prev, the list heads, sf_errno, sbrk_counter and the break;     *)
(* run says how the process is.  Two fields are history: cut, a list has    *)
(* lost its last node and still points at it, and over, a block was made    *)
(* of pages that sf_sbrk did not give.  held is what each variable of the   *)
(* client holds: a pointer and the size asked for.                          *)
VARIABLES m, held

vars == <<m, held>>

Zero == [alloc |-> FALSE, padded |-> FALSE, size |-> 0]
Blank == [alloc |-> FALSE, padded |-> FALSE, size |-> 0, req |-> 0]
Nothing == [ptr |-> NULL, size |-> 0]

(* sf_mem_init reserves MaxPages pages of fresh memory; the word after them *)
(* is libc's and reads as an allocated header.                              *)
sf_mem_init ==
    [hdr  |-> [r \in Rows |-> [Zero EXCEPT !.alloc = (r = MaxPages * PageRows)]],
     ftr  |-> [r \in Rows |-> Blank],
     next |-> [r \in Rows |-> NULL],
     prev |-> [r \in Rows |-> NULL],
     head |-> [i \in Lists |-> NULL],
     errno |-> "0", counter |-> 0, brk |-> 0,
     run |-> "running", cut |-> FALSE, over |-> FALSE]

Init ==
    /\ m = sf_mem_init
    /\ held = [v \in Vars |-> Nothing]

-----------------------------------------------------------------------------
(* Tags and addresses. *)

Stop(h, why) == [h EXCEPT !.run = IF @ = "running" THEN why ELSE @]

getListNum(rows) ==
    CHOOSE i \in Lists : /\ i < 4 => rows * ROW <= ListMax[i]
                         /\ \A j \in 1..(i - 1) : rows * ROW > ListMax[j]

(* A name with an underscore and a fault (PayloadRows_floor, Unlink_keepsPrev, *)
(* ...) is a faulty variant of the definition after it, which a property     *)
(* must reject.                                                              *)
PayloadRows_floor(size) == size \div ROW

(* The rows that hold size bytes of payload, and the bytes of a payload    *)
(* that fills a block.                                                     *)
PayloadRows(size) == 1 + (size - 1) \div ROW

Whole(rows) == (rows - 1) * ROW

place_roundedRequest(h, a, rows, req, alloc) ==
    LET tag == [alloc |-> alloc, padded |-> Whole(rows) # req, size |-> rows]
    IN  [h EXCEPT !.hdr[a] = tag,
                  !.ftr[a + rows - 1] = [alloc |-> alloc, padded |-> tag.padded,
                                         size |-> rows, req |-> Whole(rows)]]

(* Both tags of the block of that many rows at a, for a request of req     *)
(* bytes.  Through a NULL pointer the process dies.                        *)
place(h, a, rows, req, alloc) ==
    LET tag == [alloc |-> alloc, padded |-> Whole(rows) # req, size |-> rows]
    IN  IF a = NULL THEN Stop(h, "crashed")
        ELSE [h EXCEPT !.hdr[a] = tag,
                       !.ftr[a + rows - 1] = [alloc |-> alloc, padded |-> tag.padded,
                                              size |-> rows, req |-> req]]

(* A block that ends where the heap does is given a neighbour all the same. *)
getNextBP(h, a) ==
    IF a + h.hdr[a].size > h.brk THEN NULL ELSE a + h.hdr[a].size

getPrevBP(h, a) == IF a = 0 THEN NULL ELSE a - h.ftr[a - 1].size

Outside(h, a) == a = NULL \/ a >= h.brk

(* sf_free and sf_realloc refuse a block whose tags do not look allocated. *)
Rejects(h, a) ==
    LET f == h.ftr[a + h.hdr[a].size - 1]
    IN  ~h.hdr[a].alloc \/ h.hdr[a].padded # (Whole(h.hdr[a].size) # f.req)

-----------------------------------------------------------------------------
(* The free lists. *)

Steps == 0..(MaxPages * PageRows)

(* The k-th node of list i, counting from 0, and NULL after the last. *)
Walk(h, i) ==
    LET after == [r \in Rows \cup {NULL} |-> IF r = NULL THEN NULL ELSE h.next[r]]
        node[k \in Steps] == IF k = 0 THEN h.head[i] ELSE after[node[k - 1]]
    IN  node

Nodes(h, i) == {Walk(h, i)[k] : k \in Steps} \ {NULL}
Endless(h, i) == Walk(h, i)[MaxPages * PageRows] # NULL

putFits(h, a) ==
    LET i == getListNum(h.hdr[a].size)
        old == h.head[i]
        linked == IF old = NULL THEN h ELSE [h EXCEPT !.prev[old] = a]
    IN  IF Outside(h, a) THEN [h EXCEPT !.errno = "ENOMEM"]
        ELSE [linked EXCEPT !.next[a] = old, !.head[i] = a, !.prev[a] = NULL]

Unlink_keepsPrev(h, a, i) ==
    LET n == h.next[a]
        p == h.prev[a]
    IN  CASE p = NULL -> [h EXCEPT !.head[i] = n, !.next[a] = NULL]
          [] p # NULL /\ n # NULL -> [h EXCEPT !.next[p] = n, !.prev[n] = p]
          [] p # NULL /\ n = NULL -> [h EXCEPT !.cut = TRUE]

(* The last node of a longer list leaves it pointing at itself still. *)
Unlink(h, a, i) ==
    LET n == h.next[a]
        p == h.prev[a]
        alone == [h EXCEPT !.next[a] = NULL, !.prev[a] = NULL]
    IN  CASE p = NULL /\ n = NULL -> [h EXCEPT !.head[i] = NULL]
          [] p = NULL /\ n # NULL -> [alone EXCEPT !.head[i] = n, !.prev[n] = NULL]
          [] p # NULL /\ n # NULL -> [alone EXCEPT !.next[p] = n, !.prev[n] = p]
          [] p # NULL /\ n = NULL -> [alone EXCEPT !.cut = TRUE]

delBlkInList(h, a) ==
    LET i == getListNum(h.hdr[a].size)
    IN  CASE Outside(h, a) -> [h EXCEPT !.errno = "ENOMEM"]
          [] ~Outside(h, a) /\ a \in Nodes(h, i) -> Unlink(h, a, i)
          [] ~Outside(h, a) /\ a \notin Nodes(h, i) ->
                IF Endless(h, i) THEN Stop(h, "hung") ELSE [h EXCEPT !.errno = "ENOMEM"]

(* Where in the lists, from the list of that size up, the blocks of at     *)
(* least that many rows are.                                               *)
FitsFrom(h, rows, i) ==
    {f \in Lists \X Steps :
        /\ f[1] >= i
        /\ LET a == Walk(h, f[1])[f[2]] IN a # NULL /\ h.hdr[a].size >= rows}

Fits_oneList(h, rows) ==
    {f \in FitsFrom(h, rows, getListNum(rows)) : f[1] = getListNum(rows)}

Fits(h, rows) == FitsFrom(h, rows, getListNum(rows))

(* The first of them; a list that goes round before it is never left.      *)
findFits(h, rows) ==
    LET first == CHOOSE f \in Fits(h, rows) :
                    \A g \in Fits(h, rows) :
                        f[1] < g[1] \/ (f[1] = g[1] /\ f[2] <= g[2])
    IN  IF Fits(h, rows) = {} THEN NULL ELSE Walk(h, first[1])[first[2]]

Loops(h, rows) ==
    \E i \in Lists : /\ i >= getListNum(rows) /\ Endless(h, i)
                     /\ \A f \in Fits(h, rows) : f[1] > i

-----------------------------------------------------------------------------
(* Growing, splitting and merging blocks. *)

(* The first block takes the rows of both, tagged free. *)
coalesce(h, a, b) ==
    LET rows == h.hdr[a].size + h.hdr[b].size
    IN  place(h, a, rows, Whole(rows), FALSE)

Pages(size) ==
    IF size + ROW > PAGE_SZ THEN (size + ROW) \div PAGE_SZ + 1 ELSE 1

(* As many calls of sf_sbrk as the block has pages, none of them checked.  *)
sf_sbrk(h, n) ==
    [h EXCEPT !.counter = @ + n,
              !.brk = IF @ + n * PageRows > MaxPages * PageRows
                      THEN MaxPages * PageRows ELSE @ + n * PageRows,
              !.errno = IF h.counter + n > MaxPages THEN "ENOMEM" ELSE @,
              !.over = @ \/ h.counter + n > MaxPages]

extendHeap_relists(h, size) ==
    LET a == h.brk
        rows == Pages(size) * PageRows
        grown == place(sf_sbrk(h, Pages(size)), a, rows, Whole(rows), FALSE)
        p == getPrevBP(grown, a)
    IN  IF h.counter >= MaxPages THEN [mem |-> [h EXCEPT !.errno = "ENOMEM"], bp |-> NULL]
        ELSE IF p # NULL /\ ~grown.hdr[p].alloc THEN [mem |-> coalesce(grown, p, a), bp |-> p]
        ELSE [mem |-> grown, bp |-> a]

(* The memory after the heap has grown, and the free block at its end: it  *)
(* absorbs a free block before it, and is in no list.                      *)
extendHeap(h, size) ==
    LET a == h.brk
        rows == Pages(size) * PageRows
        grown == place(sf_sbrk(h, Pages(size)), a, rows, Whole(rows), FALSE)
        p == getPrevBP(grown, a)
    IN  CASE h.counter = MaxPages -> [mem |-> [h EXCEPT !.errno = "ENOMEM"], bp |-> NULL]
          [] h.counter > MaxPages -> [mem |-> Stop(h, "crashed"), bp |-> NULL]
          [] h.counter < MaxPages ->
                IF p # NULL /\ ~grown.hdr[p].alloc
                THEN [mem |-> coalesce(delBlkInList(grown, p), p, a), bp |-> p]
                ELSE [mem |-> grown, bp |-> a]

splitBlock(h, a, rows) ==
    LET b == getNextBP(h, a)
        rest == rows - h.hdr[a].size
        placed == place(h, b, rest, Whole(rest), FALSE)
    IN  IF b = NULL THEN placed ELSE putFits(placed, b)

-----------------------------------------------------------------------------
(* The three calls, from a memory to the memory and the pointer returned.  *)

Give_splitsTight(h, a, size) ==
    LET rows == h.hdr[a].size
        need == PayloadRows(size) + 1
    IN  IF rows > need
        THEN splitBlock(place(h, a, need, size, TRUE), a, rows)
        ELSE place(h, a, rows, size, TRUE)

Give(h, a, size) ==
    LET rows == h.hdr[a].size
        need == PayloadRows(size) + 1
    IN  IF rows > need + 1
        THEN splitBlock(place(h, a, need, size, TRUE), a, rows)
        ELSE place(h, a, rows, size, TRUE)

sf_malloc(h, size) ==
    LET fit == findFits(h, PayloadRows(size) + 1)
        got == IF fit = NULL THEN extendHeap(h, size)
               ELSE [mem |-> delBlkInList(h, fit), bp |-> fit]
    IN  CASE size = 0 ->
                [mem |-> Stop([h EXCEPT !.errno = "EINVAL"], "aborted"), bp |-> NULL]
          [] size # 0 /\ PayloadRows(size) >= MaxPages * PageRows ->
                [mem |-> [h EXCEPT !.errno = "ENOMEM"], bp |-> NULL]
          [] size # 0 /\ PayloadRows(size) < MaxPages * PageRows ->
                IF Loops(h, PayloadRows(size) + 1)
                THEN [mem |-> Stop(h, "hung"), bp |-> NULL]
                ELSE IF got.bp = NULL THEN got
                ELSE [mem |-> Give(got.mem, got.bp, size), bp |-> got.bp]

(* An sf_errno that an earlier call has left is as fatal as a bad pointer. *)
sf_free(h, a) ==
    LET seen == IF Rejects(h, a) THEN [h EXCEPT !.errno = "EINVAL"] ELSE h
        rows == h.hdr[a].size
        freed == [h EXCEPT !.hdr[a].alloc = FALSE, !.ftr[a + rows - 1].alloc = FALSE]
        b == getNextBP(freed, a)
        merged == IF b # NULL /\ ~freed.hdr[b].alloc
                  THEN coalesce(delBlkInList(freed, b), a, b) ELSE freed
    IN  IF seen.errno # "0" THEN Stop(seen, "aborted") ELSE putFits(merged, a)

Shrink(h, a, size) ==
    LET rows == h.hdr[a].size
        need == PayloadRows(size) + 1
        kept == place(h, a, need, size, TRUE)
        b == getNextBP(kept, a)
        placed == place(kept, b, rows - need, Whole(rows - need), TRUE)
    IN  IF rows - need <= 1 THEN place(h, a, rows, size, TRUE)
        ELSE IF b = NULL THEN placed ELSE sf_free(placed, b)

sf_realloc(h, a, size) ==
    LET seen == IF Rejects(h, a) THEN [h EXCEPT !.errno = "EINVAL"] ELSE h
        req == h.ftr[a + h.hdr[a].size - 1].req
        new == sf_malloc(h, size)
    IN  CASE size = 0 -> [mem |-> sf_free(h, a), bp |-> NULL]
          [] size # 0 /\ seen.errno # "0" -> [mem |-> Stop(seen, "aborted"), bp |-> NULL]
          [] size # 0 /\ seen.errno = "0" /\ size = req -> [mem |-> h, bp |-> a]
          [] size # 0 /\ seen.errno = "0" /\ size > req ->
                [mem |-> sf_free(new.mem, a), bp |-> new.bp]
          [] OTHER -> [mem |-> Shrink(h, a, size), bp |-> a]

-----------------------------------------------------------------------------
(* The client: a single thread with a few pointers. *)

(* Rows at which a header, a footer or a link may still be read: the blocks *)
(* in the heap's order, the nodes of the lists, the pointers held.          *)
Blocks(h) ==
    LET after == [r \in Rows |-> IF r < h.brk THEN r + h.hdr[r].size ELSE r]
        at[k \in Steps] == IF k = 0 THEN 0 ELSE after[at[k - 1]]
    IN  {at[k] : k \in Steps} \cap 0..(h.brk - 1)

Listed(h) == UNION {Nodes(h, i) : i \in Lists}

(* The words nothing leads to are forgotten, as no call can tell them.     *)
Forget(h, pointers) ==
    LET nodes == Listed(h)
        heads == Blocks(h) \cup nodes \cup (pointers \ {NULL})
        feet == {a + h.hdr[a].size - 1 : a \in heads}
    IN  [h EXCEPT !.hdr = [r \in Rows |-> IF r \in heads \/ r >= h.brk THEN @[r] ELSE Zero],
                  !.ftr = [r \in Rows |-> IF r \in feet THEN @[r] ELSE Blank],
                  !.next = [r \in Rows |-> IF r \in nodes THEN @[r] ELSE NULL],
                  !.prev = [r \in Rows |-> IF r \in nodes THEN @[r] ELSE NULL]]

(* v is given the pointer a of a call that left memory h. *)
Becomes(h, v, a, size) ==
    /\ held' = [held EXCEPT ![v] = IF a = NULL THEN Nothing ELSE [ptr |-> a, size |-> size]]
    /\ m' = Forget(h, {held'[w].ptr : w \in Vars})

Malloc(v, size) ==
    /\ m.run = "running" /\ held[v] = Nothing
    /\ LET r == sf_malloc(m, size) IN Becomes(r.mem, v, r.bp, size)

Free(v) ==
    /\ m.run = "running" /\ held[v] # Nothing
    /\ Becomes(sf_free(m, held[v].ptr), v, NULL, 0)

Realloc(v, size) ==
    /\ m.run = "running" /\ held[v] # Nothing
    /\ LET r == sf_realloc(m, held[v].ptr, size) IN Becomes(r.mem, v, r.bp, size)

(* The misuse the tests have: a pointer to a block that is free. *)
FreeTwice(a) ==
    /\ m.run = "running" /\ \A v \in Vars : held[v].ptr # a
    /\ m' = sf_free(m, a)
    /\ UNCHANGED held

(* The tests set sf_errno back before they go on. *)
ResetErrno ==
    /\ m.run = "running" /\ m.errno # "0"
    /\ m' = [m EXCEPT !.errno = "0"]
    /\ UNCHANGED held

(* The process has ended, or goes round a list for ever. *)
Ended == m.run # "running" /\ UNCHANGED vars

Next ==
    \/ \E v \in Vars, size \in Requests : Malloc(v, size) \/ Realloc(v, size)
    \/ \E v \in Vars : Free(v)
    \/ \E a \in Listed(m) : FreeTwice(a)
    \/ ResetErrno
    \/ Ended

Spec == Init /\ [][Next]_vars

-----------------------------------------------------------------------------
(* Properties.  Sound: no list has been cut and no page was missing.       *)

Sound == ~m.cut /\ ~m.over
Running == m.run = "running"
FreeBlocks(h) == {a \in Blocks(h) : ~h.hdr[a].alloc}

(* Types; and a sound heap neither kills the process nor hangs it: no list *)
(* goes round, no tag is written through NULL.                             *)
TypeOK ==
    /\ m.hdr \in [Rows -> [alloc : BOOLEAN, padded : BOOLEAN, size : Rows]]
    /\ m.ftr \in [Rows -> [alloc : BOOLEAN, padded : BOOLEAN, size : Rows, req : Nat]]
    /\ m.next \in [Rows -> Rows \cup {NULL}]
    /\ m.prev \in [Rows -> Rows \cup {NULL}]
    /\ m.head \in [Lists -> Rows \cup {NULL}]
    /\ m.errno \in {"0", "EINVAL", "ENOMEM"}
    /\ m.counter \in 0..(2 * MaxPages) /\ m.brk \in 0..(MaxPages * PageRows)
    /\ m.run \in {"running", "aborted"} \cup (IF Sound THEN {} ELSE {"crashed", "hung"})
    /\ m.cut \in BOOLEAN /\ m.over \in BOOLEAN
    /\ held \in [Vars -> [ptr : Rows \cup {NULL}, size : Nat]]

(* The headers lead from the heap's start to its end exactly, through      *)
(* blocks of two rows at least whose footer repeats the header: what       *)
(* getNextBP, getPrevBP and coalesce rely on (sfmm.c:56-71, 186-214).      *)
HeapIsTiled ==
    Sound =>
        /\ \A a \in Blocks(m) :
              LET h == m.hdr[a]
                  f == m.ftr[a + h.size - 1]
              IN  /\ h.size >= 2
                  /\ a + h.size = m.brk \/ a + h.size \in Blocks(m)
                  /\ f.alloc = h.alloc /\ f.padded = h.padded /\ f.size = h.size
        /\ m.brk = m.counter * PageRows

(* Each list is doubly linked and ends, and holds the free blocks of its   *)
(* sizes, each once and no other: nothing free is lost, nothing allocated  *)
(* is offered again (delBlkInList and putFits, sfmm.c:73-134).             *)
ListsHoldTheFree ==
    Sound /\ Running =>
        \A i \in Lists :
            /\ ~Endless(m, i)
            /\ Nodes(m, i) = {a \in FreeBlocks(m) : getListNum(m.hdr[a].size) = i}
            /\ \A a \in Nodes(m, i) :
                  /\ m.prev[a] = NULL <=> m.head[i] = a
                  /\ m.next[a] # NULL => m.prev[m.next[a]] = a

(* The allocated blocks are those the client holds, one for each variable, *)
(* large enough and marked with the size that was asked for.               *)
HeldAreAllocated ==
    Sound /\ Running =>
        LET Holders == {v \in Vars : held[v] # Nothing}
        IN  /\ {held[v].ptr : v \in Holders} = Blocks(m) \ FreeBlocks(m)
            /\ \A v, w \in Holders : v # w => held[v].ptr # held[w].ptr
            /\ \A v \in Holders :
                  LET rows == m.hdr[held[v].ptr].size
                  IN  /\ Whole(rows) >= held[v].size
                      /\ m.ftr[held[v].ptr + rows - 1].req = held[v].size

(* A call of sf_malloc now gives up on a request that is not too large only *)
(* if every page is in use and no free block, in whatever list, is large   *)
(* enough (sfmm.c:136-157, 216-222, 266-271).                              *)
NullIsJustified ==
    Sound /\ Running =>
        \A size \in Requests \ {0} :
            sf_malloc(m, size).bp = NULL =>
                \/ PayloadRows(size) >= MaxPages * PageRows
                \/ /\ m.counter = MaxPages
                   /\ \A a \in FreeBlocks(m) : m.hdr[a].size < PayloadRows(size) + 1

(* With no error outstanding, freeing or shrinking a block that is held    *)
(* does not abort: the tags that the checks compare were written alike by  *)
(* every split, merge and shrink (sfmm.c:296-302, 339-347).                *)
GoodFreeReturns ==
    Sound /\ Running /\ m.errno = "0" =>
        \A v \in Vars : held[v] # Nothing =>
            /\ sf_free(m, held[v].ptr).run = "running"
            /\ \A size \in Requests : size <= held[v].size =>
                  sf_realloc(m, held[v].ptr, size).mem.run = "running"

(* Two blocks that are held share no byte of payload (sfmm.h:122-123).     *)
RegionsDisjoint ==
    Running /\ ~m.over =>
        \A v, w \in Vars :
            (v # w /\ held[v] # Nothing /\ held[w] # Nothing) =>
                \/ held[v].ptr + PayloadRows(held[v].size) < held[w].ptr
                \/ held[w].ptr + PayloadRows(held[w].size) < held[v].ptr
=============================================================================
