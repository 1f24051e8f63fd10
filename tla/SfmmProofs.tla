----------------------------- MODULE SfmmProofs -----------------------------
(***************************************************************************)
(* Theorems about Sfmm, for every page size, every number of pages, every  *)
(* division of the sizes among the lists and every set of requests.        *)
(*                                                                         *)
(* A heap is described by two sets: B, the first rows of its blocks, and   *)
(* F, those of them that the lists hold.  Steady(h, B, F) is the state     *)
(* between two calls, with the free blocks exactly those of F; within a    *)
(* call a block may be free and in no list yet.  Each operation gets a     *)
(* lemma that says what it makes of B and F; the calls are put together    *)
(* from these, and IInv at the end says that the client's variables hold   *)
(* B \ F.                                                                  *)
(***************************************************************************)
EXTENDS Sfmm, Recursion, FiniteSetTheorems, SequenceTheorems, TLAPS

(* The rows of the heap at its largest. *)
Limit == MaxPages * PageRows

(* A page is a whole number of rows. *)
LEMMA PageIsRows == PageRows \in Nat \ {0, 1} /\ PAGE_SZ = ROW * PageRows
BY SizesAssumption DEF PageRows, ROW

(* The rows are numbers from 0, and go beyond the heap at its largest. *)
LEMMA Limits ==
  /\ Limit \in Nat /\ Limit >= 2 /\ Limit \in Rows /\ Steps = 0 .. Limit
  /\ \E n \in Nat : n > Limit /\ Rows = 0 .. n
<1>1. MaxPages \in Nat \ {0} /\ PageRows \in Nat \ {0, 1}
  BY SizesAssumption, PageIsRows
<1>2. Limit \in Nat /\ Limit >= 2
  BY <1>1 DEF Limit
<1>3. (2 * MaxPages + 1) * PageRows = 2 * Limit + PageRows
  BY <1>1 DEF Limit
<1>4. Rows = 0 .. (2 * Limit + PageRows)
  BY <1>3 DEF Rows
<1>5. 2 * Limit + PageRows \in Nat /\ 2 * Limit + PageRows > Limit
  BY <1>1, <1>2
<1>6. Limit \in Rows
  BY <1>2, <1>4, <1>5
<1> QED BY <1>2, <1>4, <1>5, <1>6 DEF Steps, Limit

(* So an address within the reserved pages is a row. *)
LEMMA RowNumbers == 0 .. Limit \subseteq Rows /\ Rows \subseteq Nat
BY Limits

(* NULL is the address of nothing. *)
LEMMA NullIsNoRow == NULL \notin Rows
BY SizesAssumption, Limits

(* The types of the memory. *)
Tag == [alloc : BOOLEAN, padded : BOOLEAN, size : Rows]
Foot == [alloc : BOOLEAN, padded : BOOLEAN, size : Rows, req : Nat]
Link == Rows \cup {NULL}

Memory ==
    [hdr : [Rows -> Tag], ftr : [Rows -> Foot],
     next : [Rows -> Link], prev : [Rows -> Link], head : [Lists -> Link],
     errno : {"0", "EINVAL", "ENOMEM"}, counter : Nat, brk : 0 .. Limit,
     run : {"running", "aborted"}, cut : BOOLEAN, over : BOOLEAN]

(* Walk takes one step after the other. *)
LEMMA WalkSteps ==
  ASSUME NEW h, h.head \in [Lists -> Link], h.next \in [Rows -> Link], NEW i \in Lists
  PROVE  /\ Walk(h, i) \in [0 .. Limit -> Link]
         /\ Walk(h, i)[0] = h.head[i]
         /\ \A k \in 1 .. Limit : 
              Walk(h, i)[k] = IF Walk(h, i)[k - 1] = NULL THEN NULL ELSE h.next[Walk(h, i)[k - 1]]
<1> DEFINE N == Limit
           S == Link
           b == h.head[i]
           after == [r \in Rows \cup {NULL} |-> IF r = NULL THEN NULL ELSE h.next[r]]
           Rec(f) == [k \in Steps |-> IF k = 0 THEN b ELSE after[f[k - 1]]]
           g == [n \in 1 .. N |-> after]
           node == CHOOSE f : f = Rec(f)
<1>1. N \in Nat /\ b \in S /\ Steps = 0 .. N
  BY Limits
<1>2. Walk(h, i) = node
  BY DEF Walk
<1>3. after \in [S -> S]
  BY DEF Link
<1> HIDE DEF N, b, after, S
<1>4. \E f : f = Rec(f) /\ f \in [0 .. N -> S]
  <2> OfSteps(g, N, S)
    BY <1>3 DEF OfSteps
  <2> HIDE DEF g
  <2> PICK f : Taken(f, N, S, b, g)
    BY <1>1, StepByStep
  <2>2. f \in [0 .. N -> S] /\ f[0] = b /\ \A n \in 1 .. N : f[n] = g[n][f[n - 1]]
    BY DEF Taken
  <2>3. \A n \in 1 .. N : f[n] = after[f[n - 1]]
    BY <2>2 DEF g
  <2>4. f = Rec(f)
    BY <2>2, <2>3, <1>1
  <2> QED BY <2>2, <2>4
<1>5. node = Rec(node)
  BY <1>4
<1> HIDE DEF node
<1>6. node[0] = b /\ \A k \in 1 .. N : node[k] = after[node[k - 1]]
  <2>1. node = [k \in 0 .. N |-> IF k = 0 THEN b ELSE after[node[k - 1]]]
    BY <1>1, <1>5
  <2> QED BY <1>1, <2>1
<1> DEFINE D == {n \in 0 .. N : node[n] \in S}
<1>7. ASSUME NEW n \in 0 .. N, n \in D, n < N PROVE n + 1 \in D
  <2>1. n + 1 \in 1 .. N /\ n + 1 \in 0 .. N /\ (n + 1) - 1 = n
    BY <1>7, <1>1
  <2>2. node[n + 1] = after[node[n]] /\ node[n] \in S
    BY <1>6, <1>7, <2>1
  <2>3. node[n + 1] \in S
    BY <2>2, <1>3
  <2> QED BY <2>1, <2>3
<1>8. 0 \in D
  BY <1>1, <1>6
<1> HIDE DEF D
<1>9. 0 .. N \subseteq D
  BY <1>1, <1>7, <1>8, UpTo
<1>10. node = [k \in 0 .. N |-> node[k]]
  BY <1>5, <1>1
<1>11. node \in [0 .. N -> S] /\ \A k \in 1 .. N : node[k - 1] \in S
  <2>1. node \in [0 .. N -> S]
    BY <1>9, <1>10 DEF D
  <2> QED BY <2>1, <1>1
<1>12. \A k \in 1 .. N : node[k] = IF node[k - 1] = NULL THEN NULL ELSE h.next[node[k - 1]]
  BY <1>6, <1>11 DEF after, S, Link
<1> QED BY <1>2, <1>6, <1>11, <1>12 DEF N, b, S

(* The set S is what list i holds: its members can be numbered so that head, *)
(* next and prev go along the numbers.                                       *)
Numbered(S, n, f) ==
    /\ n \in Nat /\ f \in [1 .. n -> S]
    /\ \A a \in S : \E k \in 1 .. n : f[k] = a
    /\ \A k, l \in 1 .. n : f[k] = f[l] => k = l

Chained(h, i, n, f) ==
    /\ h.head[i] = IF n = 0 THEN NULL ELSE f[1]
    /\ \A k \in 1 .. n : /\ h.next[f[k]] = IF k = n THEN NULL ELSE f[k + 1]
                         /\ h.prev[f[k]] = IF k = 1 THEN NULL ELSE f[k - 1]

List(h, i, S) == \E n, f : Numbered(S, n, f) /\ Chained(h, i, n, f)

(* Fewer than Limit rows are numbered with fewer numbers. *)
LEMMA FewNumbers ==
  ASSUME NEW S, S \subseteq 0 .. Limit - 1, NEW n, NEW f, Numbered(S, n, f)
  PROVE  n <= Limit
<1> SUFFICES ASSUME n > Limit PROVE FALSE
  BY Limits DEF Numbered
<1>1. /\ IsFiniteSet(1 .. n) /\ Cardinality(1 .. n) = n
      /\ IsFiniteSet(0 .. Limit - 1) /\ Cardinality(0 .. Limit - 1) = Limit
  <2>1. n \in Int /\ 1 \in Int /\ 0 \in Int /\ Limit - 1 \in Int /\ Limit \in Nat /\ Limit >= 2 /\ n \in Nat
    BY Limits DEF Numbered
  <2>2. n - 1 + 1 = n /\ (Limit - 1) - 0 + 1 = Limit /\ ~ (1 > n) /\ ~ (0 > Limit - 1)
    BY <2>1
  <2> QED BY <2>1, <2>2, FS_Interval
<1>2. f \in [1 .. n -> 0 .. Limit - 1]
  BY DEF Numbered
<1>3. \E k, l \in 1 .. n : k # l /\ f[k] = f[l]
  BY <1>1, <1>2, FS_PigeonHole
<1> QED BY <1>3 DEF Numbered

(* Walk goes along the numbers. *)
LEMMA WalkList ==
  ASSUME NEW h, h.head \in [Lists -> Link], h.next \in [Rows -> Link], NEW i \in Lists,
         NEW S, S \subseteq Rows, NEW n, NEW f, Numbered(S, n, f), Chained(h, i, n, f)
  PROVE  \A k \in 0 .. Limit : Walk(h, i)[k] = IF k < n THEN f[k + 1] ELSE NULL
<1> DEFINE w == Walk(h, i)
           D == {k \in 0 .. Limit : w[k] = IF k < n THEN f[k + 1] ELSE NULL}
<1>1. /\ w[0] = h.head[i]
      /\ \A k \in 1 .. Limit : w[k] = IF w[k - 1] = NULL THEN NULL ELSE h.next[w[k - 1]]
  BY WalkSteps
<1>2. n \in Nat /\ f \in [1 .. n -> S] /\ Limit \in Nat
  BY Limits DEF Numbered
<1> HIDE DEF w
<1>3. 0 \in D
  BY <1>1, <1>2 DEF Chained
<1>4. ASSUME NEW k \in 0 .. Limit, k \in D, k < Limit PROVE k + 1 \in D
  <2>1. k + 1 \in 1 .. Limit /\ k + 1 \in 0 .. Limit /\ (k + 1) - 1 = k
    BY <1>2, <1>4
  <2>2. w[k + 1] = IF w[k] = NULL THEN NULL ELSE h.next[w[k]]
    BY <1>1, <2>1
  <2>3. w[k] = IF k < n THEN f[k + 1] ELSE NULL
    BY <1>4
  <2>4. CASE k < n
    <3>1. k + 1 \in 1 .. n /\ f[k + 1] \in S
      BY <1>2, <2>4
    <3>2. f[k + 1] # NULL
      BY <3>1, NullIsNoRow
    <3>3. h.next[f[k + 1]] = IF k + 1 = n THEN NULL ELSE f[(k + 1) + 1]
      BY <3>1 DEF Chained
    <3>4. w[k + 1] = IF k + 1 = n THEN NULL ELSE f[(k + 1) + 1]
      BY <2>2, <2>3, <2>4, <3>2, <3>3
    <3>5. k + 1 < n <=> k + 1 # n
      BY <1>2, <2>1, <2>4
    <3> QED BY <2>1, <3>4, <3>5
  <2>5. CASE ~ (k < n)
    <3>1. ~ (k + 1 < n)
      BY <1>2, <2>1, <2>5
    <3> QED BY <2>1, <2>2, <2>3, <2>5, <3>1
  <2> QED BY <2>4, <2>5
<1> HIDE DEF D
<1>5. 0 .. Limit \subseteq D
  BY <1>2, <1>3, <1>4, UpTo
<1> QED BY <1>5 DEF D, w

(* So it meets them all and ends. *)
LEMMA ListNodes ==
  ASSUME NEW h, h.head \in [Lists -> Link], h.next \in [Rows -> Link], NEW i \in Lists,
         NEW S, S \subseteq 0 .. Limit - 1, List(h, i, S)
  PROVE  Nodes(h, i) = S /\ ~ Endless(h, i)
<1>1. PICK n, f : Numbered(S, n, f) /\ Chained(h, i, n, f)
  BY DEF List
<1>2. S \subseteq Rows /\ Limit \in Nat /\ Steps = 0 .. Limit
  BY Limits
<1>3. n <= Limit /\ n \in Nat /\ f \in [1 .. n -> S]
  BY <1>1, FewNumbers DEF Numbered
<1>4. \A k \in 0 .. Limit : Walk(h, i)[k] = IF k < n THEN f[k + 1] ELSE NULL
  BY <1>1, <1>2, WalkList
<1>5. Walk(h, i)[Limit] = NULL
  BY <1>2, <1>3, <1>4
<1>6. ASSUME NEW a \in Nodes(h, i) PROVE a \in S
  <2>1. PICK k \in 0 .. Limit : Walk(h, i)[k] = a /\ a # NULL
    BY <1>2 DEF Nodes
  <2>2. k < n /\ a = f[k + 1]
    BY <1>4, <2>1
  <2>3. k + 1 \in 1 .. n
    BY <1>3, <2>1, <2>2
  <2> QED BY <1>3, <2>2, <2>3
<1>7. ASSUME NEW a \in S PROVE a \in Nodes(h, i)
  <2>1. PICK k \in 1 .. n : f[k] = a
    BY <1>1 DEF Numbered
  <2>2. k - 1 \in 0 .. Limit /\ k - 1 < n /\ (k - 1) + 1 = k
    BY <1>2, <1>3
  <2>3. Walk(h, i)[k - 1] = a
    BY <1>4, <2>1, <2>2
  <2>4. a # NULL
    BY <1>2, NullIsNoRow
  <2> QED BY <1>2, <2>2, <2>3, <2>4 DEF Nodes
<1> QED BY <1>5, <1>6, <1>7 DEF Endless, Limit

(* Each node of a list but the last is followed by one that points back. *)
Between(h, i, S, a) ==
    /\ h.prev[a] = NULL <=> h.head[i] = a
    /\ h.next[a] # NULL => h.next[a] \in S /\ h.prev[h.next[a]] = a /\ h.next[a] # a
    /\ h.prev[a] # NULL => h.prev[a] \in S /\ h.next[h.prev[a]] = a /\ h.prev[a] # a

(* What the numbering says of one node of a list. *)
LEMMA ListLinks ==
  ASSUME NEW h, NEW i \in Lists, NEW S, S \subseteq Rows, List(h, i, S), NEW a \in S
  PROVE  Between(h, i, S, a)
<1>1. PICK n, f : Numbered(S, n, f) /\ Chained(h, i, n, f)
  BY DEF List
<1>2. n \in Nat /\ f \in [1 .. n -> S] /\ \A k \in 1 .. n : f[k] # NULL
  BY <1>1, NullIsNoRow DEF Numbered
<1>3. PICK k \in 1 .. n : f[k] = a
  BY <1>1 DEF Numbered
<1>4. \A l \in 1 .. n : f[l] = a => l = k
  BY <1>1, <1>3 DEF Numbered
<1>5. /\ h.next[a] = IF k = n THEN NULL ELSE f[k + 1]
      /\ h.prev[a] = IF k = 1 THEN NULL ELSE f[k - 1]
  BY <1>1, <1>3 DEF Chained
<1>6. h.head[i] = f[1] /\ 1 \in 1 .. n
  BY <1>1, <1>2, <1>3 DEF Chained
<1>7. h.prev[a] = NULL <=> h.head[i] = a
  <2>1. CASE k = 1
    BY <1>3, <1>5, <1>6, <2>1
  <2>2. CASE k # 1
    <3>1. k - 1 \in 1 .. n
      BY <1>2, <2>2
    <3> QED BY <1>2, <1>4, <1>5, <1>6, <2>2, <3>1
  <2> QED BY <2>1, <2>2
<1>8. ASSUME h.next[a] # NULL
      PROVE  h.next[a] \in S /\ h.prev[h.next[a]] = a /\ h.next[a] # a
  <2>1. k # n
    BY <1>5, <1>8
  <2>2. k + 1 \in 1 .. n /\ (k + 1) - 1 = k /\ k + 1 # 1 /\ k + 1 # k
    BY <1>2, <2>1
  <2>3. h.prev[f[k + 1]] = f[(k + 1) - 1]
    BY <1>1, <2>2 DEF Chained
  <2>4. h.next[a] = f[k + 1]
    BY <1>5, <2>1
  <2> QED BY <1>2, <1>3, <1>4, <2>2, <2>3, <2>4
<1>9. ASSUME h.prev[a] # NULL
      PROVE  h.prev[a] \in S /\ h.next[h.prev[a]] = a /\ h.prev[a] # a
  <2>1. k # 1
    BY <1>5, <1>9
  <2>2. k - 1 \in 1 .. n /\ (k - 1) + 1 = k /\ k - 1 # n /\ k - 1 # k
    BY <1>2, <2>1
  <2>3. h.next[f[k - 1]] = f[(k - 1) + 1]
    BY <1>1, <2>2 DEF Chained
  <2>4. h.prev[a] = f[k - 1]
    BY <1>5, <2>1
  <2> QED BY <1>2, <1>3, <1>4, <2>2, <2>3, <2>4
<1> QED BY <1>7, <1>8, <1>9 DEF Between

(* Nothing else matters to a list than its head and its nodes' links. *)
LEMMA ListFrame ==
  ASSUME NEW h, NEW g, NEW i, NEW S, List(h, i, S), g.head[i] = h.head[i],
         \A a \in S : g.next[a] = h.next[a] /\ g.prev[a] = h.prev[a]
  PROVE  List(g, i, S)
<1>1. PICK n, f : Numbered(S, n, f) /\ Chained(h, i, n, f)
  BY DEF List
<1>2. \A k \in 1 .. n : f[k] \in S
  BY <1>1 DEF Numbered
<1>3. Chained(g, i, n, f)
  BY <1>1, <1>2 DEF Chained
<1> QED BY <1>1, <1>3 DEF List

(* A row put before the head. *)
LEMMA ListPut ==
  ASSUME NEW h, NEW g, NEW i, NEW S, S \subseteq Rows, List(h, i, S), NEW a \in Rows, a \notin S,
         g.head[i] = a, g.next[a] = h.head[i], g.prev[a] = NULL,
         \A b \in S : /\ g.next[b] = h.next[b]
                      /\ g.prev[b] = IF b = h.head[i] THEN a ELSE h.prev[b]
  PROVE  List(g, i, S \cup {a})
<1>1. PICK n, f : Numbered(S, n, f) /\ Chained(h, i, n, f)
  BY DEF List
<1>2. n \in Nat /\ f \in [1 .. n -> S] /\ \A k \in 1 .. n : f[k] # NULL /\ f[k] # a
  BY <1>1, NullIsNoRow DEF Numbered
<1> DEFINE e == [k \in 1 .. n + 1 |-> IF k = 1 THEN a ELSE f[k - 1]]
<1>3. e[1] = a /\ \A k \in 1 .. n : k + 1 \in 1 .. n + 1 /\ e[k + 1] = f[k]
  BY <1>2
<1>4. \A k \in 1 .. n + 1 : k = 1 \/ (k - 1 \in 1 .. n /\ (k - 1) + 1 = k /\ e[k] = f[k - 1])
  BY <1>2
<1>5. e \in [1 .. n + 1 -> S \cup {a}]
  BY <1>2
<1> HIDE DEF e
<1>6. Numbered(S \cup {a}, n + 1, e)
  <2>1. \A b \in S \cup {a} : \E k \in 1 .. n + 1 : e[k] = b
    <3>1. 1 \in 1 .. n + 1
      BY <1>2
    <3>2. \A b \in S : \E k \in 1 .. n : f[k] = b
      BY <1>1 DEF Numbered
    <3> QED BY <1>3, <3>1, <3>2
  <2>2. ASSUME NEW k \in 1 .. n + 1, NEW l \in 1 .. n + 1, e[k] = e[l] PROVE k = l
    <3>1. CASE k = 1 \/ l = 1
      BY <1>2, <1>3, <1>4, <2>2, <3>1
    <3>2. CASE k # 1 /\ l # 1
      <4>1. k - 1 \in 1 .. n /\ l - 1 \in 1 .. n /\ f[k - 1] = f[l - 1]
        BY <1>4, <2>2, <3>2
      <4>2. k - 1 = l - 1
        BY <1>1, <4>1 DEF Numbered
      <4> QED BY <4>2
    <3> QED BY <3>1, <3>2
  <2> QED BY <1>2, <1>5, <2>1, <2>2 DEF Numbered
<1>7. ASSUME NEW k \in 1 .. n + 1
      PROVE  /\ g.next[e[k]] = IF k = n + 1 THEN NULL ELSE e[k + 1]
             /\ g.prev[e[k]] = IF k = 1 THEN NULL ELSE e[k - 1]
  <2>1. CASE k = 1
    <3>1. h.head[i] = IF n = 0 THEN NULL ELSE f[1]
      BY <1>1 DEF Chained
    <3>2. CASE n = 0
      BY <1>3, <2>1, <3>1, <3>2
    <3>3. CASE n # 0
      <4>1. 1 \in 1 .. n /\ k # n + 1
        BY <1>2, <2>1, <3>3
      <4> QED BY <1>3, <2>1, <3>1, <3>3, <4>1
    <3> QED BY <3>2, <3>3
  <2>2. CASE k # 1
    <3> DEFINE l == k - 1
    <3>1. l \in 1 .. n /\ k = l + 1 /\ e[k] = f[l]
      BY <1>4, <2>2
    <3> HIDE DEF l
    <3>2. /\ h.next[f[l]] = IF l = n THEN NULL ELSE f[l + 1]
          /\ h.prev[f[l]] = IF l = 1 THEN NULL ELSE f[l - 1]
      BY <1>1, <3>1 DEF Chained
    <3>3. f[l] \in S
      BY <1>2, <3>1
    <3>4. g.next[e[k]] = IF k = n + 1 THEN NULL ELSE e[k + 1]
      <4>1. l = n <=> k = n + 1
        BY <1>2, <3>1
      <4>2. l # n => l + 1 \in 1 .. n /\ e[k + 1] = f[l + 1]
        BY <1>2, <1>3, <3>1
      <4> QED BY <3>1, <3>2, <3>3, <4>1, <4>2
    <3>5. f[l] = h.head[i] <=> l = 1
      <4>1. n # 0 /\ 1 \in 1 .. n
        BY <1>2, <3>1
      <4>2. h.head[i] = f[1]
        BY <1>1, <4>1 DEF Chained
      <4> QED BY <1>1, <3>1, <4>1, <4>2 DEF Numbered
    <3>6. g.prev[e[k]] = IF k = 1 THEN NULL ELSE e[k - 1]
      <4>1. k - 1 = l
        BY <3>1
      <4>2. CASE l = 1
        BY <1>3, <2>2, <3>1, <3>3, <3>5, <4>1, <4>2
      <4>3. CASE l # 1
        <5>1. l - 1 \in 1 .. n /\ (l - 1) + 1 = l
          BY <1>2, <3>1, <4>3
        <5>2. e[l] = f[l - 1]
          BY <1>3, <5>1
        <5> QED BY <2>2, <3>1, <3>2, <3>3, <3>5, <4>1, <4>3, <5>2
      <4> QED BY <4>2, <4>3
    <3> QED BY <3>4, <3>6
  <2> QED BY <2>1, <2>2
<1>8. Chained(g, i, n + 1, e)
  BY <1>2, <1>3, <1>7 DEF Chained
<1> QED BY <1>6, <1>8 DEF List
(* A row taken out, its neighbours linked to each other. *)
LEMMA ListDrop ==
  ASSUME NEW h, NEW g, NEW i \in Lists, NEW S, S \subseteq Rows, List(h, i, S), NEW a \in S,
         g.head[i] = IF h.prev[a] = NULL THEN h.next[a] ELSE h.head[i],
         \A b \in S \ {a} :
            /\ g.next[b] = IF b = h.prev[a] THEN h.next[a] ELSE h.next[b]
            /\ g.prev[b] = IF b = h.next[a] THEN h.prev[a] ELSE h.prev[b]
  PROVE  List(g, i, S \ {a})
<1>1. PICK n, f : Numbered(S, n, f) /\ Chained(h, i, n, f)
  BY DEF List
<1>2. n \in Nat /\ f \in [1 .. n -> S] /\ \A k \in 1 .. n : f[k] # NULL
  BY <1>1, NullIsNoRow DEF Numbered
<1>3. PICK k \in 1 .. n : f[k] = a
  BY <1>1 DEF Numbered
<1>4. \A l, j \in 1 .. n : f[l] = f[j] => l = j
  BY <1>1 DEF Numbered
<1>5. /\ h.next[a] = IF k = n THEN NULL ELSE f[k + 1]
      /\ h.prev[a] = IF k = 1 THEN NULL ELSE f[k - 1]
  BY <1>1, <1>3 DEF Chained
<1> DEFINE past(j) == IF j < k THEN j ELSE j + 1
           e == [j \in 1 .. n - 1 |-> f[past(j)]]
<1>6. \A j \in 1 .. n - 1 : past(j) \in 1 .. n /\ past(j) # k /\ e[j] = f[past(j)]
  BY <1>2
<1>7. \A l \in 1 .. n : l # k => \E j \in 1 .. n - 1 : past(j) = l
  <2> SUFFICES ASSUME NEW l \in 1 .. n, l # k PROVE \E j \in 1 .. n - 1 : past(j) = l
    OBVIOUS
  <2>1. CASE l < k
    BY <1>2, <2>1
  <2>2. CASE l > k
    <3>1. l - 1 \in 1 .. n - 1 /\ past(l - 1) = l
      BY <1>2, <2>2
    <3> QED BY <3>1
  <2> QED BY <1>2, <2>1, <2>2
<1>8. e \in [1 .. n - 1 -> S \ {a}]
  <2>1. \A j \in 1 .. n - 1 : f[past(j)] \in S /\ f[past(j)] # a
    BY <1>2, <1>3, <1>4, <1>6
  <2> QED BY <2>1
<1>9. \A j, l \in 1 .. n - 1 : past(j) = past(l) => j = l
  BY <1>2
<1>10. n - 1 \in Nat
  BY <1>2
<1> HIDE DEF e
<1>11. Numbered(S \ {a}, n - 1, e)
  <2>1. \A b \in S \ {a} : \E j \in 1 .. n - 1 : e[j] = b
    <3> SUFFICES ASSUME NEW b \in S, b # a PROVE \E j \in 1 .. n - 1 : e[j] = b
      OBVIOUS
    <3>1. PICK l \in 1 .. n : f[l] = b
      BY <1>1 DEF Numbered
    <3>2. PICK j \in 1 .. n - 1 : past(j) = l
      BY <1>3, <1>7, <3>1
    <3> QED BY <1>6, <3>1, <3>2
  <2>2. \A j, l \in 1 .. n - 1 : e[j] = e[l] => j = l
    <3> HIDE DEF past
    <3> QED BY <1>4, <1>6, <1>9
  <2> QED BY <1>8, <1>10, <2>1, <2>2 DEF Numbered
<1>12. ASSUME NEW j \in 1 .. n - 1
       PROVE  /\ g.next[e[j]] = IF j = n - 1 THEN NULL ELSE e[j + 1]
              /\ g.prev[e[j]] = IF j = 1 THEN NULL ELSE e[j - 1]
  <2> DEFINE l == past(j)
  <2>1. l \in 1 .. n /\ l # k /\ e[j] = f[l] /\ f[l] \in S \ {a}
    BY <1>6, <1>8
  <2>2. /\ h.next[f[l]] = IF l = n THEN NULL ELSE f[l + 1]
        /\ h.prev[f[l]] = IF l = 1 THEN NULL ELSE f[l - 1]
    BY <1>1, <2>1 DEF Chained
  <2>3. /\ g.next[f[l]] = IF f[l] = h.prev[a] THEN h.next[a] ELSE h.next[f[l]]
        /\ g.prev[f[l]] = IF f[l] = h.next[a] THEN h.prev[a] ELSE h.prev[f[l]]
    BY <2>1
  <2>4. f[l] = h.prev[a] <=> k # 1 /\ l = k - 1
    <3>1. k # 1 => k - 1 \in 1 .. n
      BY <1>2
    <3> HIDE DEF l
    <3> QED BY <1>2, <1>4, <1>5, <2>1, <3>1
  <2>5. f[l] = h.next[a] <=> k # n /\ l = k + 1
    <3>1. k # n => k + 1 \in 1 .. n
      BY <1>2
    <3> HIDE DEF l
    <3> QED BY <1>2, <1>4, <1>5, <2>1, <3>1
  <2>6. g.next[e[j]] = IF j = n - 1 THEN NULL ELSE e[j + 1]
    <3>1. CASE k # 1 /\ l = k - 1
      <4>1. g.next[e[j]] = h.next[a]
        BY <2>1, <2>3, <2>4, <3>1
      <4>2. j = k - 1
        BY <1>2, <3>1
      <4>3. k = n <=> j = n - 1
        BY <1>2, <4>2
      <4>4. k # n => j + 1 \in 1 .. n - 1 /\ past(j + 1) = k + 1
        BY <1>2, <4>2
      <4>5. k # n => e[j + 1] = f[k + 1]
        BY <1>6, <4>4
      <4> HIDE DEF l
      <4> QED BY <1>5, <4>1, <4>3, <4>5
    <3>2. CASE ~ (k # 1 /\ l = k - 1)
      <4>1. g.next[e[j]] = IF l = n THEN NULL ELSE f[l + 1]
        BY <2>1, <2>2, <2>3, <2>4, <3>2
      <4>2. l = n <=> j = n - 1
        BY <1>2, <3>2
      <4>3. l # n => j + 1 \in 1 .. n - 1 /\ past(j + 1) = l + 1
        BY <1>2, <3>2
      <4>4. l # n => e[j + 1] = f[l + 1]
        BY <1>6, <4>3
      <4> HIDE DEF l
      <4> QED BY <4>1, <4>2, <4>4
    <3> QED BY <3>1, <3>2
  <2>7. g.prev[e[j]] = IF j = 1 THEN NULL ELSE e[j - 1]
    <3>1. CASE k # n /\ l = k + 1
      <4>1. g.prev[e[j]] = h.prev[a]
        BY <2>1, <2>3, <2>5, <3>1
      <4>2. j = k
        BY <1>2, <3>1
      <4>3. k # 1 => j - 1 \in 1 .. n - 1 /\ past(j - 1) = k - 1
        BY <1>2, <4>2
      <4>4. k # 1 => e[j - 1] = f[k - 1]
        BY <1>6, <4>3
      <4> HIDE DEF l
      <4> QED BY <1>5, <4>1, <4>2, <4>4
    <3>2. CASE ~ (k # n /\ l = k + 1)
      <4>1. g.prev[e[j]] = IF l = 1 THEN NULL ELSE f[l - 1]
        BY <2>1, <2>2, <2>3, <2>5, <3>2
      <4>2. l = 1 <=> j = 1
        BY <1>2, <3>2
      <4>3. l # 1 => j - 1 \in 1 .. n - 1 /\ past(j - 1) = l - 1
        BY <1>2, <3>2
      <4>4. l # 1 => e[j - 1] = f[l - 1]
        BY <1>6, <4>3
      <4> HIDE DEF l
      <4> QED BY <4>1, <4>2, <4>4
    <3> QED BY <3>1, <3>2
  <2> QED BY <2>6, <2>7
<1>13. g.head[i] = IF n - 1 = 0 THEN NULL ELSE e[1]
  <2>1. h.head[i] = f[1] /\ 1 \in 1 .. n
    BY <1>1, <1>2 DEF Chained
  <2>2. CASE k = 1
    <3>1. g.head[i] = IF n = 1 THEN NULL ELSE f[2]
      BY <1>5, <2>2
    <3>2. n # 1 => 1 \in 1 .. n - 1 /\ past(1) = 2
      BY <1>2, <2>2
    <3> QED BY <1>2, <1>6, <3>1, <3>2
  <2>3. CASE k # 1
    <3>1. k - 1 \in 1 .. n
      BY <1>2, <2>3
    <3>2. g.head[i] = f[1]
      BY <1>2, <1>5, <2>1, <2>3, <3>1
    <3>3. 1 \in 1 .. n - 1 /\ past(1) = 1
      BY <1>2, <2>3
    <3>4. e[1] = f[1]
      BY <1>6, <3>3
    <3>5. n - 1 # 0
      BY <1>2, <3>3
    <3> QED BY <3>2, <3>4, <3>5
  <2> QED BY <2>2, <2>3
<1>14. Chained(g, i, n - 1, e)
  BY <1>12, <1>13 DEF Chained
<1> QED BY <1>11, <1>14 DEF List

-----------------------------------------------------------------------------
(* What the operations do to the memory, field by field. *)

Tagged(rows, req, alloc) == [alloc |-> alloc, padded |-> Whole(rows) # req, size |-> rows]
Footed(rows, req, alloc) ==
    [alloc |-> alloc, padded |-> Whole(rows) # req, size |-> rows, req |-> req]

SameLists(h, g) == g.next = h.next /\ g.prev = h.prev /\ g.head = h.head
SameRest(h, g) ==
    /\ g.errno = h.errno /\ g.counter = h.counter /\ g.brk = h.brk
    /\ g.run = h.run /\ g.cut = h.cut /\ g.over = h.over

(* The fields of a tag. *)
LEMMA TagFields ==
  ASSUME NEW rows, NEW req
  PROVE  /\ Tagged(rows, req, TRUE).size = rows /\ Tagged(rows, req, TRUE).alloc
         /\ Tagged(rows, req, FALSE).size = rows /\ ~ Tagged(rows, req, FALSE).alloc
BY DEF Tagged

(* place writes both tags of one block and nothing else. *)
LEMMA PlaceFields ==
  ASSUME NEW h \in Memory, NEW a \in Rows, NEW rows \in Rows, NEW req \in Nat, NEW alloc \in BOOLEAN
  PROVE  /\ place(h, a, rows, req, alloc) \in Memory
         /\ place(h, a, rows, req, alloc).hdr = [h.hdr EXCEPT ![a] = Tagged(rows, req, alloc)]
         /\ place(h, a, rows, req, alloc).ftr = [h.ftr EXCEPT ![a + rows - 1] = Footed(rows, req, alloc)]
         /\ SameLists(h, place(h, a, rows, req, alloc))
         /\ SameRest(h, place(h, a, rows, req, alloc))
<1> DEFINE t == Tagged(rows, req, alloc)
           f == Footed(rows, req, alloc)
           g == [h EXCEPT !.hdr[a] = t, !.ftr[a + rows - 1] = f]
<1>1. t \in Tag /\ f \in Foot
  BY DEF Tagged, Footed, Tag, Foot
<1>2. place(h, a, rows, req, alloc) = g
  <2>1. a # NULL
    BY NullIsNoRow
  <2> QED BY <2>1 DEF place, Tagged, Footed
<1> HIDE DEF t, f
<1>3. g \in Memory
  BY <1>1 DEF Memory
<1>4. g.hdr = [h.hdr EXCEPT ![a] = t] /\ g.ftr = [h.ftr EXCEPT ![a + rows - 1] = f]
  BY DEF Memory
<1>5. SameLists(h, g) /\ SameRest(h, g)
  BY DEF Memory, SameLists, SameRest
<1> QED BY <1>2, <1>3, <1>4, <1>5 DEF t, f

(* Storing a link leaves a memory. *)
LEMMA StoreLink ==
  ASSUME NEW h \in Memory, NEW a, NEW x \in Link
  PROVE  /\ [h EXCEPT !.next[a] = x] \in Memory
         /\ [h EXCEPT !.prev[a] = x] \in Memory
         /\ [h EXCEPT !.head[a] = x] \in Memory
<1>1. [h.next EXCEPT ![a] = x] \in [Rows -> Link]
  BY DEF Memory
<1>2. [h.prev EXCEPT ![a] = x] \in [Rows -> Link]
  BY DEF Memory
<1>3. [h.head EXCEPT ![a] = x] \in [Lists -> Link]
  BY DEF Memory
<1> QED BY <1>1, <1>2, <1>3 DEF Memory

(* The nodes of list i that are not a. *)
LEMMA UnlinkFields ==
  ASSUME NEW h \in Memory, NEW i \in Lists, NEW S, S \subseteq Rows, List(h, i, S), NEW a \in S,
         NEW g, g = Unlink(h, a, i)
  PROVE  /\ g \in Memory /\ g.hdr = h.hdr /\ g.ftr = h.ftr
         /\ g.errno = h.errno /\ g.counter = h.counter /\ g.brk = h.brk
         /\ g.run = h.run /\ g.over = h.over
         /\ h.cut => g.cut
         /\ ~ g.cut => 
              /\ g.head = [h.head EXCEPT ![i] = IF h.prev[a] = NULL THEN h.next[a] ELSE h.head[i]]
              /\ \A b \in Rows \ {a} :
                    /\ g.next[b] = IF b = h.prev[a] THEN h.next[a] ELSE h.next[b]
                    /\ g.prev[b] = IF b = h.next[a] THEN h.prev[a] ELSE h.prev[b]
<1> DEFINE n == h.next[a]
           p == h.prev[a]
           alone == [h EXCEPT !.next[a] = NULL, !.prev[a] = NULL]
<1>1. a \in Rows /\ n \in Link /\ p \in Link /\ NULL \in Link
  BY DEF Memory, Link
<1>2. (n # NULL => n \in Rows \ {a}) /\ (p # NULL => p \in Rows \ {a})
  <2> Between(h, i, S, a)
    BY ListLinks
  <2>1. (n # NULL => n # a) /\ (p # NULL => p # a)
    BY DEF Between
  <2> QED BY <1>1, <2>1 DEF Link
<1>3. NULL \notin Rows
  BY NullIsNoRow
<1> HIDE DEF n, p
<1>8. alone \in Memory
  <2>1. [h EXCEPT !.next[a] = NULL] \in Memory
    BY <1>1, StoreLink
  <2>2. [[h EXCEPT !.next[a] = NULL] EXCEPT !.prev[a] = NULL] \in Memory
    BY <1>1, <2>1, StoreLink
  <2> QED BY <2>2
<1>4. CASE p = NULL /\ n = NULL
  <2>1. g = [h EXCEPT !.head[i] = NULL]
    BY <1>4 DEF Unlink, n, p
  <2>2. g \in Memory /\ g.head = [h.head EXCEPT ![i] = NULL]
    BY <1>1, <2>1 DEF Memory
  <2>3. g.hdr = h.hdr /\ g.ftr = h.ftr /\ g.next = h.next /\ g.prev = h.prev /\ SameRest(h, g)
    BY <2>1 DEF Memory, SameRest
  <2> QED BY <1>3, <1>4, <2>2, <2>3 DEF SameRest, n, p
<1>5. CASE p = NULL /\ n # NULL
  <2>1. g = [alone EXCEPT !.head[i] = n, !.prev[n] = NULL]
    BY <1>5 DEF Unlink, n, p
  <2>3. g \in Memory
    <3> HIDE DEF alone
    <3>1. [alone EXCEPT !.head[i] = n] \in Memory
      BY <1>1, <1>8, StoreLink
    <3>2. [[alone EXCEPT !.head[i] = n] EXCEPT !.prev[n] = NULL] \in Memory
      BY <1>1, <3>1, StoreLink
    <3> QED BY <2>1, <3>2
  <2>4. /\ g.hdr = h.hdr /\ g.ftr = h.ftr /\ SameRest(h, g)
        /\ g.head = [h.head EXCEPT ![i] = n]
        /\ g.next = [h.next EXCEPT ![a] = NULL]
        /\ g.prev = [[h.prev EXCEPT ![a] = NULL] EXCEPT ![n] = NULL]
    BY <2>1 DEF Memory, SameRest
  <2>5. \A b \in Rows \ {a} : /\ g.next[b] = h.next[b]
                              /\ g.prev[b] = IF b = n THEN NULL ELSE h.prev[b]
    BY <2>4 DEF Memory
  <2> QED BY <1>3, <1>5, <2>3, <2>4, <2>5 DEF SameRest, n, p
<1>6. CASE p # NULL /\ n # NULL
  <2>1. g = [alone EXCEPT !.next[p] = n, !.prev[n] = p]
    BY <1>6 DEF Unlink, n, p
  <2>3. g \in Memory
    <3> HIDE DEF alone
    <3>1. [alone EXCEPT !.next[p] = n] \in Memory
      BY <1>1, <1>8, StoreLink
    <3>2. [[alone EXCEPT !.next[p] = n] EXCEPT !.prev[n] = p] \in Memory
      BY <1>1, <3>1, StoreLink
    <3> QED BY <2>1, <3>2
  <2>4. /\ g.hdr = h.hdr /\ g.ftr = h.ftr /\ SameRest(h, g) /\ g.head = h.head
        /\ g.next = [[h.next EXCEPT ![a] = NULL] EXCEPT ![p] = n]
        /\ g.prev = [[h.prev EXCEPT ![a] = NULL] EXCEPT ![n] = p]
    BY <2>1 DEF Memory, SameRest
  <2>5. \A b \in Rows \ {a} : /\ g.next[b] = IF b = p THEN n ELSE h.next[b]
                              /\ g.prev[b] = IF b = n THEN p ELSE h.prev[b]
    BY <2>4 DEF Memory
  <2>6. h.head = [h.head EXCEPT ![i] = h.head[i]]
    BY DEF Memory
  <2> QED BY <1>3, <1>6, <2>3, <2>4, <2>5, <2>6 DEF SameRest, n, p
<1>7. CASE p # NULL /\ n = NULL
  <2>1. g = [alone EXCEPT !.cut = TRUE]
    BY <1>7 DEF Unlink, n, p
  <2>2. g \in Memory
    <3> HIDE DEF alone
    <3> QED BY <1>8, <2>1 DEF Memory
  <2>3. /\ g.hdr = h.hdr /\ g.ftr = h.ftr /\ g.errno = h.errno /\ g.counter = h.counter
        /\ g.brk = h.brk /\ g.run = h.run /\ g.over = h.over
    BY <2>1 DEF Memory
  <2>4. g.cut = TRUE
    BY <2>1 DEF Memory
  <2> QED BY <2>2, <2>3, <2>4
<1> QED BY <1>4, <1>5, <1>6, <1>7

-----------------------------------------------------------------------------
(* The blocks that tile the heap. *)

Tiles(hdr, top, B) ==
    /\ B \subseteq 0 .. top - 1
    /\ top # 0 => 0 \in B
    /\ \A a \in B : hdr[a].size >= 2 /\ a + hdr[a].size \in B \cup {top}
    /\ \A a \in B \cup {top} : a # 0 => \E b \in B : b + hdr[b].size = a
    /\ \A a, b \in B : a < b => a + hdr[a].size <= b

(* Every size has a list, and a larger block is in no earlier one. *)
LEMMA GetListNum ==
  ASSUME NEW rows \in Nat, NEW more \in Nat, rows <= more
  PROVE  /\ getListNum(rows) \in Lists
         /\ getListNum(rows) <= getListNum(more)
<1> DEFINE P(r, i) == /\ i < 4 => r * ROW <= ListMax[i]
                      /\ \A j \in 1 .. (i - 1) : r * ROW > ListMax[j]
           Num(r) == IF r * ROW <= ListMax[1] THEN 1
                     ELSE IF r * ROW <= ListMax[2] THEN 2
                     ELSE IF r * ROW <= ListMax[3] THEN 3 ELSE 4
<1>1. ListMax[1] \in Nat /\ ListMax[2] \in Nat /\ ListMax[3] \in Nat
      /\ ListMax[1] < ListMax[2] /\ ListMax[2] < ListMax[3]
  BY SizesAssumption
<1>2. ASSUME NEW r \in Nat PROVE getListNum(r) = Num(r)
  <2>1. r * ROW \in Nat
    BY DEF ROW
  <2>2. Num(r) \in Lists
    BY DEF Lists
  <2>3. P(r, Num(r))
    BY <1>1, <2>1
  <2>4. \A i \in Lists : P(r, i) => i = Num(r)
    BY <1>1, <2>1 DEF Lists
  <2> HIDE DEF Num, P
  <2>5. getListNum(r) = CHOOSE i \in Lists : P(r, i)
    BY DEF getListNum, P
  <2> QED BY <2>2, <2>3, <2>4, <2>5
<1>3. Num(rows) \in Lists /\ Num(rows) <= Num(more)
  <2>1. rows * ROW \in Nat /\ more * ROW \in Nat /\ rows * ROW <= more * ROW
    BY DEF ROW
  <2> QED BY <1>1, <2>1 DEF Lists
<1> QED BY <1>2, <1>3

(* They are what Blocks finds. *)
LEMMA BlocksAre ==
  ASSUME NEW h \in Memory, NEW B, Tiles(h.hdr, h.brk, B)
  PROVE  Blocks(h) = B
<1> DEFINE top == h.brk
           size(r) == h.hdr[r].size
           S == B \cup {top}
           after == [r \in Rows |-> IF r < h.brk THEN r + h.hdr[r].size ELSE r]
           Rec(f) == [k \in Steps |-> IF k = 0 THEN 0 ELSE after[f[k - 1]]]
           step == [r \in S |-> after[r]]
           g == [n \in 1 .. Limit |-> step]
           at == CHOOSE f : f = Rec(f)
<1>1. /\ top \in 0 .. Limit /\ Limit \in Nat /\ Steps = 0 .. Limit /\ S \subseteq 0 .. Limit
      /\ S \subseteq Rows /\ B \subseteq 0 .. top - 1
  <2>1. top \in 0 .. Limit
    BY DEF Memory
  <2>2. B \subseteq 0 .. top - 1
    BY DEF Tiles
  <2>3. Limit \in Nat /\ Steps = 0 .. Limit
    BY Limits
  <2>4. S \subseteq 0 .. Limit
    <3> HIDE DEF top
    <3>1. 0 .. top - 1 \subseteq 0 .. Limit
      BY <2>1, <2>3
    <3> QED BY <2>1, <2>2, <3>1
  <2>5. S \subseteq Rows
    <3> HIDE DEF S
    <3> QED BY <2>4, RowNumbers
  <2> QED BY <2>1, <2>2, <2>3, <2>4, <2>5
<1>2. Blocks(h) = {at[k] : k \in Steps} \cap 0 .. top - 1
  BY DEF Blocks
<1>3. /\ after[top] = top /\ 0 \in S
      /\ \A r \in B : after[r] = r + size(r) /\ after[r] \in S /\ size(r) >= 2
  <2>1. \A r \in B : r < top /\ r \in Rows
    BY <1>1
  <2> QED BY <1>1, <2>1 DEF Tiles
<1>4. step \in [S -> S]
  BY <1>3
<1> HIDE DEF after, top, size
<1>5. \E f : f = Rec(f)
  <2>1. OfSteps(g, Limit, S)
    BY <1>4 DEF OfSteps
  <2> HIDE DEF g
  <2> PICK f : Taken(f, Limit, S, 0, g)
    BY <1>1, <1>3, <2>1, StepByStep
  <2>2. f \in [0 .. Limit -> S] /\ f[0] = 0 /\ \A n \in 1 .. Limit : f[n] = g[n][f[n - 1]]
    BY DEF Taken
  <2>3. \A n \in 1 .. Limit : f[n - 1] \in S /\ f[n] = step[f[n - 1]]
    <3> HIDE DEF S, step
    <3> QED BY <1>1, <2>2 DEF g
  <2>4. \A n \in 1 .. Limit : f[n] = after[f[n - 1]]
    <3> HIDE DEF S
    <3> QED BY <2>3
  <2> HIDE DEF S
  <2> QED BY <1>1, <2>2, <2>4
<1>6. at = Rec(at)
  BY <1>5
<1> HIDE DEF at
<1>7. at[0] = 0 /\ \A k \in 1 .. Limit : at[k] = after[at[k - 1]]
  <2>1. at = [k \in 0 .. Limit |-> IF k = 0 THEN 0 ELSE after[at[k - 1]]]
    BY <1>1, <1>6
  <2> QED BY <1>1, <2>1
<1> DEFINE D == {k \in 0 .. Limit : at[k] \in S}
<1>8. 0 .. Limit \subseteq D
  <2>1. 0 \in D
    BY <1>1, <1>3, <1>7
  <2>2. ASSUME NEW k \in 0 .. Limit, k \in D, k < Limit PROVE k + 1 \in D
    <3>1. k + 1 \in 1 .. Limit /\ k + 1 \in 0 .. Limit /\ (k + 1) - 1 = k
      BY <1>1, <2>2
    <3>2. at[k + 1] = after[at[k]] /\ at[k] \in S
      BY <1>7, <2>2, <3>1
    <3>3. at[k + 1] \in S
      BY <1>3, <3>2
    <3> QED BY <3>1, <3>3
  <2> HIDE DEF D
  <2> QED BY <1>1, <2>1, <2>2, UpTo
<1> DEFINE E == {x \in 0 .. Limit : \A b \in B : b <= x => \E k \in 0 .. b : at[k] = b}
<1>9. 0 .. Limit \subseteq E
  <2>1. 0 \in E
    <3>1. \A b \in B : b <= 0 => b = 0 /\ 0 \in 0 .. b
      BY <1>1
    <3> QED BY <1>1, <1>7, <3>1
  <2>2. ASSUME NEW x \in 0 .. Limit, x \in E, x < Limit PROVE x + 1 \in E
    <3>1. ASSUME NEW b \in B, b = x + 1 PROVE \E k \in 0 .. b : at[k] = b
      <4>1. PICK c \in B : c + size(c) = b
        <5>1. b # 0
          BY <1>1, <3>1
        <5> QED BY <5>1 DEF Tiles, size
      <4>2. size(c) \in Int /\ size(c) >= 2 /\ after[c] = b
        <5>1. size(c) \in Rows
          BY <1>1 DEF Memory, Tag, size
        <5>2. \A r \in Rows : r \in Int
          BY Limits
        <5> QED BY <1>3, <4>1, <5>1, <5>2
      <4>3. c \in Int /\ b \in Int /\ c >= 0 /\ b <= Limit
        BY <1>1
      <4>4. c <= x
        BY <3>1, <4>1, <4>2, <4>3
      <4>5. PICK k \in 0 .. c : at[k] = c
        BY <2>2, <4>4
      <4>6. k + 1 \in 1 .. Limit /\ k + 1 \in 0 .. b /\ (k + 1) - 1 = k
        BY <4>1, <4>2, <4>3, <1>1
      <4>7. at[k + 1] = b
        BY <1>7, <4>2, <4>5, <4>6
      <4> QED BY <4>6, <4>7
    <3>2. x + 1 \in 0 .. Limit /\ \A b \in B : b <= x + 1 => b <= x \/ b = x + 1
      BY <1>1, <2>2
    <3> QED BY <2>2, <3>1, <3>2
  <2> HIDE DEF E
  <2> QED BY <1>1, <2>1, <2>2, UpTo
<1>10. \A k \in Steps : at[k] \in S
  BY <1>1, <1>8
<1>11. \A b \in B : \E k \in Steps : at[k] = b
  <2> SUFFICES ASSUME NEW b \in B PROVE \E k \in Steps : at[k] = b
    OBVIOUS
  <2>1. b \in 0 .. Limit /\ b <= b
    BY <1>1
  <2>2. PICK k \in 0 .. b : at[k] = b
    BY <1>9, <2>1
  <2>3. k \in Steps
    BY <1>1, <2>1
  <2> QED BY <2>2, <2>3
<1>12. B = S \cap 0 .. top - 1
  <2>1. top \notin 0 .. top - 1
    BY <1>1
  <2> QED BY <1>1, <2>1
<1> HIDE DEF S
<1> QED BY <1>2, <1>1, <1>10, <1>11, <1>12

(* Splitting a block, merging two and adding one keep the heap tiled. *)
Halved(hdr, new, B, a, b, need) ==
    /\ \A c \in B : hdr[c].size \in Nat
    /\ a \in B /\ b = a + need /\ need \in Nat /\ need >= 2 /\ need + 2 <= hdr[a].size
    /\ new[a].size = need /\ new[b].size = hdr[a].size - need
    /\ \A c \in B \ {a} : new[c].size = hdr[c].size

(* A block cut in two leaves a tiling (splitBlock, sfmm.c:159-184). *)
LEMMA SplitTiles ==
  ASSUME NEW hdr, NEW new, NEW top \in Nat, NEW B, Tiles(hdr, top, B),
         NEW a, NEW b, NEW need, Halved(hdr, new, B, a, b, need)
  PROVE  Tiles(new, top, B \cup {b}) /\ b \notin B
<1> USE DEF Halved
<1> DEFINE s(c) == hdr[c].size
           t(c) == new[c].size
<1>1. /\ B \subseteq 0 .. top - 1 /\ (top # 0 => 0 \in B)
      /\ \A c \in B : s(c) \in Nat /\ s(c) >= 2 /\ c + s(c) \in B \cup {top}
      /\ \A x \in B \cup {top} : x # 0 => \E d \in B : d + s(d) = x
      /\ \A x, y \in B : x < y => x + s(x) <= y
  BY DEF Tiles
<1>2. t(a) = need /\ t(b) = s(a) - need /\ \A c \in B \ {a} : t(c) = s(c)
  OBVIOUS
<1>3. a \in Nat /\ s(a) \in Nat /\ need + 2 <= s(a) /\ b \in Nat /\ a + s(a) <= top /\ b > a
      /\ b + 2 <= a + s(a)
  <2> HIDE DEF s
  <2>1. a + s(a) \in B \cup {top} /\ s(a) \in Nat /\ need + 2 <= s(a)
    BY <1>1 DEF s
  <2>2. a \in Nat /\ \A x \in B \cup {top} : x <= top
    BY <1>1
  <2> QED BY <2>1, <2>2
<1> HIDE DEF s, t
<1>4. b \notin B
  BY <1>1, <1>3
<1>5. B \cup {b} \subseteq 0 .. top - 1
  BY <1>1, <1>3
<1>6. ASSUME NEW c \in B \cup {b} PROVE t(c) >= 2 /\ c + t(c) \in (B \cup {b}) \cup {top}
  <2>1. CASE c = a
    BY <1>2, <2>1
  <2>2. CASE c = b
    <3>1. b + t(b) = a + s(a) /\ t(b) >= 2
      BY <1>2, <1>3
    <3> QED BY <1>1, <2>2, <3>1
  <2>3. CASE c \in B \ {a}
    BY <1>1, <1>2, <2>3
  <2> QED BY <2>1, <2>2, <2>3
<1>7. ASSUME NEW x \in (B \cup {b}) \cup {top}, x # 0 PROVE \E d \in B \cup {b} : d + t(d) = x
  <2>1. CASE x = b
    BY <1>2, <2>1
  <2>2. CASE x # b
    <3>1. PICK d \in B : d + s(d) = x
      BY <1>1, <1>7, <2>2
    <3>2. CASE d = a
      <4>1. b + t(b) = x
        BY <1>2, <1>3, <3>1, <3>2
      <4> QED BY <4>1
    <3>3. CASE d # a
      BY <1>2, <3>1, <3>3
    <3> QED BY <3>2, <3>3
  <2> QED BY <2>1, <2>2
<1>8. ASSUME NEW x \in B \cup {b}, NEW y \in B \cup {b}, x < y PROVE x + t(x) <= y
  <2>1. CASE x = b
    <3>1. a < y /\ y \in B
      BY <1>1, <1>3, <1>8, <2>1
    <3>2. a + s(a) <= y
      BY <1>1, <3>1
    <3> QED BY <1>2, <1>3, <2>1, <3>2
  <2>2. CASE x = a
    <3>1. y = b \/ (y \in B /\ a + s(a) <= y /\ y \in Nat)
      BY <1>1, <1>8, <2>2
    <3> QED BY <1>2, <1>3, <2>2, <3>1
  <2>3. CASE x \in B \ {a}
    <3>1. t(x) = s(x) /\ x \in Nat /\ s(x) \in Nat
      BY <1>1, <1>2, <2>3
    <3>2. CASE y \in B
      BY <1>1, <1>8, <2>3, <3>1, <3>2
    <3>3. CASE y = b
      <4>1. ~ (a < x)
        <5>1. a < x => a + s(a) <= x
          BY <1>1, <2>3
        <5> QED BY <1>3, <1>8, <3>1, <3>3, <5>1
      <4>2. x + s(x) <= a
        BY <1>1, <1>3, <2>3, <3>1, <4>1
      <4> QED BY <1>3, <3>1, <3>3, <4>2
    <3> QED BY <3>2, <3>3
  <2> QED BY <2>1, <2>2, <2>3
<1>9. Tiles(new, top, B \cup {b})
  <2> USE DEF t
  <2> QED BY <1>1, <1>5, <1>6, <1>7, <1>8 DEF Tiles
<1> QED BY <1>4, <1>9

Joined(hdr, new, B, a, b) ==
    /\ \A c \in B : hdr[c].size \in Nat
    /\ a \in B /\ b \in B /\ b = a + hdr[a].size
    /\ new[a].size = hdr[a].size + hdr[b].size
    /\ \A c \in B \ {a, b} : new[c].size = hdr[c].size

(* Two neighbours taken together leave a tiling (coalesce,                 *)
(* sfmm.c:186-197).                                                        *)
LEMMA MergeTiles ==
  ASSUME NEW hdr, NEW new, NEW top \in Nat, NEW B, Tiles(hdr, top, B),
         NEW a, NEW b, Joined(hdr, new, B, a, b)
  PROVE  Tiles(new, top, B \ {b})
<1> USE DEF Joined
<1> DEFINE s(c) == hdr[c].size
           t(c) == new[c].size
<1>1. /\ B \subseteq 0 .. top - 1 /\ (top # 0 => 0 \in B)
      /\ \A c \in B : s(c) \in Nat /\ s(c) >= 2 /\ c + s(c) \in B \cup {top}
      /\ \A x \in B \cup {top} : x # 0 => \E d \in B : d + s(d) = x
      /\ \A x, y \in B : x < y => x + s(x) <= y
  BY DEF Tiles
<1>2. t(a) = s(a) + s(b) /\ b = a + s(a) /\ \A c \in B \ {a, b} : t(c) = s(c)
  OBVIOUS
<1>3. a \in Nat /\ b \in Nat /\ s(a) \in Nat /\ s(b) \in Nat /\ s(a) >= 2 /\ s(b) >= 2
      /\ a < b /\ b < b + s(b)
  <2> HIDE DEF s
  <2> QED BY <1>1, <1>2
<1> HIDE DEF s, t
<1>4. B \ {b} \subseteq 0 .. top - 1 /\ (top # 0 => 0 \in B \ {b})
  <2>1. b # 0
    BY <1>3
  <2> QED BY <1>1, <2>1
<1>5. \A c \in B \ {a, b} : c + s(c) # b
  <2> SUFFICES ASSUME NEW c \in B, c # a, c # b PROVE c + s(c) # b
    OBVIOUS
  <2>1. c \in Nat /\ s(c) \in Nat /\ s(c) >= 2
    BY <1>1
  <2>2. CASE c < a
    <3>1. c + s(c) <= a
      BY <1>1, <2>2
    <3> QED BY <1>3, <2>1, <3>1
  <2>3. CASE a < c
    <3>1. a + s(a) <= c
      BY <1>1, <2>3
    <3> QED BY <1>2, <1>3, <2>1, <3>1
  <2> QED BY <1>3, <2>1, <2>2, <2>3
<1>6. ASSUME NEW c \in B \ {b} PROVE t(c) >= 2 /\ c + t(c) \in (B \ {b}) \cup {top}
  <2>1. CASE c = a
    <3>1. c + t(c) = b + s(b) /\ t(c) >= 2 /\ b + s(b) # b
      BY <1>2, <1>3, <2>1
    <3> QED BY <1>1, <3>1
  <2>2. CASE c # a
    BY <1>1, <1>2, <1>5, <2>2
  <2> QED BY <2>1, <2>2
<1>7. ASSUME NEW x \in (B \ {b}) \cup {top}, x # 0 PROVE \E d \in B \ {b} : d + t(d) = x
  <2>1. PICK d \in B : d + s(d) = x
    BY <1>1, <1>7
  <2>2. x # b
    BY <1>1, <1>3
  <2>3. d # a
    BY <1>2, <2>1, <2>2
  <2>4. CASE d = b
    <3>1. a + t(a) = x
      BY <1>2, <1>3, <2>1, <2>4
    <3> QED BY <1>3, <3>1
  <2>5. CASE d # b
    BY <1>2, <2>1, <2>3, <2>5
  <2> QED BY <2>4, <2>5
<1>8. ASSUME NEW x \in B \ {b}, NEW y \in B \ {b}, x < y PROVE x + t(x) <= y
  <2>1. CASE x = a
    <3>1. b <= y /\ y \in Nat /\ y # b
      BY <1>1, <1>2, <1>8, <2>1
    <3>2. b < y
      BY <1>3, <3>1
    <3>3. b + s(b) <= y
      BY <1>1, <3>2
    <3> QED BY <1>2, <1>3, <2>1, <3>3
  <2>2. CASE x # a
    BY <1>1, <1>2, <1>8, <2>2
  <2> QED BY <2>1, <2>2
<1> QED BY <1>4, <1>6, <1>7, <1>8 DEF Tiles, t

Lengthened(hdr, new, top, B, rows) ==
    /\ \A c \in B : hdr[c].size \in Nat
    /\ rows \in Nat /\ rows >= 2 /\ new[top].size = rows
    /\ \A c \in B : new[c].size = hdr[c].size

(* A block at the end of the heap lengthens the tiling (extendHeap,        *)
(* sfmm.c:216-238).                                                        *)
LEMMA GrowTiles ==
  ASSUME NEW hdr, NEW new, NEW top \in Nat, NEW B, Tiles(hdr, top, B),
         NEW rows, Lengthened(hdr, new, top, B, rows)
  PROVE  Tiles(new, top + rows, B \cup {top}) /\ top \notin B
<1> USE DEF Lengthened
<1> DEFINE s(c) == hdr[c].size
           t(c) == new[c].size
<1>1. /\ B \subseteq 0 .. top - 1 /\ (top # 0 => 0 \in B)
      /\ \A c \in B : s(c) \in Nat /\ s(c) >= 2 /\ c + s(c) \in B \cup {top}
      /\ \A x \in B \cup {top} : x # 0 => \E d \in B : d + s(d) = x
      /\ \A x, y \in B : x < y => x + s(x) <= y
  BY DEF Tiles
<1>2. t(top) = rows /\ \A c \in B : t(c) = s(c)
  OBVIOUS
<1> HIDE DEF s, t
<1>3. top \notin B /\ B \cup {top} \subseteq 0 .. (top + rows) - 1 /\ 0 \in B \cup {top}
  BY <1>1
<1>4. \A c \in B \cup {top} : t(c) >= 2 /\ c + t(c) \in (B \cup {top}) \cup {top + rows}
  BY <1>1, <1>2
<1>5. \A x \in (B \cup {top}) \cup {top + rows} : x # 0 => \E d \in B \cup {top} : d + t(d) = x
  BY <1>1, <1>2
<1>6. ASSUME NEW x \in B \cup {top}, NEW y \in B \cup {top}, x < y PROVE x + t(x) <= y
  <2>1. x \in B /\ t(x) = s(x) /\ x \in Nat /\ s(x) \in Nat
    BY <1>1, <1>2, <1>6
  <2>2. CASE y \in B
    BY <1>1, <1>6, <2>1, <2>2
  <2>3. CASE y = top
    BY <1>1, <2>1, <2>3
  <2> QED BY <2>2, <2>3
<1> QED BY <1>3, <1>4, <1>5, <1>6 DEF Tiles, t

-----------------------------------------------------------------------------
(* The heap: B are its blocks, and F those that are in the lists. *)

Agrees(h, a) ==
    LET t == h.hdr[a]
        f == h.ftr[a + t.size - 1]
    IN  f.alloc = t.alloc /\ f.padded = t.padded /\ f.size = t.size
        /\ t.padded = (Whole(t.size) # f.req)

Fresh(h) == \A r \in Rows : r >= h.brk => h.hdr[r].size = 0 /\ (h.hdr[r].alloc <=> r = Limit)

Paged(h) == h.counter <= MaxPages /\ h.brk = h.counter * PageRows

Listing(h, F) == \A i \in Lists : List(h, i, {a \in F : getListNum(h.hdr[a].size) = i})

Heap(h, B, F) ==
    /\ h \in Memory /\ ~ h.cut /\ ~ h.over
    /\ Tiles(h.hdr, h.brk, B)
    /\ \A a \in B : Agrees(h, a)
    /\ Fresh(h) /\ Paged(h)
    /\ F \subseteq B /\ \A a \in F : ~ h.hdr[a].alloc
    /\ Listing(h, F)

(* The blocks of K have the same tags in both. *)
SameBlocks(h, g, K) ==
    \A c \in K : /\ g.hdr[c] = h.hdr[c]
                 /\ g.ftr[c + h.hdr[c].size - 1] = h.ftr[c + h.hdr[c].size - 1]

(* The types of the tags of a memory. *)
LEMMA MemoryTags ==
  ASSUME NEW h \in Memory, NEW r \in Rows
  PROVE  h.hdr[r] \in Tag /\ h.hdr[r].size \in Nat /\ h.hdr[r].size \in Rows /\ h.hdr[r].alloc \in BOOLEAN
<1>1. h.hdr[r] \in Tag
  BY DEF Memory
<1>2. h.hdr[r].size \in Rows /\ h.hdr[r].alloc \in BOOLEAN
  BY <1>1 DEF Tag
<1> QED BY <1>1, <1>2, RowNumbers

(* Where a block lies. *)
Lies(h, a) ==
    /\ a \in Nat /\ a \in Rows /\ h.hdr[a].size \in Nat /\ h.hdr[a].size \in Rows /\ h.hdr[a].size >= 2
    /\ a + h.hdr[a].size <= h.brk /\ h.brk \in Nat /\ h.brk <= Limit /\ Limit \in Nat
    /\ \A r \in Nat : r <= Limit => r \in Rows

(* A block lies within the heap. *)
LEMMA BlockLies ==
  ASSUME NEW h \in Memory, NEW B, Tiles(h.hdr, h.brk, B), NEW a \in B
  PROVE  Lies(h, a)
<1>1. h.brk \in Nat /\ h.brk <= Limit /\ Limit \in Nat
  BY Limits DEF Memory
<1>2. a \in 0 .. h.brk - 1 /\ h.hdr[a].size >= 2 /\ a + h.hdr[a].size \in B \cup {h.brk}
  BY DEF Tiles
<1>3. a \in Nat /\ a \in 0 .. Limit
  BY <1>1, <1>2
<1>4. a \in Rows
  BY <1>3, RowNumbers
<1>5. h.hdr[a].size \in Nat /\ h.hdr[a].size \in Rows
  BY <1>4, MemoryTags
<1>6. \A x \in B \cup {h.brk} : x <= h.brk
  BY <1>1 DEF Tiles
<1>7. \A r \in Nat : r <= Limit => r \in Rows
  BY <1>1, RowNumbers
<1> QED BY <1>1, <1>2, <1>3, <1>4, <1>5, <1>6, <1>7 DEF Lies

(* What place writes is elsewhere than the other blocks' tags. *)
LEMMA PlaceSame ==
  ASSUME NEW h \in Memory, NEW a \in Rows, NEW rows \in Rows, NEW req \in Nat, NEW alloc \in BOOLEAN,
         NEW K, \A c \in K : c # a /\ c + h.hdr[c].size - 1 # a + rows - 1
  PROVE  SameBlocks(h, place(h, a, rows, req, alloc), K)
<1> DEFINE g == place(h, a, rows, req, alloc)
<1>1. /\ g.hdr = [h.hdr EXCEPT ![a] = Tagged(rows, req, alloc)]
      /\ g.ftr = [h.ftr EXCEPT ![a + rows - 1] = Footed(rows, req, alloc)]
  BY PlaceFields
<1>2. \A r : r # a => g.hdr[r] = h.hdr[r]
  BY <1>1 DEF Memory
<1>3. \A r : r # a + rows - 1 => g.ftr[r] = h.ftr[r]
  BY <1>1 DEF Memory
<1> QED BY <1>2, <1>3 DEF SameBlocks

(* Blocks that stay the same in two steps stay the same. *)
LEMMA SameTrans ==
  ASSUME NEW h, NEW g, NEW k, NEW K, NEW L, SameBlocks(h, g, K), SameBlocks(g, k, L)
  PROVE  SameBlocks(h, k, K \cap L)
BY DEF SameBlocks

(* A heap whose tags are rewritten in blocks that no list holds. *)
Rewritten(h, g, B, C, F, K) ==
    /\ g \in Memory /\ SameLists(h, g) /\ ~ g.cut /\ ~ g.over
    /\ Tiles(g.hdr, g.brk, C) /\ Fresh(g) /\ Paged(g)
    /\ K \subseteq B /\ K \subseteq C /\ F \subseteq K /\ SameBlocks(h, g, K)
    /\ \A c \in C \ K : Agrees(g, c)

(* Tags that stay the same agree still. *)
LEMMA SameAgrees ==
  ASSUME NEW h, NEW g, NEW c, Agrees(h, c), g.hdr[c] = h.hdr[c],
         g.ftr[c + h.hdr[c].size - 1] = h.ftr[c + h.hdr[c].size - 1]
  PROVE  Agrees(g, c)
BY DEF Agrees

(* A memory rewritten in the blocks that no list holds is a heap again. *)
LEMMA Retiled ==
  ASSUME NEW h, NEW B, NEW F, Heap(h, B, F), NEW g, NEW C, NEW K, Rewritten(h, g, B, C, F, K)
  PROVE  Heap(g, C, F)
<1> USE DEF Rewritten
<1>1. \A c \in K : Agrees(g, c)
  <2> SUFFICES ASSUME NEW c \in K PROVE Agrees(g, c)
    OBVIOUS
  <2>1. Agrees(h, c)
    BY DEF Heap
  <2>2. g.hdr[c] = h.hdr[c] /\ g.ftr[c + h.hdr[c].size - 1] = h.ftr[c + h.hdr[c].size - 1]
    BY DEF SameBlocks
  <2> QED BY <2>1, <2>2, SameAgrees
<1>2. \A c \in F : g.hdr[c] = h.hdr[c] /\ ~ g.hdr[c].alloc
  BY DEF Heap, SameBlocks
<1>3. Listing(g, F)
  <2> SUFFICES ASSUME NEW i \in Lists PROVE List(g, i, {a \in F : getListNum(g.hdr[a].size) = i})
    BY DEF Listing
  <2> DEFINE S == {a \in F : getListNum(h.hdr[a].size) = i}
  <2>1. S = {a \in F : getListNum(g.hdr[a].size) = i}
    BY <1>2
  <2>2. List(h, i, S)
    BY DEF Heap, Listing
  <2>3. g.head = h.head /\ g.next = h.next /\ g.prev = h.prev
    BY DEF SameLists
  <2> HIDE DEF S
  <2>4. List(g, i, S)
    BY <2>2, <2>3, ListFrame
  <2> QED BY <2>1, <2>4
<1> QED BY <1>1, <1>2, <1>3 DEF Heap

(* The tags of a say that it has that many rows. *)
Says(g, a, rows, req, alloc) ==
    /\ g.hdr[a] = Tagged(rows, req, alloc)
    /\ g.ftr[a + rows - 1] = Footed(rows, req, alloc)

(* g is h with those tags written. *)
Placed(h, g, a, rows, req, alloc) ==
    /\ g \in Memory /\ SameLists(h, g) /\ SameRest(h, g)
    /\ Says(g, a, rows, req, alloc)
    /\ \A r : r # a => g.hdr[r] = h.hdr[r]
    /\ \A r : r # a + rows - 1 => g.ftr[r] = h.ftr[r]

(* What place does to a memory. *)
LEMMA PlaceWrites ==
  ASSUME NEW h \in Memory, NEW a \in Rows, NEW rows \in Rows, a + rows - 1 \in Rows,
         NEW req \in Nat, NEW alloc \in BOOLEAN
  PROVE  Placed(h, place(h, a, rows, req, alloc), a, rows, req, alloc)
<1> DEFINE g == place(h, a, rows, req, alloc)
<1>1. /\ g \in Memory /\ SameLists(h, g) /\ SameRest(h, g)
      /\ g.hdr = [h.hdr EXCEPT ![a] = Tagged(rows, req, alloc)]
      /\ g.ftr = [h.ftr EXCEPT ![a + rows - 1] = Footed(rows, req, alloc)]
  BY PlaceFields
<1> HIDE DEF g
<1>2. g.hdr[a] = Tagged(rows, req, alloc) /\ \A r : r # a => g.hdr[r] = h.hdr[r]
  BY <1>1 DEF Memory
<1>3. /\ g.ftr[a + rows - 1] = Footed(rows, req, alloc)
      /\ \A r : r # a + rows - 1 => g.ftr[r] = h.ftr[r]
  BY <1>1 DEF Memory
<1> QED BY <1>1, <1>2, <1>3 DEF Placed, Says, g

(* The tags it writes agree. *)
LEMMA PlacedAgrees ==
  ASSUME NEW g, NEW a, NEW rows, NEW req, NEW alloc, Says(g, a, rows, req, alloc)
  PROVE  Agrees(g, a) /\ g.hdr[a].size = rows /\ g.hdr[a].alloc = alloc
<1>1. g.hdr[a].size = rows /\ g.hdr[a].alloc = alloc
  BY DEF Says, Tagged
<1> QED BY <1>1 DEF Agrees, Says, Tagged, Footed

(* The break and the counter, when nothing moves them. *)
LEMMA RestStays ==
  ASSUME NEW h, NEW g, SameRest(h, g), Paged(h)
  PROVE  Paged(g) /\ g.brk = h.brk
BY DEF SameRest, Paged

(* A block that no list holds is tagged anew. *)
LEMMA HeapRetag ==
  ASSUME NEW h, NEW B, NEW F, Heap(h, B, F), NEW a \in B, a \notin F,
         NEW req \in Nat, NEW alloc \in BOOLEAN,
         NEW g, g = place(h, a, h.hdr[a].size, req, alloc)
  PROVE  /\ Heap(g, B, F) /\ SameBlocks(h, g, B \ {a})
         /\ Placed(h, g, a, h.hdr[a].size, req, alloc)
<1> DEFINE rows == h.hdr[a].size
<1>1. h \in Memory /\ Tiles(h.hdr, h.brk, B) /\ Fresh(h) /\ Paged(h) /\ F \subseteq B /\ ~ h.cut /\ ~ h.over
  BY DEF Heap
<1>2. \A c \in B : Lies(h, c)
  BY <1>1, BlockLies
<1>3. rows \in Rows /\ a \in Rows /\ a + rows - 1 \in Rows
  BY <1>2 DEF Lies
<1>4. Placed(h, g, a, rows, req, alloc)
  BY <1>1, <1>3, PlaceWrites
<1>5. \A c \in B \ {a} : c # a /\ c + h.hdr[c].size - 1 # a + rows - 1
  <2> SUFFICES ASSUME NEW c \in B, c # a PROVE c + h.hdr[c].size - 1 # a + rows - 1
    OBVIOUS
  <2>1. (a < c => a + rows <= c) /\ (c < a => c + h.hdr[c].size <= a)
    BY <1>1 DEF Tiles
  <2>2. a \in Nat /\ rows \in Nat /\ rows >= 2 /\ c \in Nat /\ h.hdr[c].size \in Nat /\ h.hdr[c].size >= 2
    BY <1>2 DEF Lies
  <2> HIDE DEF rows
  <2> QED BY <2>1, <2>2
<1> HIDE DEF rows
<1>6. SameBlocks(h, g, B \ {a})
  BY <1>4, <1>5 DEF Placed, SameBlocks
<1>7. Agrees(g, a)
  BY <1>4, PlacedAgrees DEF Placed
<1>8. g.brk = h.brk /\ Paged(g) /\ ~ g.cut /\ ~ g.over
  BY <1>1, <1>4, RestStays DEF Placed, SameRest
<1>9. Tiles(g.hdr, g.brk, B)
  <2>1. \A c \in B : g.hdr[c].size = h.hdr[c].size
    BY <1>4, PlacedAgrees DEF Placed, rows
  <2> QED BY <1>1, <1>8, <2>1 DEF Tiles
<1>10. Fresh(g)
  <2>1. \A r \in Rows : r >= h.brk => r # a
    BY <1>2, RowNumbers DEF Lies
  <2> QED BY <1>1, <1>4, <1>8, <2>1 DEF Fresh, Placed
<1>11. B \ {a} \subseteq B /\ F \subseteq B \ {a} /\ \A c \in B \ (B \ {a}) : c = a
  BY <1>1
<1>12. g \in Memory /\ SameLists(h, g)
  BY <1>4 DEF Placed
<1>13. Rewritten(h, g, B, B, F, B \ {a})
  BY <1>6, <1>7, <1>8, <1>9, <1>10, <1>11, <1>12 DEF Rewritten
<1>14. Heap(g, B, F)
  BY <1>13, Retiled
<1> QED BY <1>4, <1>6, <1>14 DEF rows

(* It is split in two. *)
Splits(h, a, need, req, alloc, other, b, rest, e, g) ==
    /\ need \in Nat /\ need >= 2 /\ need + 2 <= h.hdr[a].size /\ req \in Nat
    /\ b = a + need /\ rest = h.hdr[a].size - need
    /\ e = place(h, a, need, req, alloc)
    /\ g = place(e, b, rest, Whole(rest), other)

(* A block is cut in two, and both parts are tagged. *)
LEMMA HeapSplit ==
  ASSUME NEW h, NEW B, NEW F, Heap(h, B, F), NEW a \in B, a \notin F,
         NEW need, NEW req, NEW alloc \in BOOLEAN, NEW other \in BOOLEAN,
         NEW b, NEW rest, NEW e, NEW g, Splits(h, a, need, req, alloc, other, b, rest, e, g)
  PROVE  /\ Heap(g, B \cup {b}, F) /\ b \notin B
         /\ SameBlocks(h, g, B \ {a}) /\ SameRest(h, g)
         /\ Placed(h, e, a, need, req, alloc)
         /\ Says(g, a, need, req, alloc) /\ Says(g, b, rest, Whole(rest), other)
<1>0. /\ need \in Nat /\ need >= 2 /\ need + 2 <= h.hdr[a].size /\ req \in Nat
      /\ b = a + need /\ rest = h.hdr[a].size - need
      /\ e = place(h, a, need, req, alloc) /\ g = place(e, b, rest, Whole(rest), other)
  BY DEF Splits
<1>1. h \in Memory /\ Tiles(h.hdr, h.brk, B) /\ Fresh(h) /\ Paged(h) /\ F \subseteq B /\ ~ h.cut /\ ~ h.over
  BY DEF Heap
<1>2. \A c \in B : Lies(h, c)
  BY <1>1, BlockLies
<1> DEFINE size == h.hdr[a].size
<1>3. /\ a \in Nat /\ size \in Nat /\ rest \in Nat /\ rest >= 2 /\ need + rest = size
      /\ a + size <= h.brk /\ h.brk \in Nat /\ h.brk <= Limit /\ Limit \in Nat
      /\ \A r \in Nat : r <= Limit => r \in Rows
  <2>1. Lies(h, a)
    BY <1>2
  <2>2. /\ a \in Nat /\ size \in Nat
        /\ a + size <= h.brk /\ h.brk \in Nat /\ h.brk <= Limit /\ Limit \in Nat
        /\ \A r \in Nat : r <= Limit => r \in Rows
    BY <2>1 DEF Lies
  <2>3. rest = size - need /\ need + 2 <= size /\ need \in Nat
    BY <1>0
  <2> HIDE DEF size
  <2> QED BY <2>2, <2>3
<1> HIDE DEF size
<1>4. /\ a \in Rows /\ need \in Rows /\ a + need - 1 \in Rows
      /\ b \in Rows /\ rest \in Rows /\ b + rest - 1 \in Rows
      /\ b # a /\ a + need - 1 # b + rest - 1 /\ b < h.brk /\ a < h.brk
  <2>1. /\ a \in Nat /\ need \in Nat /\ a + need - 1 \in Nat /\ b \in Nat /\ b + rest - 1 \in Nat
        /\ a <= Limit /\ need <= Limit /\ a + need - 1 <= Limit
        /\ b <= Limit /\ rest <= Limit /\ b + rest - 1 <= Limit
    BY <1>0, <1>3
  <2>2. b # a /\ a + need - 1 # b + rest - 1 /\ b < h.brk /\ a < h.brk
    BY <1>0, <1>3
  <2> QED BY <1>3, <2>1, <2>2
<1>5. Placed(h, e, a, need, req, alloc)
  BY <1>0, <1>1, <1>4, PlaceWrites
<1>6. Placed(e, g, b, rest, Whole(rest), other)
  <2>1. e \in Memory
    BY <1>5 DEF Placed
  <2>2. Whole(rest) \in Nat
    BY <1>3 DEF Whole, ROW
  <2> QED BY <1>0, <1>4, <2>1, <2>2, PlaceWrites
<1>7. /\ g \in Memory /\ SameLists(h, g) /\ SameRest(h, g)
      /\ Says(g, a, need, req, alloc) /\ Says(g, b, rest, Whole(rest), other)
  BY <1>4, <1>5, <1>6 DEF Placed, Says, SameLists, SameRest
<1>8. /\ \A r : r # a /\ r # b => g.hdr[r] = h.hdr[r]
      /\ \A r : r # a + need - 1 /\ r # b + rest - 1 => g.ftr[r] = h.ftr[r]
  BY <1>5, <1>6 DEF Placed
<1>9. Tiles(g.hdr, h.brk, B \cup {b}) /\ b \notin B
  <2>1. g.hdr[a].size = need /\ g.hdr[b].size = rest
    BY <1>7, PlacedAgrees
  <2>2. \A c \in B : h.hdr[c].size \in Nat
    BY <1>2 DEF Lies
  <2>3. b \notin B
    <3>1. \A c \in B : a < c => a + size <= c
      BY <1>1 DEF Tiles, size
    <3> QED BY <1>0, <1>3, <3>1
  <2>4. \A c \in B \ {a} : g.hdr[c].size = h.hdr[c].size
    <3> SUFFICES ASSUME NEW c \in B, c # a PROVE g.hdr[c] = h.hdr[c]
      OBVIOUS
    <3>1. c # b
      BY <2>3, Zenon
    <3> QED BY <1>8, <3>1
  <2>5. Halved(h.hdr, g.hdr, B, a, b, need)
    BY <1>0, <2>1, <2>2, <2>4 DEF Halved
  <2> QED BY <1>0, <1>1, <1>3, <2>5, SplitTiles DEF size
<1>10. \A c \in B \ {a} : /\ c # a /\ c # b
                          /\ c + h.hdr[c].size - 1 # a + need - 1
                          /\ c + h.hdr[c].size - 1 # b + rest - 1
  <2> SUFFICES ASSUME NEW c \in B, c # a
               PROVE  /\ c + h.hdr[c].size - 1 # a + need - 1
                      /\ c + h.hdr[c].size - 1 # b + rest - 1
    BY <1>9
  <2> DEFINE s == h.hdr[c].size
  <2>1. (a < c => a + size <= c) /\ (c < a => c + s <= a)
    BY <1>1 DEF Tiles, size
  <2>2. c \in Nat /\ s \in Nat /\ s >= 2
    BY <1>2 DEF Lies
  <2> HIDE DEF s
  <2>3. c + s - 1 # a + need - 1 /\ c + s - 1 # b + rest - 1
    BY <1>0, <1>3, <2>1, <2>2
  <2> QED BY <2>3 DEF s
<1>11. SameBlocks(h, g, B \ {a})
  BY <1>8, <1>10 DEF SameBlocks
<1>12. Agrees(g, a) /\ Agrees(g, b)
  BY <1>7, PlacedAgrees
<1>13. g.brk = h.brk /\ Paged(g) /\ ~ g.cut /\ ~ g.over
  BY <1>1, <1>7, RestStays DEF SameRest
<1>14. Fresh(g)
  <2>1. \A r \in Rows : r >= h.brk => r # a /\ r # b
    BY <1>3, <1>4, RowNumbers
  <2> QED BY <1>1, <1>8, <1>13, <2>1 DEF Fresh
<1>15. /\ B \ {a} \subseteq B /\ B \ {a} \subseteq B \cup {b} /\ F \subseteq B \ {a}
       /\ \A c \in (B \cup {b}) \ (B \ {a}) : c = a \/ c = b
  BY <1>1
<1>16. Tiles(g.hdr, g.brk, B \cup {b})
  BY <1>9, <1>13
<1>17. Rewritten(h, g, B, B \cup {b}, F, B \ {a})
  BY <1>7, <1>11, <1>12, <1>13, <1>14, <1>15, <1>16 DEF Rewritten
<1>18. Heap(g, B \cup {b}, F)
  BY <1>17, Retiled
<1> QED BY <1>5, <1>7, <1>9, <1>11, <1>18

(* Two are merged. *)
LEMMA HeapMerge ==
  ASSUME NEW h, NEW B, NEW F, Heap(h, B, F), NEW a \in B, a \notin F, NEW b \in B, b \notin F,
         b = a + h.hdr[a].size, NEW g, g = coalesce(h, a, b)
  PROVE  /\ Heap(g, B \ {b}, F) /\ SameBlocks(h, g, B \ {a, b}) /\ SameRest(h, g) /\ b # a
         /\ g.hdr[a].size = h.hdr[a].size + h.hdr[b].size /\ ~ g.hdr[a].alloc
<1> DEFINE size == h.hdr[a].size
           more == h.hdr[b].size
           rows == size + more
<1>1. h \in Memory /\ Tiles(h.hdr, h.brk, B) /\ Fresh(h) /\ Paged(h) /\ F \subseteq B /\ ~ h.cut /\ ~ h.over
  BY DEF Heap
<1>2. \A c \in B : Lies(h, c)
  BY <1>1, BlockLies
<1>3. /\ a \in Nat /\ size \in Nat /\ size >= 2 /\ b = a + size
      /\ b \in Nat /\ more \in Nat /\ more >= 2 /\ b + more <= h.brk
      /\ h.brk \in Nat /\ h.brk <= Limit /\ Limit \in Nat
      /\ \A r \in Nat : r <= Limit => r \in Rows
  BY <1>2 DEF Lies
<1> HIDE DEF size, more
<1>4. /\ a \in Rows /\ rows \in Rows /\ a + rows - 1 \in Rows /\ b # a /\ a < h.brk
      /\ rows \in Nat /\ rows = size + more
  <2>1. /\ a <= Limit /\ rows \in Nat /\ rows <= Limit /\ a + rows - 1 \in Nat /\ a + rows - 1 <= Limit
        /\ b # a /\ a < h.brk
    BY <1>3
  <2> QED BY <1>3, <2>1
<1>5. g = place(h, a, rows, Whole(rows), FALSE)
  BY DEF coalesce, size, more
<1> HIDE DEF rows
<1>6. Placed(h, g, a, rows, Whole(rows), FALSE)
  <2>1. rows >= 1
    BY <1>3, <1>4
  <2>2. Whole(rows) \in Nat
    BY <1>4, <2>1 DEF Whole, ROW
  <2> QED BY <1>1, <1>4, <1>5, <2>2, PlaceWrites
<1>7. g.hdr[a].size = rows /\ ~ g.hdr[a].alloc
  BY <1>6 DEF Placed, Says, Tagged
<1>8. \A c \in B \ {a, b} : c + h.hdr[c].size - 1 # a + rows - 1
  <2> SUFFICES ASSUME NEW c \in B, c # a, c # b PROVE c + h.hdr[c].size - 1 # a + rows - 1
    OBVIOUS
  <2> DEFINE s == h.hdr[c].size
  <2>1. /\ a < c => a + size <= c
        /\ b < c => b + more <= c
        /\ c < a => c + s <= a
    BY <1>1 DEF Tiles, size, more
  <2>2. c \in Nat /\ s \in Nat /\ s >= 2
    BY <1>2 DEF Lies
  <2> HIDE DEF s
  <2>3. c + s - 1 # a + rows - 1
    BY <1>3, <1>4, <2>1, <2>2
  <2> QED BY <2>3 DEF s
<1>9. SameBlocks(h, g, B \ {a, b})
  BY <1>6, <1>8 DEF Placed, SameBlocks
<1>10. Agrees(g, a)
  BY <1>6, PlacedAgrees DEF Placed
<1>11. g.brk = h.brk /\ Paged(g) /\ ~ g.cut /\ ~ g.over
  BY <1>1, <1>6, RestStays DEF Placed, SameRest
<1>12. Tiles(g.hdr, g.brk, B \ {b})
  <2>1. \A c \in B : h.hdr[c].size \in Nat
    BY <1>2 DEF Lies
  <2>2. \A c \in B \ {a, b} : g.hdr[c].size = h.hdr[c].size
    BY <1>6 DEF Placed
  <2>3. g.hdr[a].size = h.hdr[a].size + h.hdr[b].size /\ b = a + h.hdr[a].size
    BY <1>4, <1>7 DEF size, more
  <2>4. Joined(h.hdr, g.hdr, B, a, b)
    BY <2>1, <2>2, <2>3 DEF Joined
  <2> QED BY <1>1, <1>3, <1>11, <2>4, MergeTiles
<1>13. Fresh(g)
  <2>1. \A r \in Rows : r >= h.brk => r # a
    BY <1>3, <1>4, RowNumbers
  <2> QED BY <1>1, <1>6, <1>11, <2>1 DEF Fresh, Placed
<1>14. /\ B \ {a, b} \subseteq B /\ B \ {a, b} \subseteq B \ {b} /\ F \subseteq B \ {a, b}
       /\ \A c \in (B \ {b}) \ (B \ {a, b}) : c = a
  BY <1>1
<1>15. g \in Memory /\ SameLists(h, g) /\ SameRest(h, g)
  BY <1>6 DEF Placed
<1>16. Rewritten(h, g, B, B \ {b}, F, B \ {a, b})
  BY <1>9, <1>10, <1>11, <1>12, <1>13, <1>14, <1>15 DEF Rewritten
<1>17. Heap(g, B \ {b}, F)
  BY <1>16, Retiled
<1> QED BY <1>4, <1>7, <1>9, <1>15, <1>17 DEF size, more

(* Pages are added at its end. *)
Span(n) == n * PageRows
Grows(h, n, a, rows, g) ==
    /\ n \in Nat /\ n # 0 /\ h.counter + n <= MaxPages
    /\ a = h.brk /\ rows = Span(n)
    /\ g = place(sf_sbrk(h, n), a, rows, Whole(rows), FALSE)

Grown(h, a, rows, B, F, g) ==
    /\ Heap(g, B \cup {a}, F) /\ a \notin B /\ SameBlocks(h, g, B) /\ g.run = h.run
    /\ g.hdr[a].size = rows /\ ~ g.hdr[a].alloc /\ g.brk = a + rows

(* The heap is lengthened by a free block, which no list holds yet. *)
LEMMA HeapGrow ==
  ASSUME NEW h, NEW B, NEW F, Heap(h, B, F), NEW n, NEW a, NEW rows, NEW g, Grows(h, n, a, rows, g)
  PROVE  Grown(h, a, rows, B, F, g)
<1> DEFINE e == sf_sbrk(h, n)
<1>1. h \in Memory /\ Tiles(h.hdr, a, B) /\ Fresh(h) /\ Paged(h) /\ F \subseteq B /\ ~ h.cut /\ ~ h.over
  BY DEF Heap, Grows
<1>0. n \in Nat /\ n # 0 /\ h.counter + n <= MaxPages /\ a = h.brk /\ rows = Span(n)
  BY DEF Grows
<1>2. /\ rows \in Nat /\ rows >= 2 /\ a \in Nat /\ a + rows <= Limit /\ Limit \in Nat
      /\ a = h.counter * PageRows /\ a + rows = (h.counter + n) * PageRows
      /\ h.counter \in Nat /\ MaxPages \in Nat
  <2>1. h.counter \in Nat /\ PageRows \in Nat /\ PageRows >= 2 /\ MaxPages \in Nat
    BY <1>1, PageIsRows, SizesAssumption DEF Memory
  <2>2. a = h.counter * PageRows
    BY <1>0, <1>1 DEF Paged
  <2>3. a \in Nat /\ rows \in Nat /\ a + rows = (h.counter + n) * PageRows
    BY <1>0, <2>1, <2>2 DEF Span
  <2>4. rows >= 2
    BY <1>0, <2>1 DEF Span
  <2>5. (h.counter + n) * PageRows <= MaxPages * PageRows
    <3> DEFINE k == h.counter + n
    <3>1. k \in Nat /\ k <= MaxPages
      BY <1>0, <2>1
    <3> HIDE DEF k
    <3>2. k * PageRows <= MaxPages * PageRows
      BY <2>1, <3>1
    <3> QED BY <3>2 DEF k
  <2> QED BY <2>1, <2>2, <2>3, <2>4, <2>5, Limits DEF Limit
<1>3. /\ e \in Memory /\ e.hdr = h.hdr /\ e.ftr = h.ftr /\ SameLists(h, e) /\ e.run = h.run
      /\ e.counter = h.counter + n /\ e.brk = a + rows /\ ~ e.over /\ ~ e.cut
  <2>1. ~ (h.counter + n > MaxPages) /\ ~ (h.brk + n * PageRows > MaxPages * PageRows)
    BY <1>0, <1>2 DEF Limit, Span
  <2>2. e = [h EXCEPT !.counter = h.counter + n, !.brk = a + rows, !.errno = h.errno, !.over = FALSE]
    <3>1. (h.over \/ h.counter + n > MaxPages) = FALSE
      BY <1>1, <2>1
    <3> QED BY <1>0, <1>1, <2>1, <3>1 DEF sf_sbrk, Memory, Span
  <2>3. h.counter + n \in Nat /\ a + rows \in 0 .. Limit
    BY <1>0, <1>2
  <2>4. e \in Memory
    BY <1>1, <2>2, <2>3 DEF Memory
  <2> QED BY <1>1, <2>2, <2>4 DEF Memory, SameLists
<1> HIDE DEF e
<1>4. a \in Rows /\ rows \in Rows /\ a + rows - 1 \in Rows
  <2>1. a \in 0 .. Limit /\ rows \in 0 .. Limit /\ a + rows - 1 \in 0 .. Limit
    BY <1>2
  <2> QED BY <2>1, RowNumbers
<1>5. Placed(e, g, a, rows, Whole(rows), FALSE)
  <2>1. Whole(rows) \in Nat
    BY <1>2 DEF Whole, ROW
  <2>2. g = place(e, a, rows, Whole(rows), FALSE)
    BY DEF e, Grows
  <2> QED BY <1>3, <1>4, <2>1, <2>2, PlaceWrites
<1>6. \A c \in B : Lies(h, c) /\ c < a
  <2>1. \A c \in B : Lies(h, c)
    BY <1>0, <1>1, BlockLies
  <2> QED BY <1>0, <1>1, <2>1 DEF Lies, Tiles
<1>7. /\ g \in Memory /\ SameLists(h, g) /\ ~ g.cut /\ ~ g.over /\ g.run = h.run
      /\ g.counter = h.counter + n /\ g.brk = a + rows
      /\ \A r : r # a => g.hdr[r] = h.hdr[r]
      /\ \A r : r # a + rows - 1 => g.ftr[r] = h.ftr[r]
  <2>1. g \in Memory /\ SameLists(e, g) /\ SameRest(e, g)
    BY <1>5 DEF Placed
  <2>2. /\ \A r : r # a => g.hdr[r] = e.hdr[r]
        /\ \A r : r # a + rows - 1 => g.ftr[r] = e.ftr[r]
    BY <1>5 DEF Placed
  <2>3. SameLists(h, g)
    BY <1>3, <2>1 DEF SameLists
  <2> QED BY <1>3, <2>1, <2>2, <2>3 DEF SameRest
<1>8. g.hdr[a].size = rows /\ ~ g.hdr[a].alloc
  <2>1. Says(g, a, rows, Whole(rows), FALSE)
    BY <1>5 DEF Placed
  <2>2. g.hdr[a] = Tagged(rows, Whole(rows), FALSE)
    BY <2>1 DEF Says
  <2> QED BY <2>2, TagFields
<1>9. SameBlocks(h, g, B)
  <2>1. \A c \in B : c # a /\ c + h.hdr[c].size - 1 # a + rows - 1
    BY <1>0, <1>2, <1>6 DEF Lies
  <2> QED BY <1>7, <2>1 DEF SameBlocks
<1>10. Tiles(g.hdr, g.brk, B \cup {a}) /\ a \notin B
  <2>1. Lengthened(h.hdr, g.hdr, a, B, rows)
    <3>1. \A c \in B : h.hdr[c].size \in Nat /\ c # a
      BY <1>2, <1>6 DEF Lies
    <3>2. \A c \in B : g.hdr[c].size = h.hdr[c].size
      BY <1>7, <3>1
    <3> QED BY <1>2, <1>8, <3>1, <3>2 DEF Lengthened
  <2>2. Tiles(g.hdr, a + rows, B \cup {a}) /\ a \notin B
    BY <1>1, <1>2, <2>1, GrowTiles
  <2> QED BY <1>7, <2>2
<1>11. Fresh(g)
  <2>1. \A r \in Rows : r >= g.brk => r >= h.brk /\ r # a
    <3>1. \A r \in Rows : r \in Nat
      BY RowNumbers
    <3>2. g.brk = a + rows /\ h.brk = a
      BY <1>0, <1>7
    <3>3. a \in Nat /\ rows \in Nat /\ rows >= 2
      BY <1>2
    <3> QED BY <3>1, <3>2, <3>3
  <2> QED BY <1>1, <1>7, <2>1 DEF Fresh
<1>12. Paged(g)
  BY <1>0, <1>2, <1>7 DEF Paged
<1>13. Agrees(g, a)
  BY <1>5, PlacedAgrees DEF Placed
<1>14. B \subseteq B \cup {a} /\ \A c \in (B \cup {a}) \ B : c = a
  OBVIOUS
<1>15. Rewritten(h, g, B, B \cup {a}, F, B)
  BY <1>1, <1>7, <1>9, <1>10, <1>11, <1>12, <1>13, <1>14 DEF Rewritten
<1>16. Heap(g, B \cup {a}, F)
  BY <1>15, Retiled
<1> QED BY <1>7, <1>8, <1>9, <1>10, <1>16 DEF Grown

-----------------------------------------------------------------------------
(* Taking blocks out of the lists and putting them in. *)

Sized(h, F, i) == {b \in F : getListNum(h.hdr[b].size) = i}

(* A list without a head is empty. *)
LEMMA ListHead ==
  ASSUME NEW h, NEW i, NEW S, List(h, i, S)
  PROVE  h.head[i] \in S \cup {NULL}
<1>1. PICK n, f : Numbered(S, n, f) /\ Chained(h, i, n, f)
  BY DEF List
<1>2. n # 0 => f[1] \in S
  BY <1>1 DEF Numbered
<1> QED BY <1>1, <1>2 DEF Chained

SameTags(h, g) == g.hdr = h.hdr /\ g.ftr = h.ftr /\ g.brk = h.brk /\ g.counter = h.counter

(* A free block leaves its list, or the list is cut there (delBlkInList,   *)
(* sfmm.c:93-134).                                                         *)
LEMMA HeapUnlist ==
  ASSUME NEW h, NEW B, NEW F, Heap(h, B, F), NEW a \in F, NEW g, g = delBlkInList(h, a)
  PROVE  /\ g \in Memory /\ SameTags(h, g) /\ g.run = h.run /\ g.errno = h.errno /\ g.over = h.over
         /\ ~ g.cut => Heap(g, B, F \ {a})
<1> DEFINE i == getListNum(h.hdr[a].size)
           S == Sized(h, F, i)
<1>1. h \in Memory /\ Tiles(h.hdr, h.brk, B) /\ F \subseteq B /\ ~ h.cut /\ ~ h.over /\ Listing(h, F)
  BY DEF Heap
<1>2. \A b \in F : /\ b \in Rows /\ b \in 0 .. Limit - 1 /\ b < h.brk /\ b # NULL
                   /\ h.hdr[b].size \in Nat
  <2> SUFFICES ASSUME NEW b \in F
               PROVE  /\ b \in Rows /\ b \in 0 .. Limit - 1 /\ b < h.brk /\ b # NULL
                      /\ h.hdr[b].size \in Nat
    OBVIOUS
  <2>1. Lies(h, b)
    BY <1>1, BlockLies
  <2>2. b \in Rows /\ b \in 0 .. Limit - 1 /\ b < h.brk /\ h.hdr[b].size \in Nat
    BY <2>1 DEF Lies
  <2> QED BY <2>2, NullIsNoRow
<1>3. i \in Lists
  BY <1>2, GetListNum
<1>4. \A j \in Lists : List(h, j, Sized(h, F, j))
  BY <1>1 DEF Listing, Sized
<1>5. a \in S /\ \A j \in Lists : Sized(h, F, j) \subseteq F
  BY DEF Sized
<1>6. g = Unlink(h, a, i)
  <2>1. ~ Outside(h, a)
    <3>1. h.brk \in Nat /\ a \in Nat
      BY <1>1, <1>2, Limits DEF Memory
    <3> QED BY <1>2, <3>1 DEF Outside
  <2>2. h.head \in [Lists -> Link] /\ h.next \in [Rows -> Link]
    BY <1>1 DEF Memory
  <2>3. List(h, i, S) /\ S \subseteq 0 .. Limit - 1
    BY <1>2, <1>3, <1>4, <1>5
  <2>4. Nodes(h, i) = S
    BY <1>3, <2>2, <2>3, ListNodes
  <2> QED BY <1>5, <2>1, <2>4 DEF delBlkInList
<1> HIDE DEF i, S
<1>7. S = Sized(h, F, i) /\ List(h, i, S) /\ S \subseteq Rows
  BY <1>2, <1>3, <1>4, <1>5 DEF S
<1>8. /\ g \in Memory /\ g.hdr = h.hdr /\ g.ftr = h.ftr
      /\ g.errno = h.errno /\ g.counter = h.counter /\ g.brk = h.brk
      /\ g.run = h.run /\ g.over = h.over
      /\ ~ g.cut => 
              /\ g.head = [h.head EXCEPT ![i] = IF h.prev[a] = NULL THEN h.next[a] ELSE h.head[i]]
              /\ \A b \in Rows \ {a} :
                    /\ g.next[b] = IF b = h.prev[a] THEN h.next[a] ELSE h.next[b]
                    /\ g.prev[b] = IF b = h.next[a] THEN h.prev[a] ELSE h.prev[b]
  BY <1>1, <1>3, <1>5, <1>6, <1>7, UnlinkFields
<1>9. ASSUME ~ g.cut PROVE Listing(g, F \ {a})
  <2> SUFFICES ASSUME NEW j \in Lists PROVE List(g, j, {b \in F \ {a} : getListNum(g.hdr[b].size) = j})
    BY DEF Listing
  <2> DEFINE T == Sized(h, F, j)
  <2>1. {b \in F \ {a} : getListNum(g.hdr[b].size) = j} = T \ {a}
    BY <1>8 DEF Sized
  <2>2. /\ g.head = [h.head EXCEPT ![i] = IF h.prev[a] = NULL THEN h.next[a] ELSE h.head[i]]
        /\ \A b \in Rows \ {a} :
              /\ g.next[b] = IF b = h.prev[a] THEN h.next[a] ELSE h.next[b]
              /\ g.prev[b] = IF b = h.next[a] THEN h.prev[a] ELSE h.prev[b]
    BY <1>8, <1>9
  <2>3. CASE j = i
    <3>1. g.head[i] = IF h.prev[a] = NULL THEN h.next[a] ELSE h.head[i]
      BY <1>1, <1>3, <2>2 DEF Memory
    <3>2. \A b \in S \ {a} :
              /\ g.next[b] = IF b = h.prev[a] THEN h.next[a] ELSE h.next[b]
              /\ g.prev[b] = IF b = h.next[a] THEN h.prev[a] ELSE h.prev[b]
      BY <1>7, <2>2
    <3>3. List(g, i, S \ {a})
      BY <1>3, <1>5, <1>7, <3>1, <3>2, ListDrop
    <3> QED BY <2>1, <2>3, <3>3, <1>7
  <2>4. CASE j # i
    <3>1. Between(h, i, S, a)
      BY <1>3, <1>5, <1>7, ListLinks
    <3>2. \A b \in T : b \notin S /\ b \in Rows /\ b # NULL
      BY <1>2, <1>7, <2>4 DEF Sized
    <3>3. a \in S
      BY <1>5 DEF S
    <3>4. \A b \in T : b # a /\ b # h.prev[a] /\ b # h.next[a]
      BY <3>1, <3>2, <3>3 DEF Between
    <3>5. \A b \in T : g.next[b] = h.next[b] /\ g.prev[b] = h.prev[b]
      BY <2>2, <3>2, <3>4
    <3>6. g.head[j] = h.head[j]
      BY <1>1, <2>2, <2>4 DEF Memory
    <3>7. List(h, j, T)
      BY <1>4
    <3> HIDE DEF T
    <3>8. List(g, j, T)
      BY <3>5, <3>6, <3>7, ListFrame
    <3>9. T \ {a} = T
      BY <3>4
    <3> QED BY <2>1, <3>8, <3>9
  <2> QED BY <2>3, <2>4
<1>10. ASSUME ~ g.cut PROVE Heap(g, B, F \ {a})
  <2>1. Fresh(g) /\ Paged(g)
    BY <1>8 DEF Heap, Fresh, Paged
  <2>2. \A b \in B : Agrees(g, b)
    BY <1>8 DEF Heap, Agrees
  <2> QED BY <1>1, <1>8, <1>9, <1>10, <2>1, <2>2 DEF Heap
<1> QED BY <1>8, <1>10 DEF SameTags

(* A free block joins its list (putFits, sfmm.c:73-91). *)
LEMMA HeapList ==
  ASSUME NEW h, NEW B, NEW F, Heap(h, B, F), NEW a \in B, a \notin F, ~ h.hdr[a].alloc,
         NEW g, g = putFits(h, a)
  PROVE  /\ Heap(g, B, F \cup {a})
         /\ SameTags(h, g) /\ g.run = h.run /\ g.errno = h.errno
<1> DEFINE i == getListNum(h.hdr[a].size)
           old == h.head[i]
           S == Sized(h, F, i)
           linked == IF old = NULL THEN h ELSE [h EXCEPT !.prev[old] = a]
<1>1. h \in Memory /\ Tiles(h.hdr, h.brk, B) /\ F \subseteq B /\ ~ h.cut /\ ~ h.over /\ Listing(h, F)
  BY DEF Heap
<1>2. \A b \in B : b \in Rows /\ b < h.brk /\ b # NULL /\ h.hdr[b].size \in Nat
  <2> SUFFICES ASSUME NEW b \in B
               PROVE  b \in Rows /\ b < h.brk /\ b # NULL /\ h.hdr[b].size \in Nat
    OBVIOUS
  <2>1. Lies(h, b)
    BY <1>1, BlockLies
  <2>2. b \in Rows /\ b < h.brk /\ h.hdr[b].size \in Nat
    BY <2>1 DEF Lies
  <2> QED BY <2>2, NullIsNoRow
<1>3. i \in Lists
  BY <1>2, GetListNum
<1>4. \A j \in Lists : List(h, j, Sized(h, F, j))
  BY <1>1 DEF Listing, Sized
<1>5. \A j \in Lists : Sized(h, F, j) \subseteq F
  BY DEF Sized
<1>6. g = [linked EXCEPT !.next[a] = old, !.head[i] = a, !.prev[a] = NULL]
  <2>1. ~ Outside(h, a)
    <3>1. h.brk \in Nat /\ a \in Nat
      BY <1>1, <1>2, Limits, RowNumbers DEF Memory
    <3> QED BY <1>2, <3>1 DEF Outside
  <2> QED BY <2>1 DEF putFits
<1> HIDE DEF i, S
<1>7. S = Sized(h, F, i) /\ List(h, i, S) /\ S \subseteq Rows /\ a \notin S /\ S \subseteq F
  BY <1>1, <1>2, <1>3, <1>4, <1>5 DEF S
<1>8. old \in S \cup {NULL}
  BY <1>7, ListHead
<1>9. old \in Link /\ a \in Link /\ NULL \in Link /\ a \in Rows /\ old # a /\ a # NULL
  BY <1>2, <1>7, <1>8 DEF Link
<1> HIDE DEF old
<1>10. /\ linked \in Memory /\ linked.hdr = h.hdr /\ linked.ftr = h.ftr /\ SameRest(h, linked)
       /\ linked.head = h.head /\ linked.next = h.next
       /\ \A b \in Rows : linked.prev[b] = IF b = old THEN a ELSE h.prev[b]
  <2>1. CASE old = NULL
    <3>1. linked = h
      BY <2>1
    <3>2. \A b \in Rows : b # old
      BY <2>1, NullIsNoRow
    <3> QED BY <1>1, <3>1, <3>2 DEF SameRest
  <2>2. CASE old # NULL
    <3>1. linked = [h EXCEPT !.prev[old] = a]
      BY <2>2
    <3>2. linked \in Memory
      BY <1>1, <1>9, <3>1, StoreLink
    <3>3. /\ linked.hdr = h.hdr /\ linked.ftr = h.ftr /\ SameRest(h, linked)
          /\ linked.head = h.head /\ linked.next = h.next
          /\ linked.prev = [h.prev EXCEPT ![old] = a]
      BY <1>1, <3>1 DEF Memory, SameRest
    <3>4. \A b \in Rows : linked.prev[b] = IF b = old THEN a ELSE h.prev[b]
      BY <1>1, <3>3 DEF Memory
    <3> QED BY <3>2, <3>3, <3>4
  <2> QED BY <2>1, <2>2
<1> HIDE DEF linked
<1>11. g \in Memory
  <2>1. [linked EXCEPT !.next[a] = old] \in Memory
    BY <1>9, <1>10, StoreLink
  <2>2. [[linked EXCEPT !.next[a] = old] EXCEPT !.head[i] = a] \in Memory
    BY <1>9, <2>1, StoreLink
  <2>3. [[[linked EXCEPT !.next[a] = old] EXCEPT !.head[i] = a] EXCEPT !.prev[a] = NULL] \in Memory
    BY <1>9, <2>2, StoreLink
  <2> QED BY <1>6, <2>3
<1>12. /\ g.hdr = linked.hdr /\ g.ftr = linked.ftr /\ SameRest(linked, g)
       /\ g.head = [linked.head EXCEPT ![i] = a]
       /\ g.next = [linked.next EXCEPT ![a] = old]
       /\ g.prev = [linked.prev EXCEPT ![a] = NULL]
  BY <1>6, <1>10 DEF Memory, SameRest
<1>13. /\ g.next[a] = old /\ g.prev[a] = NULL /\ g.head[i] = a
       /\ \A b \in Rows \ {a} : /\ g.next[b] = h.next[b]
                                /\ g.prev[b] = IF b = old THEN a ELSE h.prev[b]
       /\ \A j \in Lists \ {i} : g.head[j] = h.head[j]
  <2>1. g.head[i] = a /\ \A j \in Lists \ {i} : g.head[j] = h.head[j]
    BY <1>3, <1>10, <1>12 DEF Memory
  <2>2. g.next[a] = old /\ \A b \in Rows \ {a} : g.next[b] = h.next[b]
    BY <1>9, <1>10, <1>12 DEF Memory
  <2>3. g.prev[a] = NULL /\ \A b \in Rows \ {a} : g.prev[b] = linked.prev[b]
    BY <1>9, <1>10, <1>12 DEF Memory
  <2> QED BY <1>10, <2>1, <2>2, <2>3
<1>14. /\ g.hdr = h.hdr /\ g.ftr = h.ftr /\ SameRest(h, g)
  BY <1>10, <1>12 DEF SameRest
<1>15. Listing(g, F \cup {a})
  <2> SUFFICES ASSUME NEW j \in Lists PROVE List(g, j, {b \in F \cup {a} : getListNum(g.hdr[b].size) = j})
    BY DEF Listing
  <2> DEFINE T == Sized(h, F, j)
  <2>1. CASE j = i
    <3>1. {b \in F \cup {a} : getListNum(g.hdr[b].size) = j} = S \cup {a}
      BY <1>7, <1>14, <2>1 DEF Sized, i
    <3>2. \A b \in S : /\ g.next[b] = h.next[b]
                       /\ g.prev[b] = IF b = h.head[i] THEN a ELSE h.prev[b]
      BY <1>7, <1>13 DEF old
    <3>3. g.head[i] = a /\ g.next[a] = h.head[i] /\ g.prev[a] = NULL
      BY <1>13 DEF old
    <3>4. List(g, i, S \cup {a})
      BY <1>7, <1>9, <3>2, <3>3, ListPut
    <3> QED BY <2>1, <3>1, <3>4
  <2>2. CASE j # i
    <3>1. {b \in F \cup {a} : getListNum(g.hdr[b].size) = j} = T
      BY <1>14, <2>2 DEF Sized, i
    <3>2. \A b \in T : b \notin S /\ b \in Rows /\ b # NULL /\ b # a
      BY <1>1, <1>2, <1>7, <2>2 DEF Sized
    <3>3. \A b \in T : b # old
      BY <1>8, <3>2
    <3>4. \A b \in T : g.next[b] = h.next[b] /\ g.prev[b] = h.prev[b]
      BY <1>13, <3>2, <3>3
    <3>5. g.head[j] = h.head[j] /\ List(h, j, T)
      BY <1>4, <1>13, <2>2
    <3> HIDE DEF T
    <3>6. List(g, j, T)
      BY <3>4, <3>5, ListFrame
    <3> QED BY <3>1, <3>6
  <2> QED BY <2>1, <2>2
<1>16. ~ g.cut /\ ~ g.over /\ g.brk = h.brk /\ Fresh(g) /\ Paged(g)
  BY <1>1, <1>14 DEF Heap, Fresh, Paged, SameRest
<1>17. \A b \in B : Agrees(g, b)
  BY <1>14 DEF Heap, Agrees
<1>18. F \cup {a} \subseteq B /\ \A b \in F \cup {a} : ~ g.hdr[b].alloc
  BY <1>1, <1>14 DEF Heap
<1>19. Tiles(g.hdr, g.brk, B)
  BY <1>1, <1>14, <1>16
<1>20. Heap(g, B, F \cup {a})
  BY <1>11, <1>15, <1>16, <1>17, <1>18, <1>19 DEF Heap
<1> QED BY <1>14, <1>16, <1>20 DEF SameTags, SameRest
-----------------------------------------------------------------------------
(* Flags that no operation takes back. *)

Record(h) ==
    /\ h.counter \in Int
    /\ h = [hdr |-> h.hdr, ftr |-> h.ftr, next |-> h.next, prev |-> h.prev, head |-> h.head,
            errno |-> h.errno, counter |-> h.counter, brk |-> h.brk,
            run |-> h.run, cut |-> h.cut, over |-> h.over]

Runs(h, g) == g.run = h.run
Flags(h, g) == Record(g) /\ (h.cut => g.cut) /\ (h.over => g.over)

(* Flags kept over two operations. *)
LEMMA FlagsTrans ==
  ASSUME NEW h, NEW g, NEW k, Flags(h, g), Flags(g, k)
  PROVE  Flags(h, k)
BY DEF Flags

(* Every memory is a record of those fields. *)
LEMMA MemoryRecord == \A h \in Memory : Record(h)
BY DEF Memory, Record

(* The process ends. *)
LEMMA StopFlags ==
  ASSUME NEW h, Record(h), NEW why
  PROVE  Flags(h, Stop(h, why)) /\ (h.run # "running" => Stop(h, why).run = h.run)
BY DEF Record, Flags, Stop

(* sf_errno is written. *)
LEMMA ErrnoFlags ==
  ASSUME NEW h, Record(h), NEW no
  PROVE  Flags(h, [h EXCEPT !.errno = no]) /\ [h EXCEPT !.errno = no].run = h.run
BY DEF Record, Flags

(* place. *)
LEMMA PlaceFlags ==
  ASSUME NEW h, Record(h), NEW a, NEW rows, NEW req, NEW alloc
  PROVE  /\ Flags(h, place(h, a, rows, req, alloc))
         /\ a # NULL => Runs(h, place(h, a, rows, req, alloc))
BY StopFlags DEF Record, Flags, Runs, place

(* Unlink. *)
LEMMA UnlinkFlags ==
  ASSUME NEW h, Record(h), NEW a, NEW i
  PROVE  Flags(h, Unlink(h, a, i))
BY DEF Record, Flags, Unlink

(* delBlkInList. *)
LEMMA DelFlags ==
  ASSUME NEW h, Record(h), NEW a
  PROVE  Flags(h, delBlkInList(h, a))
BY ErrnoFlags, StopFlags, UnlinkFlags DEF delBlkInList

SetNext(h, a, x) == [h EXCEPT !.next[a] = x]
SetPrev(h, a, x) == [h EXCEPT !.prev[a] = x]
SetHead(h, i, x) == [h EXCEPT !.head[i] = x]

(* A link is written. *)
LEMMA StoreFlags ==
  ASSUME NEW h, Record(h), NEW a, NEW x
  PROVE  /\ Flags(h, SetNext(h, a, x)) /\ SetNext(h, a, x).run = h.run
         /\ Flags(h, SetPrev(h, a, x)) /\ SetPrev(h, a, x).run = h.run
         /\ Flags(h, SetHead(h, a, x)) /\ SetHead(h, a, x).run = h.run
BY DEF Record, Flags, SetNext, SetPrev, SetHead

(* putFits. *)
LEMMA PutFlags ==
  ASSUME NEW h, Record(h), NEW a
  PROVE  Flags(h, putFits(h, a)) /\ putFits(h, a).run = h.run
<1> DEFINE i == getListNum(h.hdr[a].size)
           old == h.head[i]
           linked == IF old = NULL THEN h ELSE [h EXCEPT !.prev[old] = a]
<1> HIDE DEF i, old
<1>1. Flags(h, linked) /\ linked.run = h.run
  BY DEF Record, Flags
<1> HIDE DEF linked
<1> DEFINE k1 == SetNext(linked, a, old)
           k2 == SetHead(k1, i, a)
           k == SetPrev(k2, a, NULL)
<1>2. Flags(h, k) /\ k.run = h.run
  <2>1. Flags(h, k1) /\ k1.run = h.run
    <3>1. Record(linked)
      BY <1>1 DEF Flags
    <3>2. Flags(linked, k1) /\ k1.run = linked.run
      BY <3>1, StoreFlags
    <3> QED BY <1>1, <3>2, FlagsTrans
  <2> HIDE DEF k1
  <2>2. Flags(h, k2) /\ k2.run = h.run
    <3>1. Record(k1)
      BY <2>1 DEF Flags
    <3>2. Flags(k1, k2) /\ k2.run = k1.run
      BY <3>1, StoreFlags
    <3> QED BY <2>1, <3>2, FlagsTrans
  <2> HIDE DEF k2
  <2>3. Record(k2)
    BY <2>2 DEF Flags
  <2>4. Flags(k2, k) /\ k.run = k2.run
    BY <2>3, StoreFlags
  <2> QED BY <2>2, <2>4, FlagsTrans
<1> USE DEF i, old, linked
<1>3. CASE Outside(h, a)
  BY <1>3, ErrnoFlags DEF putFits
<1>4. CASE ~ Outside(h, a)
  BY <1>2, <1>4 DEF putFits, SetNext, SetPrev, SetHead
<1> QED BY <1>3, <1>4

(* coalesce. *)
LEMMA CoalesceFlags ==
  ASSUME NEW h, Record(h), NEW a, NEW b
  PROVE  Flags(h, coalesce(h, a, b)) /\ (a # NULL => Runs(h, coalesce(h, a, b)))
<1> DEFINE rows == h.hdr[a].size + h.hdr[b].size
           w == Whole(rows)
           g == place(h, a, rows, w, FALSE)
<1>1. coalesce(h, a, b) = g
  BY DEF coalesce
<1> HIDE DEF rows, w
<1>2. Flags(h, g)
  BY PlaceFlags
<1>3. a # NULL => Runs(h, g)
  BY PlaceFlags
<1> HIDE DEF g
<1> QED BY <1>1, <1>2, <1>3

(* sf_sbrk. *)
LEMMA SbrkFlags ==
  ASSUME NEW h, Record(h), NEW n \in Int
  PROVE  Flags(h, sf_sbrk(h, n))
<1> DEFINE c == h.counter + n
           b == IF h.brk + n * PageRows > MaxPages * PageRows
                THEN MaxPages * PageRows ELSE h.brk + n * PageRows
           e == IF h.counter + n > MaxPages THEN "ENOMEM" ELSE h.errno
           o == h.over \/ h.counter + n > MaxPages
           g == [h EXCEPT !.counter = c, !.brk = b, !.errno = e, !.over = o]
<1>1. sf_sbrk(h, n) = g
  BY DEF sf_sbrk, Record
<1>2. c \in Int /\ (h.over => o)
  BY DEF Record
<1> HIDE DEF c, b, e, o
<1> DEFINE g1 == [h EXCEPT !.counter = c]
           g2 == [g1 EXCEPT !.brk = b]
           g3 == [g2 EXCEPT !.errno = e]
           g4 == [g3 EXCEPT !.over = o]
<1>3. Record(g) /\ g.cut = h.cut /\ g.over = o
  <2>1. Record(g1) /\ g1.cut = h.cut
    BY <1>2 DEF Record
  <2> HIDE DEF g1
  <2>2. Record(g2) /\ g2.cut = h.cut
    BY <2>1 DEF Record
  <2> HIDE DEF g2
  <2>3. Record(g3) /\ g3.cut = h.cut
    BY <2>2 DEF Record
  <2> HIDE DEF g3
  <2>4. Record(g4) /\ g4.cut = h.cut /\ g4.over = o
    BY <2>3 DEF Record
  <2>5. g = g4
    BY DEF g1, g2, g3
  <2> HIDE DEF g4
  <2> QED BY <2>4, <2>5
<1> QED BY <1>1, <1>2, <1>3 DEF Flags

(* A block has a page at least. *)
LEMMA PagesNumber ==
  ASSUME NEW size \in Nat
  PROVE  Pages(size) \in Nat \ {0}
<1>1. PAGE_SZ \in Nat \ {0} /\ size + ROW \in Nat
  BY SizesAssumption DEF ROW
<1>2. (size + ROW) \div PAGE_SZ \in Nat
  BY <1>1
<1> QED BY <1>2 DEF Pages

(* extendHeap. *)
LEMMA ExtendFlags ==
  ASSUME NEW h, Record(h), NEW size \in Nat
  PROVE  Flags(h, extendHeap(h, size).mem)
<1> DEFINE a == h.brk
           rows == Pages(size) * PageRows
           e == sf_sbrk(h, Pages(size))
           grown == place(e, a, rows, Whole(rows), FALSE)
           p == getPrevBP(grown, a)
           d == delBlkInList(grown, p)
<1>1. Flags(h, e)
  BY SbrkFlags, PagesNumber
<1> HIDE DEF e, rows, a
<1>2. Flags(e, grown)
  BY <1>1, PlaceFlags DEF Flags
<1> HIDE DEF grown, p
<1>3. Flags(grown, d)
  BY <1>2, DelFlags DEF Flags
<1> HIDE DEF d
<1>4. Flags(d, coalesce(d, p, a))
  BY <1>3, CoalesceFlags DEF Flags
<1>5. Flags(h, grown)
  BY <1>1, <1>2, FlagsTrans
<1>6. Flags(h, coalesce(d, p, a))
  BY <1>3, <1>4, <1>5, FlagsTrans
<1>7. Flags(h, Stop(h, "crashed")) /\ Flags(h, [h EXCEPT !.errno = "ENOMEM"])
  BY StopFlags, ErrnoFlags
<1>8. extendHeap(h, size).mem \in {[h EXCEPT !.errno = "ENOMEM"], Stop(h, "crashed"), coalesce(d, p, a), grown}
  <2>1. h.counter = MaxPages \/ h.counter > MaxPages \/ h.counter < MaxPages
    BY SizesAssumption DEF Record
  <2> USE DEF d, p, grown, e, rows, a
  <2>2. CASE h.counter = MaxPages
    BY <2>2 DEF extendHeap
  <2>3. CASE h.counter > MaxPages
    <3>1. h.counter # MaxPages /\ ~ (h.counter < MaxPages)
      BY <2>3, SizesAssumption DEF Record
    <3> QED BY <2>3, <3>1 DEF extendHeap
  <2>4. CASE h.counter < MaxPages
    <3>1. h.counter # MaxPages /\ ~ (h.counter > MaxPages)
      BY <2>4, SizesAssumption DEF Record
    <3> QED BY <2>4, <3>1 DEF extendHeap
  <2> QED BY <2>1, <2>2, <2>3, <2>4
<1> QED BY <1>5, <1>6, <1>7, <1>8

(* splitBlock. *)
LEMMA SplitFlags ==
  ASSUME NEW h, Record(h), NEW a, NEW rows
  PROVE  Flags(h, splitBlock(h, a, rows))
<1> DEFINE b == getNextBP(h, a)
           rest == rows - h.hdr[a].size
           placed == place(h, b, rest, Whole(rest), FALSE)
<1> HIDE DEF b, rest
<1>1. Flags(h, placed)
  BY PlaceFlags
<1> HIDE DEF placed
<1>2. Flags(placed, putFits(placed, b))
  BY <1>1, PutFlags DEF Flags
<1>3. Flags(h, putFits(placed, b))
  BY <1>1, <1>2, FlagsTrans
<1> QED BY <1>1, <1>3 DEF splitBlock, placed, b, rest

(* The end of sf_malloc. *)
LEMMA GiveFlags ==
  ASSUME NEW h, Record(h), NEW a, NEW size
  PROVE  Flags(h, Give(h, a, size))
<1> DEFINE rows == h.hdr[a].size
           need == PayloadRows(size) + 1
           first == place(h, a, need, size, TRUE)
<1> HIDE DEF rows, need
<1>1. Flags(h, first) /\ Flags(h, place(h, a, rows, size, TRUE))
  BY PlaceFlags
<1> HIDE DEF first
<1>2. Flags(first, splitBlock(first, a, rows))
  BY <1>1, SplitFlags DEF Flags
<1>3. Flags(h, splitBlock(first, a, rows))
  BY <1>1, <1>2, FlagsTrans
<1> QED BY <1>1, <1>3 DEF Give, first, rows, need

(* sf_malloc. *)
LEMMA MallocFlags ==
  ASSUME NEW h, Record(h), NEW size \in Nat
  PROVE  Flags(h, sf_malloc(h, size).mem)
<1> DEFINE fit == findFits(h, PayloadRows(size) + 1)
           got == IF fit = NULL THEN extendHeap(h, size)
                  ELSE [mem |-> delBlkInList(h, fit), bp |-> fit]
<1>1. Flags(h, got.mem)
  <2> HIDE DEF fit
  <2>1. CASE fit = NULL
    BY <2>1, ExtendFlags
  <2>2. CASE fit # NULL
    BY <2>2, DelFlags
  <2> QED BY <2>1, <2>2
<1>2. Flags(h, Give(got.mem, got.bp, size))
  <2> HIDE DEF got
  <2>1. Flags(got.mem, Give(got.mem, got.bp, size))
    BY <1>1, GiveFlags DEF Flags
  <2> QED BY <1>1, <2>1, FlagsTrans
<1>3. Flags(h, Stop([h EXCEPT !.errno = "EINVAL"], "aborted"))
  <2> DEFINE e == [h EXCEPT !.errno = "EINVAL"]
  <2>1. Flags(h, e)
    BY ErrnoFlags
  <2> HIDE DEF e
  <2>2. Flags(e, Stop(e, "aborted"))
    BY <2>1, StopFlags DEF Flags
  <2>3. Flags(h, Stop(e, "aborted"))
    BY <2>1, <2>2, FlagsTrans
  <2> QED BY <2>3 DEF e
<1>4. Flags(h, [h EXCEPT !.errno = "ENOMEM"]) /\ Flags(h, Stop(h, "hung"))
  BY ErrnoFlags, StopFlags
<1>5. sf_malloc(h, size) =
        CASE size = 0 -> [mem |-> Stop([h EXCEPT !.errno = "EINVAL"], "aborted"), bp |-> NULL]
          [] size # 0 /\ PayloadRows(size) >= MaxPages * PageRows ->
                [mem |-> [h EXCEPT !.errno = "ENOMEM"], bp |-> NULL]
          [] size # 0 /\ PayloadRows(size) < MaxPages * PageRows ->
                IF Loops(h, PayloadRows(size) + 1)
                THEN [mem |-> Stop(h, "hung"), bp |-> NULL]
                ELSE IF got.bp = NULL THEN got
                ELSE [mem |-> Give(got.mem, got.bp, size), bp |-> got.bp]
  BY DEF sf_malloc, got, fit
<1> HIDE DEF got
<1>6. CASE size = 0
  <2>1. sf_malloc(h, size).mem = Stop([h EXCEPT !.errno = "EINVAL"], "aborted")
    BY <1>5, <1>6
  <2> QED BY <1>3, <2>1
<1>7. CASE size # 0 /\ PayloadRows(size) >= MaxPages * PageRows
  <2>1. ~ (PayloadRows(size) < MaxPages * PageRows)
    <3>1. PayloadRows(size) \in Int
      BY DEF PayloadRows, ROW
    <3>2. Limit \in Int
      BY Limits
    <3> QED BY <1>7, <3>1, <3>2 DEF Limit
  <2>2. sf_malloc(h, size) = [mem |-> [h EXCEPT !.errno = "ENOMEM"], bp |-> NULL]
    BY <1>5, <1>7, <2>1
  <2> QED BY <1>4, <2>2
<1>8. CASE size # 0 /\ ~ (PayloadRows(size) >= MaxPages * PageRows)
  <2>1. PayloadRows(size) < MaxPages * PageRows
    <3>1. PayloadRows(size) \in Int
      BY DEF PayloadRows, ROW
    <3>2. Limit \in Int
      BY Limits
    <3> QED BY <1>8, <3>1, <3>2 DEF Limit
  <2>2. sf_malloc(h, size) = IF Loops(h, PayloadRows(size) + 1)
                THEN [mem |-> Stop(h, "hung"), bp |-> NULL]
                ELSE IF got.bp = NULL THEN got
                ELSE [mem |-> Give(got.mem, got.bp, size), bp |-> got.bp]
    BY <1>5, <1>8, <2>1
  <2> QED BY <1>1, <1>2, <1>4, <2>2
<1> QED BY <1>6, <1>7, <1>8

(* The allocation bits are cleared. *)
LEMMA HdrFlags ==
  ASSUME NEW h, Record(h), NEW a
  PROVE  Flags(h, [h EXCEPT !.hdr[a].alloc = FALSE]) /\ Flags(h, [h EXCEPT !.ftr[a].alloc = FALSE])
<1> DEFINE t == [h.hdr EXCEPT ![a].alloc = FALSE]
           f == [h.ftr EXCEPT ![a].alloc = FALSE]
<1>1. [h EXCEPT !.hdr[a].alloc = FALSE] = [h EXCEPT !.hdr = t]
  BY DEF Record
<1>2. [h EXCEPT !.ftr[a].alloc = FALSE] = [h EXCEPT !.ftr = f]
  BY DEF Record
<1> HIDE DEF t, f
<1>3. Flags(h, [h EXCEPT !.hdr = t]) /\ Flags(h, [h EXCEPT !.ftr = f])
  BY DEF Record, Flags
<1> QED BY <1>1, <1>2, <1>3

(* sf_free. *)
LEMMA FreeFlags ==
  ASSUME NEW h, Record(h), NEW a
  PROVE  Flags(h, sf_free(h, a))
<1> DEFINE seen == IF Rejects(h, a) THEN [h EXCEPT !.errno = "EINVAL"] ELSE h
           rows == h.hdr[a].size
           freed == [h EXCEPT !.hdr[a].alloc = FALSE, !.ftr[a + rows - 1].alloc = FALSE]
           b == getNextBP(freed, a)
           d == delBlkInList(freed, b)
           merged == IF b # NULL /\ ~freed.hdr[b].alloc THEN coalesce(d, a, b) ELSE freed
<1>1. Flags(h, Stop(seen, "aborted"))
  <2>1. Flags(h, h)
    BY DEF Flags
  <2>2. Flags(h, seen)
    <3> DEFINE e == [h EXCEPT !.errno = "EINVAL"]
    <3>1. Flags(h, e)
      BY ErrnoFlags
    <3> HIDE DEF e
    <3>2. seen = IF Rejects(h, a) THEN e ELSE h
      BY DEF e
    <3> QED BY <2>1, <3>1, <3>2
  <2> HIDE DEF seen
  <2>3. Flags(seen, Stop(seen, "aborted"))
    BY <2>2, StopFlags DEF Flags
  <2> QED BY <2>2, <2>3, FlagsTrans
<1>2. Flags(h, freed)
  <2> HIDE DEF rows
  <2> DEFINE f1 == [h EXCEPT !.hdr[a].alloc = FALSE]
             f2 == [f1 EXCEPT !.ftr[a + rows - 1].alloc = FALSE]
  <2>1. Flags(h, f1)
    BY HdrFlags
  <2> HIDE DEF f1
  <2>2. Flags(f1, f2)
    BY <2>1, HdrFlags DEF Flags
  <2>3. freed = f2
    BY DEF f1
  <2> HIDE DEF f2
  <2> QED BY <2>1, <2>2, <2>3, FlagsTrans
<1> HIDE DEF freed, b
<1>3. Flags(freed, d)
  BY <1>2, DelFlags DEF Flags
<1> HIDE DEF d
<1>4. Flags(d, coalesce(d, a, b))
  BY <1>3, CoalesceFlags DEF Flags
<1>5. Flags(h, coalesce(d, a, b))
  BY <1>2, <1>3, <1>4, FlagsTrans
<1>6. Flags(h, merged)
  BY <1>2, <1>5
<1> HIDE DEF merged
<1>7. Flags(merged, putFits(merged, a))
  BY <1>6, PutFlags DEF Flags
<1>8. Flags(h, putFits(merged, a))
  BY <1>6, <1>7, FlagsTrans
<1>9. sf_free(h, a) = IF seen.errno # "0" THEN Stop(seen, "aborted") ELSE putFits(merged, a)
  BY DEF sf_free, seen, merged, d, b, freed
<1> HIDE DEF seen
<1> QED BY <1>1, <1>8, <1>9

(* The last branch of sf_realloc. *)
LEMMA ShrinkFlags ==
  ASSUME NEW h, Record(h), NEW a, NEW size
  PROVE  Flags(h, Shrink(h, a, size))
<1> DEFINE rows == h.hdr[a].size
           need == PayloadRows(size) + 1
           kept == place(h, a, need, size, TRUE)
           b == getNextBP(kept, a)
           placed == place(kept, b, rows - need, Whole(rows - need), TRUE)
<1> HIDE DEF rows, need
<1>1. Flags(h, kept) /\ Flags(h, place(h, a, rows, size, TRUE))
  BY PlaceFlags
<1> HIDE DEF kept, b
<1>2. Flags(kept, placed)
  BY <1>1, PlaceFlags DEF Flags
<1>3. Flags(h, placed)
  BY <1>1, <1>2, FlagsTrans
<1> HIDE DEF placed
<1>4. Flags(placed, sf_free(placed, b))
  BY <1>3, FreeFlags DEF Flags
<1>5. Flags(h, sf_free(placed, b))
  BY <1>3, <1>4, FlagsTrans
<1>6. Shrink(h, a, size) = IF rows - need <= 1 THEN place(h, a, rows, size, TRUE)
                           ELSE IF b = NULL THEN placed ELSE sf_free(placed, b)
  BY DEF Shrink, placed, b, kept, rows, need
<1> QED BY <1>1, <1>3, <1>5, <1>6

(* sf_realloc. *)
LEMMA ReallocFlags ==
  ASSUME NEW h, Record(h), NEW a, NEW size \in Nat
  PROVE  Flags(h, sf_realloc(h, a, size).mem)
<1> DEFINE seen == IF Rejects(h, a) THEN [h EXCEPT !.errno = "EINVAL"] ELSE h
           req == h.ftr[a + h.hdr[a].size - 1].req
           new == sf_malloc(h, size)
<1>1. Flags(h, Stop(seen, "aborted")) /\ Flags(h, h)
  <2>1. Flags(h, h)
    BY DEF Flags
  <2>2. Flags(h, seen)
    <3> DEFINE e == [h EXCEPT !.errno = "EINVAL"]
    <3>1. Flags(h, e)
      BY ErrnoFlags
    <3> HIDE DEF e
    <3>2. seen = IF Rejects(h, a) THEN e ELSE h
      BY DEF e
    <3> QED BY <2>1, <3>1, <3>2
  <2> HIDE DEF seen
  <2>3. Flags(seen, Stop(seen, "aborted"))
    BY <2>2, StopFlags DEF Flags
  <2> QED BY <2>1, <2>2, <2>3, FlagsTrans
<1>2. Flags(h, new.mem)
  BY MallocFlags
<1> HIDE DEF new
<1>3. Flags(new.mem, sf_free(new.mem, a))
  BY <1>2, FreeFlags DEF Flags
<1>4. Flags(h, sf_free(new.mem, a)) /\ Flags(h, sf_free(h, a)) /\ Flags(h, Shrink(h, a, size))
  BY <1>2, <1>3, FlagsTrans, FreeFlags, ShrinkFlags
<1>5. sf_realloc(h, a, size) \in
         {[mem |-> sf_free(h, a), bp |-> NULL], [mem |-> Stop(seen, "aborted"), bp |-> NULL],
          [mem |-> h, bp |-> a], [mem |-> sf_free(new.mem, a), bp |-> new.bp],
          [mem |-> Shrink(h, a, size), bp |-> a]}
  <2> HIDE DEF seen, req
  <2>1. sf_realloc(h, a, size) =
    CASE size = 0 -> [mem |-> sf_free(h, a), bp |-> NULL]
          [] size # 0 /\ seen.errno # "0" -> [mem |-> Stop(seen, "aborted"), bp |-> NULL]
          [] size # 0 /\ seen.errno = "0" /\ size = req -> [mem |-> h, bp |-> a]
          [] size # 0 /\ seen.errno = "0" /\ size > req ->
                [mem |-> sf_free(new.mem, a), bp |-> new.bp]
          [] OTHER -> [mem |-> Shrink(h, a, size), bp |-> a]
    BY DEF sf_realloc, new, seen, req
  <2> QED BY <2>1
<1> HIDE DEF seen
<1> QED BY <1>1, <1>4, <1>5
-----------------------------------------------------------------------------
(* The calls. *)

(* Between calls everything free is listed. *)
Steady(h, B, F) == Heap(h, B, F) /\ \A c \in B \ F : h.hdr[c].alloc

(* A note outside tags and lists leaves a heap. *)
LEMMA HeapNotes ==
  ASSUME NEW h, NEW B, NEW F, Heap(h, B, F), NEW g \in Memory,
         SameTags(h, g), SameLists(h, g), ~ g.cut, ~ g.over
  PROVE  Heap(g, B, F)
<1>1. Fresh(g) /\ Paged(g) /\ Tiles(g.hdr, g.brk, B)
  BY DEF Heap, SameTags, Fresh, Paged
<1>2. \A b \in B : Agrees(g, b)
  BY DEF Heap, SameTags, Agrees
<1>3. Listing(g, F)
  <2> SUFFICES ASSUME NEW i \in Lists PROVE List(g, i, {a \in F : getListNum(g.hdr[a].size) = i})
    BY DEF Listing
  <2>1. List(h, i, {a \in F : getListNum(g.hdr[a].size) = i})
    BY DEF Heap, Listing, SameTags
  <2>2. g.head = h.head /\ g.next = h.next /\ g.prev = h.prev
    BY DEF SameLists
  <2> QED BY <2>1, <2>2, ListFrame
<1>4. F \subseteq B /\ \A a \in F : ~ g.hdr[a].alloc
  BY DEF Heap, SameTags
<1> QED BY <1>1, <1>2, <1>3, <1>4 DEF Heap

(* Clearing the allocation bits of both tags. *)
Freed(h, a) == [h EXCEPT !.hdr[a].alloc = FALSE, !.ftr[a + h.hdr[a].size - 1].alloc = FALSE]

(* An allocated block becomes one that is free and in no list. *)
LEMMA HeapFreed ==
  ASSUME NEW h, NEW B, NEW F, Heap(h, B, F), NEW a \in B, a \notin F,
         NEW f, f = Freed(h, a)
  PROVE  /\ Heap(f, B, F) /\ SameBlocks(h, f, B \ {a}) /\ SameRest(h, f)
         /\ f.hdr[a].size = h.hdr[a].size /\ ~ f.hdr[a].alloc
         /\ \A r : r # a => f.hdr[r] = h.hdr[r]
<1> DEFINE rows == h.hdr[a].size
           z == a + rows - 1
           t == [h.hdr[a] EXCEPT !.alloc = FALSE]
           u == [h.ftr[z] EXCEPT !.alloc = FALSE]
<1>1. h \in Memory /\ Tiles(h.hdr, h.brk, B) /\ Fresh(h) /\ Paged(h) /\ F \subseteq B /\ ~ h.cut /\ ~ h.over
      /\ Agrees(h, a)
  BY DEF Heap
<1>2. \A c \in B : Lies(h, c)
  BY <1>1, BlockLies
<1>3. a \in Rows /\ z \in Rows /\ a < h.brk
  <2>1. a \in Nat /\ rows \in Nat /\ rows >= 2 /\ a + rows <= h.brk /\ h.brk <= Limit /\ h.brk \in Nat /\ Limit \in Nat
        /\ \A r \in Nat : r <= Limit => r \in Rows
    BY <1>2 DEF Lies
  <2> HIDE DEF rows
  <2>2. z \in Nat /\ z <= Limit /\ a <= Limit /\ a < h.brk
    BY <2>1
  <2> QED BY <2>1, <2>2
<1>4. h.hdr[a] \in Tag /\ h.ftr[z] \in Foot
  BY <1>1, <1>3 DEF Memory
<1>5. /\ t \in Tag /\ t.size = rows /\ ~ t.alloc /\ t.padded = h.hdr[a].padded
      /\ u \in Foot /\ ~ u.alloc /\ u.size = h.ftr[z].size /\ u.padded = h.ftr[z].padded
      /\ u.req = h.ftr[z].req
  BY <1>4 DEF Tag, Foot
<1>6. f = [h EXCEPT !.hdr[a] = t, !.ftr[z] = u]
  BY <1>1, <1>3 DEF Memory, Freed
<1> HIDE DEF t, u, z, rows
<1>7. f \in Memory
  <2>1. t \in Tag /\ u \in Foot
    BY <1>5
  <2>2. [h.hdr EXCEPT ![a] = t] \in [Rows -> Tag] /\ [h.ftr EXCEPT ![z] = u] \in [Rows -> Foot]
    BY <1>1, <2>1 DEF Memory
  <2> QED BY <1>1, <1>6, <2>2 DEF Memory
<1>8. f.hdr = [h.hdr EXCEPT ![a] = t] /\ f.ftr = [h.ftr EXCEPT ![z] = u] /\ SameLists(h, f) /\ SameRest(h, f)
  BY <1>1, <1>6 DEF Memory, SameLists, SameRest
<1>9. f.hdr[a] = t /\ f.ftr[z] = u /\ (\A r : r # a => f.hdr[r] = h.hdr[r])
      /\ \A r : r # z => f.ftr[r] = h.ftr[r]
  <2>1. f.hdr[a] = t /\ \A r : r # a => f.hdr[r] = h.hdr[r]
    BY <1>1, <1>3, <1>8 DEF Memory
  <2>2. f.ftr[z] = u /\ \A r : r # z => f.ftr[r] = h.ftr[r]
    BY <1>1, <1>3, <1>8 DEF Memory
  <2> QED BY <2>1, <2>2
<1>10. \A c \in B \ {a} : c # a /\ c + h.hdr[c].size - 1 # z
  <2> SUFFICES ASSUME NEW c \in B, c # a PROVE c + h.hdr[c].size - 1 # z
    OBVIOUS
  <2>1. (a < c => a + rows <= c) /\ (c < a => c + h.hdr[c].size <= a)
    BY <1>1 DEF Tiles, rows
  <2>2. a \in Nat /\ rows \in Nat /\ rows >= 2 /\ c \in Nat /\ h.hdr[c].size \in Nat /\ h.hdr[c].size >= 2
    BY <1>2 DEF Lies, rows
  <2> QED BY <2>1, <2>2 DEF z
<1>11. SameBlocks(h, f, B \ {a})
  BY <1>9, <1>10 DEF SameBlocks
<1>12. Agrees(f, a)
  <2>1. f.hdr[a] = t /\ f.ftr[a + t.size - 1] = u
    BY <1>5, <1>9 DEF z
  <2>2. /\ h.ftr[z].padded = h.hdr[a].padded /\ h.ftr[z].size = rows
        /\ h.hdr[a].padded = (Whole(rows) # h.ftr[z].req)
    BY <1>1 DEF Agrees, z, rows
  <2>3. u.alloc = FALSE /\ t.alloc = FALSE
    BY <1>4 DEF t, u, Tag, Foot
  <2> QED BY <1>5, <2>1, <2>2, <2>3 DEF Agrees
<1>13. f.brk = h.brk /\ Paged(f) /\ ~ f.cut /\ ~ f.over
  <2>1. f.brk = h.brk /\ Paged(f)
    BY <1>1, <1>8, RestStays
  <2>2. ~ f.cut /\ ~ f.over
    BY <1>1, <1>8 DEF SameRest
  <2> QED BY <2>1, <2>2
<1>14. Tiles(f.hdr, f.brk, B)
  <2>1. \A c \in B : f.hdr[c].size = h.hdr[c].size
    BY <1>5, <1>9 DEF rows
  <2> QED BY <1>1, <1>13, <2>1 DEF Tiles
<1>15. Fresh(f)
  <2>1. \A r \in Rows : r >= h.brk => r # a
    BY <1>2, RowNumbers DEF Lies
  <2> QED BY <1>1, <1>9, <1>13, <2>1 DEF Fresh
<1>16. B \ {a} \subseteq B /\ F \subseteq B \ {a} /\ \A c \in B \ (B \ {a}) : c = a
  BY <1>1
<1>17. Rewritten(h, f, B, B, F, B \ {a})
  BY <1>7, <1>8, <1>11, <1>12, <1>13, <1>14, <1>15, <1>16 DEF Rewritten
<1>18. Heap(f, B, F)
  BY <1>17, Retiled
<1> QED BY <1>5, <1>8, <1>9, <1>11, <1>18 DEF rows

(* sf_free then merges the block with the one after it, if that is free. *)
Merge(f, a) ==
    LET b == getNextBP(f, a)
    IN  IF b # NULL /\ ~ f.hdr[b].alloc THEN coalesce(delBlkInList(f, b), a, b) ELSE f

Merges(f, g, B, F, a) ==
    \E C, E : /\ Heap(g, C, E) /\ a \in C /\ a \notin E /\ ~ g.hdr[a].alloc
              /\ C \ E = B \ F /\ SameBlocks(f, g, (B \ F) \ {a})

(* The merge keeps a heap, if it does not cut a list. *)
LEMMA HeapMerges ==
  ASSUME NEW f, NEW B, NEW F, Heap(f, B, F), NEW a \in B, a \notin F, ~ f.hdr[a].alloc,
         \A c \in B \ F : c # a => f.hdr[c].alloc, NEW g, g = Merge(f, a)
  PROVE  /\ Record(g) /\ g.run = f.run
         /\ ~ g.cut => Merges(f, g, B, F, a)
<1> DEFINE rows == f.hdr[a].size
           b == a + rows
           d == delBlkInList(f, b)
<1>1. f \in Memory /\ Tiles(f.hdr, f.brk, B) /\ Fresh(f) /\ F \subseteq B /\ ~ f.cut /\ ~ f.over
  BY DEF Heap
<1>2. /\ a \in Nat /\ a \in Rows /\ rows \in Nat /\ rows \in Rows /\ rows >= 2
      /\ a + rows <= f.brk /\ f.brk \in Nat /\ f.brk <= Limit /\ Limit \in Nat
  BY <1>1, BlockLies DEF Lies
<1>3. b \in B \/ b = f.brk
  BY <1>1 DEF Tiles
<1>4. b \in Nat /\ b \in Rows /\ b # NULL /\ b > a
  <2>1. b \in Nat /\ b \in 0 .. Limit /\ b > a
    BY <1>2
  <2> QED BY <2>1, RowNumbers, NullIsNoRow
<1>5. getNextBP(f, a) = b
  <2>1. ~ (a + rows > f.brk)
    BY <1>2
  <2> QED BY <2>1 DEF getNextBP
<1>6. g = IF ~ f.hdr[b].alloc THEN coalesce(d, a, b) ELSE f
  <2> HIDE DEF b
  <2> QED BY <1>4, <1>5 DEF Merge
<1>7. a # NULL /\ Record(f)
  BY <1>1, <1>2, NullIsNoRow, MemoryRecord
<1>8. SameBlocks(f, f, (B \ F) \ {a})
  BY DEF SameBlocks
<1> HIDE DEF b, rows
<1>9. CASE f.hdr[b].alloc
  <2>1. g = f
    BY <1>6, <1>9
  <2> QED BY <1>7, <1>8, <2>1 DEF Merges
<1>10. CASE ~ f.hdr[b].alloc
  <2>1. g = coalesce(d, a, b)
    BY <1>6, <1>10
  <2>2. Flags(f, d)
    BY <1>7, DelFlags
  <2> DEFINE sum == d.hdr[a].size + d.hdr[b].size
  <2>3. g = place(d, a, sum, Whole(sum), FALSE)
    BY <2>1 DEF coalesce
  <2> HIDE DEF sum, d
  <2>4. Flags(d, g) /\ g.run = d.run /\ Record(g)
    <3>1. Record(d)
      BY <2>2 DEF Flags
    <3>2. Flags(d, g) /\ g.run = d.run
      BY <1>7, <2>1, <3>1, CoalesceFlags DEF Runs
    <3> QED BY <3>2 DEF Flags
  <2>5. CASE b \in B
    <3>1. b \in F
      BY <1>4, <1>2, <1>10, <2>5
    <3>2. /\ d \in Memory /\ SameTags(f, d) /\ d.run = f.run /\ d.errno = f.errno /\ d.over = f.over
          /\ ~ d.cut => Heap(d, B, F \ {b})
      BY <3>1, HeapUnlist DEF d
    <3>3. ASSUME ~ g.cut PROVE Merges(f, g, B, F, a)
      <4>1. Heap(d, B, F \ {b})
        BY <2>4, <3>2, <3>3 DEF Flags
      <4>2. a \notin F \ {b} /\ b \notin F \ {b} /\ b = a + d.hdr[a].size
        BY <3>2 DEF SameTags, b, rows
      <4>3. /\ Heap(g, B \ {b}, F \ {b}) /\ SameBlocks(d, g, B \ {a, b}) /\ b # a
            /\ ~ g.hdr[a].alloc
        BY <2>1, <2>5, <4>1, <4>2, HeapMerge
      <4>4. SameBlocks(f, g, (B \ F) \ {a})
        BY <3>1, <3>2, <4>3 DEF SameBlocks, SameTags
      <4>5. a \in B \ {b} /\ a \notin F \ {b} /\ (B \ {b}) \ (F \ {b}) = B \ F
        BY <3>1, <4>3
      <4> QED BY <4>3, <4>4, <4>5 DEF Merges
    <3> QED BY <2>4, <3>2, <3>3
  <2>6. CASE b \notin B
    <3>1. b = f.brk /\ f.hdr[b].size = 0
      BY <1>1, <1>2, <1>3, <1>4, <2>6 DEF Fresh
    <3>2. d = [f EXCEPT !.errno = "ENOMEM"]
      <4>1. Outside(f, b)
        BY <1>2, <3>1 DEF Outside
      <4> QED BY <4>1 DEF delBlkInList, d
    <3>3. d \in Memory /\ SameTags(f, d) /\ SameLists(f, d) /\ d.run = f.run /\ ~ d.cut /\ ~ d.over
      BY <1>1, <3>2 DEF Memory, SameTags, SameLists
    <3>4. Heap(d, B, F)
      BY <3>3, HeapNotes
    <3>5. sum = d.hdr[a].size /\ d.hdr[a].size = rows
      BY <1>2, <3>1, <3>3 DEF sum, SameTags, rows
    <3>6. Whole(sum) \in Nat
      BY <1>2, <3>5 DEF Whole, ROW
    <3>7. /\ Heap(g, B, F) /\ SameBlocks(d, g, B \ {a})
          /\ Placed(d, g, a, sum, Whole(sum), FALSE)
      BY <2>3, <3>4, <3>5, <3>6, HeapRetag
    <3>8. ~ g.hdr[a].alloc
      <4>1. g.hdr[a] = Tagged(sum, Whole(sum), FALSE)
        BY <3>7 DEF Placed, Says
      <4> QED BY <4>1, TagFields
    <3>9. SameBlocks(f, g, (B \ F) \ {a})
      BY <3>3, <3>7 DEF SameBlocks, SameTags
    <3>10. Merges(f, g, B, F, a)
      BY <3>7, <3>8, <3>9 DEF Merges
    <3> QED BY <2>4, <3>3, <3>10
  <2> QED BY <2>5, <2>6
<1> QED BY <1>9, <1>10

(* A block that is allocated is freed. *)
Frees(h, g, B, F, a) ==
    \E C, E : Steady(g, C, E) /\ C \ E = (B \ F) \ {a} /\ SameBlocks(h, g, (B \ F) \ {a})

(* sf_free of a block in use returns unless sf_errno was set before, and   *)
(* then that block is free.                                                *)
LEMMA HeapFree ==
  ASSUME NEW h, NEW B, NEW F, Steady(h, B, F), NEW a \in B, a \notin F, NEW g, g = sf_free(h, a)
  PROVE  /\ h.errno = "0" => g.run = h.run /\ (~ g.cut => Frees(h, g, B, F, a))
         /\ h.errno # "0" => g = Stop(h, "aborted")
<1> DEFINE f == Freed(h, a)
           seen == IF Rejects(h, a) THEN [h EXCEPT !.errno = "EINVAL"] ELSE h
<1>1. Heap(h, B, F) /\ h.hdr[a].alloc /\ Agrees(h, a) /\ \A c \in B \ F : h.hdr[c].alloc
  BY DEF Steady, Heap
<1>2. seen = h
  <2>1. ~ Rejects(h, a)
    BY <1>1 DEF Rejects, Agrees
  <2> QED BY <2>1
<1>3. g = IF seen.errno # "0" THEN Stop(seen, "aborted") ELSE putFits(Merge(f, a), a)
  BY DEF sf_free, seen, Merge, Freed
<1>4. CASE h.errno # "0"
  <2>1. g = Stop(h, "aborted")
    BY <1>2, <1>3, <1>4
  <2> QED BY <1>4, <2>1
<1>5. CASE h.errno = "0"
  <2> DEFINE k == Merge(f, a)
  <2>1. /\ Heap(f, B, F) /\ SameBlocks(h, f, B \ {a}) /\ SameRest(h, f)
        /\ f.hdr[a].size = h.hdr[a].size /\ ~ f.hdr[a].alloc
        /\ \A r : r # a => f.hdr[r] = h.hdr[r]
    BY <1>1, HeapFreed
  <2>2. g = putFits(k, a)
    BY <1>2, <1>3, <1>5
  <2> HIDE DEF f, seen
  <2>3. \A c \in B \ F : c # a => f.hdr[c].alloc
    BY <1>1, <2>1
  <2>4. /\ Record(k) /\ k.run = f.run
        /\ ~ k.cut => Merges(f, k, B, F, a)
    BY <2>1, <2>3, HeapMerges
  <2> HIDE DEF k
  <2>5. Flags(k, g) /\ g.run = k.run
    BY <2>2, <2>4, PutFlags
  <2>6. g.run = h.run
    BY <2>1, <2>4, <2>5 DEF SameRest
  <2>7. ASSUME ~ g.cut PROVE Frees(h, g, B, F, a)
    <3>1. Merges(f, k, B, F, a)
      BY <2>4, <2>5, <2>7 DEF Flags
    <3>2. PICK C, E : /\ Heap(k, C, E) /\ a \in C /\ a \notin E /\ ~ k.hdr[a].alloc
                      /\ C \ E = B \ F /\ SameBlocks(f, k, (B \ F) \ {a})
      BY <3>1 DEF Merges
    <3>3. Heap(g, C, E \cup {a}) /\ SameTags(k, g)
      BY <2>2, <3>2, HeapList
    <3>4. C \ (E \cup {a}) = (B \ F) \ {a}
      BY <3>2
    <3>5. SameBlocks(h, g, (B \ F) \ {a})
      BY <2>1, <3>2, <3>3 DEF SameBlocks, SameTags
    <3>6. \A c \in (B \ F) \ {a} : g.hdr[c].alloc
      BY <1>1, <3>5 DEF SameBlocks
    <3>7. Steady(g, C, E \cup {a})
      BY <3>3, <3>4, <3>6 DEF Steady
    <3> QED BY <3>4, <3>5, <3>7 DEF Frees
  <2> QED BY <1>5, <2>6, <2>7
<1> QED BY <1>4, <1>5

(* A request is rounded up to whole rows, with less than a row to spare:   *)
(* sf_malloc's and sf_realloc's ceiling (sfmm.c:259, 313).                 *)
THEOREM BlockHoldsRequest ==
    ASSUME NEW size \in Nat \ {0}
    PROVE  /\ PayloadRows(size) \in Nat \ {0}
           /\ Whole(PayloadRows(size) + 1) >= size
           /\ Whole(PayloadRows(size) + 1) < size + ROW
BY DEF PayloadRows, Whole, ROW

(* The first multiple past a number, with the divisor a variable. *)
LEMMA NextMultiple ==
    ASSUME NEW x \in Nat, NEW p \in Nat \ {0}
    PROVE  x \div p \in Nat /\ x < (x \div p + 1) * p
OBVIOUS

(* extendHeap counts pages from the request as it came, not as rounded:    *)
(* they hold the rounded payload and both tags all the same                *)
(* (sfmm.c:224-225, 266-273).                                              *)
THEOREM ExtensionSuffices ==
    ASSUME NEW size \in Nat \ {0}
    PROVE  PayloadRows(size) + 1 <= Pages(size) * PageRows
<1> DEFINE n == (size + ROW) \div PAGE_SZ + 1
<1>1. CASE size + ROW <= PAGE_SZ
  <2>1. Pages(size) = 1
    BY <1>1, PageIsRows DEF Pages, ROW
  <2>2. PayloadRows(size) + 1 <= PageRows
    BY <1>1, PageIsRows DEF PayloadRows, ROW
  <2> QED BY <2>1, <2>2, PageIsRows
<1>2. CASE size + ROW > PAGE_SZ
  <2>1. Pages(size) = n
    BY <1>2, PageIsRows DEF Pages, ROW
  <2>2. n \in Nat /\ size + ROW < n * PAGE_SZ
    BY NextMultiple, PageIsRows DEF ROW
  <2>3. PICK k \in Nat : k = n * PageRows
    BY <2>2, PageIsRows
  <2>4. n * PAGE_SZ = ROW * k
    BY <2>2, <2>3, PageIsRows DEF ROW
  <2>5. PayloadRows(size) + 1 <= k
    BY <2>2, <2>4 DEF PayloadRows, ROW
  <2> QED BY <2>1, <2>3, <2>5
<1> QED BY <1>1, <1>2, PageIsRows DEF ROW

(* The rows a request takes. *)
Need(size) == PayloadRows(size) + 1

(* The rows of a request are two at least, and hold it. *)
LEMMA NeedIs ==
  ASSUME NEW size \in Nat, size # 0
  PROVE  /\ Need(size) \in Nat /\ Need(size) >= 2
         /\ \A rows \in Nat : rows >= Need(size) => Whole(rows) >= size
<1>1. PayloadRows(size) \in Nat \ {0} /\ Whole(PayloadRows(size) + 1) >= size
  BY BlockHoldsRequest
<1> DEFINE need == Need(size)
<1>2. need \in Nat /\ need >= 2 /\ Whole(need) >= size
  BY <1>1 DEF Need
<1> HIDE DEF need
<1>3. \A rows \in Nat : rows >= need => Whole(rows) >= size
  BY <1>2 DEF Whole, ROW
<1> QED BY <1>2, <1>3 DEF need

(* The block at a holds a request of that size. *)
Holds(h, a, size) ==
    LET rows == h.hdr[a].size
    IN  Whole(rows) >= size /\ h.ftr[a + rows - 1].req = size

(* A block tagged for a request holds it. *)
LEMMA SaysHolds ==
  ASSUME NEW h, NEW a, NEW rows \in Nat, NEW size \in Nat, size # 0, rows >= Need(size),
         Says(h, a, rows, size, TRUE)
  PROVE  Holds(h, a, size) /\ h.hdr[a].alloc
<1>1. h.hdr[a] = Tagged(rows, size, TRUE) /\ h.ftr[a + rows - 1] = Footed(rows, size, TRUE)
  BY DEF Says
<1>2. h.hdr[a].size = rows /\ h.hdr[a].alloc
  BY <1>1, TagFields
<1>3. h.ftr[a + rows - 1].req = size
  BY <1>1 DEF Footed
<1>4. Whole(rows) >= size
  BY NeedIs
<1> QED BY <1>2, <1>3, <1>4 DEF Holds

(* A free block that no list holds is given away, without what it has too  *)
(* much.                                                                   *)
Gives(h, g, B, F, a, size) ==
    \E C, E : /\ Steady(g, C, E) /\ C \ E = B \ F /\ SameBlocks(h, g, (B \ F) \ {a})
              /\ Holds(g, a, size)

(* Splitting or not, the block is in use and holds the request             *)
(* (sfmm.c:275-291).                                                       *)
LEMMA HeapGive ==
  ASSUME NEW h, NEW B, NEW F, Heap(h, B, F), NEW a \in B, a \notin F,
         \A c \in B \ F : c # a => h.hdr[c].alloc,
         NEW size \in Nat, size # 0, Need(size) <= h.hdr[a].size,
         NEW g, g = Give(h, a, size)
  PROVE  Gives(h, g, B, F, a, size) /\ g.run = h.run /\ g.errno = h.errno
<1> DEFINE rows == h.hdr[a].size
           need == Need(size)
           e == place(h, a, need, size, TRUE)
           rest == rows - need
           b == a + need
           k == place(e, b, rest, Whole(rest), FALSE)
<1>1. h \in Memory /\ Tiles(h.hdr, h.brk, B) /\ F \subseteq B
  BY DEF Heap
<1>2. /\ a \in Nat /\ rows \in Nat /\ a + rows <= h.brk /\ h.brk \in Nat
  BY <1>1, BlockLies DEF Lies
<1>3. need \in Nat /\ need >= 2 /\ need <= rows
  BY NeedIs
<1>4. CASE ~ (rows > need + 1)
  <2>1. g = place(h, a, rows, size, TRUE)
    BY <1>4 DEF Give, Need
  <2>2. /\ Heap(g, B, F) /\ SameBlocks(h, g, B \ {a})
        /\ Placed(h, g, a, rows, size, TRUE)
    BY <2>1, HeapRetag
  <2>3. Holds(g, a, size) /\ g.hdr[a].alloc
    BY <1>2, <2>2, SaysHolds DEF Placed
  <2>4. \A c \in B \ F : g.hdr[c].alloc
    BY <2>2, <2>3 DEF SameBlocks
  <2>5. SameBlocks(h, g, (B \ F) \ {a})
    BY <2>2 DEF SameBlocks
  <2>6. Gives(h, g, B, F, a, size)
    BY <2>2, <2>3, <2>4, <2>5 DEF Gives, Steady
  <2> QED BY <2>2, <2>6 DEF Placed, SameRest
<1>5. CASE rows > need + 1
  <2>1. g = splitBlock(e, a, rows)
    BY <1>5 DEF Give, Need
  <2> HIDE DEF rows, need
  <2>2. rest \in Nat /\ need + 2 <= rows
    BY <1>2, <1>3, <1>5
  <2> HIDE DEF b, rest, e, k
  <2>3. /\ Heap(k, B \cup {b}, F) /\ b \notin B
        /\ SameBlocks(h, k, B \ {a}) /\ SameRest(h, k)
        /\ Placed(h, e, a, need, size, TRUE)
        /\ Says(k, a, need, size, TRUE) /\ Says(k, b, rest, Whole(rest), FALSE)
    <3>1. Splits(h, a, need, size, TRUE, FALSE, b, rest, e, k)
      BY <1>3, <2>2 DEF Splits, rows, b, rest, e, k
    <3> QED BY <3>1, HeapSplit
  <2>4. e.hdr[a].size = need /\ e.brk = h.brk
    <3>1. Says(e, a, need, size, TRUE) /\ SameRest(h, e)
      BY <2>3 DEF Placed
    <3>2. e.hdr[a].size = need
      BY <3>1, PlacedAgrees
    <3> QED BY <3>1, <3>2 DEF SameRest
  <2>5. getNextBP(e, a) = b
    <3>1. ~ (a + need > h.brk)
      BY <1>2, <1>3
    <3> QED BY <2>4, <3>1 DEF getNextBP, b
  <2>6. b # NULL
    <3>1. b \in Nat
      BY <1>2, <1>3 DEF b
    <3> QED BY <3>1, SizesAssumption
  <2>7. g = putFits(k, b)
    BY <2>1, <2>4, <2>5, <2>6 DEF splitBlock, k, rest
  <2>8. ~ k.hdr[b].alloc
    <3>1. k.hdr[b] = Tagged(rest, Whole(rest), FALSE)
      BY <2>3 DEF Says
    <3> QED BY <3>1, TagFields
  <2>9. b \notin F
    BY <1>1, <2>3
  <2>10. Heap(g, B \cup {b}, F \cup {b}) /\ SameTags(k, g) /\ g.run = k.run /\ g.errno = k.errno
    BY <2>3, <2>7, <2>8, <2>9, HeapList
  <2>11. Says(g, a, need, size, TRUE)
    BY <2>3, <2>10 DEF Says, SameTags
  <2>12. Holds(g, a, size) /\ g.hdr[a].alloc
    <3>1. need >= Need(size)
      BY <1>3 DEF need
    <3> QED BY <1>3, <2>11, <3>1, SaysHolds
  <2>13. SameBlocks(h, g, (B \ F) \ {a})
    BY <2>3, <2>10 DEF SameBlocks, SameTags
  <2>14. (B \cup {b}) \ (F \cup {b}) = B \ F
    BY <2>3
  <2>15. \A c \in B \ F : g.hdr[c].alloc
    BY <2>12, <2>13 DEF SameBlocks
  <2>16. Gives(h, g, B, F, a, size)
    BY <2>10, <2>12, <2>13, <2>14, <2>15 DEF Gives, Steady
  <2> QED BY <2>3, <2>10, <2>16 DEF SameRest
<1> QED BY <1>4, <1>5

(* The search finds a block that is large enough, if a list holds one. *)
LEMMA HeapFits ==
  ASSUME NEW h, NEW B, NEW F, Heap(h, B, F), NEW rows \in Nat, NEW fit, fit = findFits(h, rows)
  PROVE  /\ ~ Loops(h, rows)
         /\ fit # NULL => fit \in F /\ h.hdr[fit].size >= rows
         /\ fit = NULL => \A a \in F : h.hdr[a].size < rows
<1> DEFINE fits == Fits(h, rows)
           before(f, g) == f[1] < g[1] \/ (f[1] = g[1] /\ f[2] <= g[2])
<1>1. h \in Memory /\ Tiles(h.hdr, h.brk, B) /\ F \subseteq B
  BY DEF Heap
<1>2. \A b \in F : /\ b \in 0 .. Limit - 1 /\ b # NULL /\ h.hdr[b].size \in Nat
  <2> SUFFICES ASSUME NEW b \in F PROVE b \in 0 .. Limit - 1 /\ b # NULL /\ h.hdr[b].size \in Nat
    OBVIOUS
  <2>1. Lies(h, b)
    BY <1>1, BlockLies
  <2>2. b \in Rows /\ b \in 0 .. Limit - 1 /\ h.hdr[b].size \in Nat
    BY <2>1 DEF Lies
  <2> QED BY <2>2, NullIsNoRow
<1>3. ASSUME NEW i \in Lists PROVE Nodes(h, i) = Sized(h, F, i) /\ ~ Endless(h, i)
  <2>1. h.head \in [Lists -> Link] /\ h.next \in [Rows -> Link]
    BY <1>1 DEF Memory
  <2>2. List(h, i, Sized(h, F, i))
    BY DEF Heap, Listing, Sized
  <2>3. Sized(h, F, i) \subseteq 0 .. Limit - 1
    BY <1>2 DEF Sized
  <2> QED BY <2>1, <2>2, <2>3, ListNodes
<1>4. ~ Loops(h, rows)
  BY <1>3 DEF Loops
<1>5. \A f \in fits : /\ f \in Lists \X Steps /\ f[1] \in Nat /\ f[2] \in Nat
                      /\ Walk(h, f[1])[f[2]] \in F
                      /\ h.hdr[Walk(h, f[1])[f[2]]].size >= rows
  <2> SUFFICES ASSUME NEW f \in fits
               PROVE  /\ f \in Lists \X Steps /\ f[1] \in Nat /\ f[2] \in Nat
                      /\ Walk(h, f[1])[f[2]] \in F
                      /\ h.hdr[Walk(h, f[1])[f[2]]].size >= rows
    OBVIOUS
  <2> DEFINE a == Walk(h, f[1])[f[2]]
  <2>1. f \in Lists \X Steps /\ a # NULL /\ h.hdr[a].size >= rows
    BY DEF Fits, FitsFrom
  <2>2. f[1] \in Lists /\ f[2] \in Steps
    BY <2>1
  <2>3. f[1] \in Nat /\ f[2] \in Nat
    BY <2>2, Limits DEF Lists
  <2>4. a \in Nodes(h, f[1])
    BY <2>1, <2>2 DEF Nodes
  <2>5. a \in F
    BY <1>3, <2>2, <2>4 DEF Sized
  <2> QED BY <2>1, <2>3, <2>5
<1>6. ASSUME fits # {} PROVE \E f \in fits : \A g \in fits : before(f, g)
  <2> DEFINE D == {f[1] : f \in fits}
  <2>1. D \subseteq Nat /\ D # {}
    <3> HIDE DEF fits
    <3> QED BY <1>5, <1>6
  <2>2. PICK i \in D : \A j \in D : i <= j
    <3> HIDE DEF D
    <3> QED BY <2>1, LeastNumber
  <2> DEFINE E == {f[2] : f \in {e \in fits : e[1] = i}}
  <2>3. E \subseteq Nat /\ E # {}
    <3> HIDE DEF fits
    <3> QED BY <1>5, <2>2
  <2>4. PICK k \in E : \A j \in E : k <= j
    <3> HIDE DEF E
    <3> QED BY <2>3, LeastNumber
  <2> HIDE DEF fits
  <2>5. PICK f \in fits : f[1] = i /\ f[2] = k
    BY <2>4
  <2>6. ASSUME NEW g \in fits PROVE before(f, g)
    <3>1. i <= g[1] /\ i \in Nat /\ g[1] \in Nat
      BY <1>5, <2>1, <2>2
    <3>2. g[1] = i => k <= g[2]
      BY <2>4
    <3> QED BY <2>5, <3>1, <3>2
  <2> QED BY <2>5, <2>6
<1> DEFINE first == CHOOSE f \in fits : \A g \in fits : before(f, g)
<1>7. fit = IF fits = {} THEN NULL ELSE Walk(h, first[1])[first[2]]
  BY DEF findFits
<1> HIDE DEF before
<1>8. fits # {} => first \in fits
  <2> HIDE DEF fits
  <2> QED BY <1>6
<1>9. CASE fits # {}
  <2> HIDE DEF first, fits
  <2>1. fit = Walk(h, first[1])[first[2]] /\ first \in fits
    BY <1>7, <1>8, <1>9
  <2>2. fit \in F /\ h.hdr[fit].size >= rows
    BY <1>5, <2>1
  <2> QED BY <1>2, <1>4, <2>2
<1>10. CASE fits = {}
  <2>1. fit = NULL
    BY <1>7, <1>10
  <2>2. ASSUME NEW a \in F, ~ (h.hdr[a].size < rows) PROVE FALSE
    <3> DEFINE size == h.hdr[a].size
               i == getListNum(size)
    <3>1. size \in Nat /\ rows <= size
      BY <1>2, <2>2
    <3> HIDE DEF size
    <3>2. i \in Lists /\ getListNum(rows) <= i
      BY <3>1, GetListNum
    <3> HIDE DEF i
    <3>3. a \in Nodes(h, i)
      BY <1>3, <3>2 DEF Sized, i, size
    <3>4. PICK k \in Steps : Walk(h, i)[k] = a
      BY <3>3 DEF Nodes
    <3> DEFINE f == <<i, k>>
    <3>5. f \in Lists \X Steps /\ f[1] = i /\ f[2] = k
      BY <3>2
    <3> HIDE DEF f
    <3>6. i >= getListNum(rows)
      <4>1. getListNum(rows) \in Lists
        BY <3>1, GetListNum
      <4> QED BY <3>2, <4>1 DEF Lists
    <3>7. a # NULL /\ h.hdr[a].size >= rows
      BY <1>2, <3>1 DEF size
    <3>8. f \in fits
      BY <3>4, <3>5, <3>6, <3>7 DEF Fits, FitsFrom
    <3> QED BY <1>10, <3>8
  <2> QED BY <1>4, <2>1, <2>2
<1> QED BY <1>9, <1>10

(* The heap grows: the block at its end is free, in no list, and large     *)
(* enough.                                                                 *)
Offers(h, r, B, F, size) ==
    \E C, E : /\ Heap(r.mem, C, E) /\ r.bp \in C /\ r.bp \notin E
              /\ r.mem.hdr[r.bp].size >= Need(size)
              /\ r.bp \notin B \ F /\ C \ E = (B \ F) \cup {r.bp}
              /\ SameBlocks(h, r.mem, B \ F)

(* The heap grows unless every page is in use (extendHeap,                 *)
(* sfmm.c:216-238).                                                        *)
LEMMA HeapExtend ==
  ASSUME NEW h, NEW B, NEW F, Steady(h, B, F), NEW size \in Nat, size # 0,
         NEW r, r = extendHeap(h, size)
  PROVE  /\ h.counter = MaxPages => r = [mem |-> [h EXCEPT !.errno = "ENOMEM"], bp |-> NULL]
         /\ h.counter # MaxPages => r.bp # NULL
         /\ h.counter # MaxPages /\ ~ r.mem.cut /\ ~ r.mem.over =>
              Offers(h, r, B, F, size) /\ r.mem.run = h.run
<1> DEFINE n == Pages(size)
           a == h.brk
           rows == n * PageRows
           s == sf_sbrk(h, n)
           k == place(s, a, rows, Whole(rows), FALSE)
           p == getPrevBP(k, a)
           d == delBlkInList(k, p)
<1>1. /\ Heap(h, B, F) /\ h \in Memory /\ Paged(h) /\ Tiles(h.hdr, a, B) /\ F \subseteq B
      /\ \A c \in B \ F : h.hdr[c].alloc
  BY DEF Steady, Heap
<1>2. n \in Nat \ {0} /\ Need(size) <= rows
  BY PagesNumber, ExtensionSuffices DEF Need
<1>3. h.counter \in Nat /\ h.counter <= MaxPages /\ MaxPages \in Nat /\ a \in Nat /\ a # NULL /\ Record(h)
  <2>1. h.counter \in Nat /\ h.counter <= MaxPages /\ MaxPages \in Nat
    BY <1>1, SizesAssumption DEF Memory, Paged
  <2>2. a \in Nat
    BY <1>1, Limits DEF Memory
  <2>3. a # NULL /\ Record(h)
    BY <1>1, <2>2, SizesAssumption, MemoryRecord
  <2> QED BY <2>1, <2>2, <2>3
<1>4. r = CASE h.counter = MaxPages -> [mem |-> [h EXCEPT !.errno = "ENOMEM"], bp |-> NULL]
            [] h.counter > MaxPages -> [mem |-> Stop(h, "crashed"), bp |-> NULL]
            [] h.counter < MaxPages ->
                  IF p # NULL /\ ~ k.hdr[p].alloc
                  THEN [mem |-> coalesce(d, p, a), bp |-> p] ELSE [mem |-> k, bp |-> a]
  BY DEF extendHeap, d, p, k, s, rows, a, n
<1>5. CASE h.counter = MaxPages
  <2>1. ~ (h.counter > MaxPages) /\ ~ (h.counter < MaxPages)
    BY <1>3, <1>5
  <2>2. r = [mem |-> [h EXCEPT !.errno = "ENOMEM"], bp |-> NULL]
    <3> HIDE DEF p, k, d
    <3> QED BY <1>4, <1>5, <2>1
  <2> QED BY <1>5, <2>2
<1>6. CASE h.counter # MaxPages
  <2>1. h.counter < MaxPages /\ ~ (h.counter > MaxPages)
    BY <1>3, <1>6
  <2>2. r = IF p # NULL /\ ~ k.hdr[p].alloc
            THEN [mem |-> coalesce(d, p, a), bp |-> p] ELSE [mem |-> k, bp |-> a]
    <3> HIDE DEF p, k, d
    <3> QED BY <1>4, <1>6, <2>1
  <2>3. r.bp # NULL
    <3> HIDE DEF p, k, d
    <3> QED BY <1>3, <2>2
  <2>4. ASSUME ~ r.mem.cut, ~ r.mem.over PROVE Offers(h, r, B, F, size) /\ r.mem.run = h.run
    <3>1. Flags(h, s) /\ s.over = (h.over \/ h.counter + n > MaxPages)
      <4>1. Flags(h, s)
        BY <1>2, <1>3, SbrkFlags
      <4>2. s.over = (h.over \/ h.counter + n > MaxPages)
        BY <1>1 DEF sf_sbrk, Memory
      <4> QED BY <4>1, <4>2
    <3> HIDE DEF s, rows
    <3>2. Flags(s, k)
      BY <3>1, PlaceFlags DEF Flags
    <3> HIDE DEF k
    <3>3. Flags(k, d)
      BY <3>2, DelFlags DEF Flags
    <3> HIDE DEF d
    <3>4. Flags(d, coalesce(d, p, a))
      BY <3>3, CoalesceFlags DEF Flags
    <3>5. ~ s.over
      <4>1. r.mem = coalesce(d, p, a) \/ r.mem = k
        <5> HIDE DEF p
        <5> QED BY <2>2
      <4> HIDE DEF p
      <4> QED BY <2>4, <3>2, <3>3, <3>4, <4>1 DEF Flags
    <3>6. h.counter + n <= MaxPages
      <4>1. ~ (h.counter + n > MaxPages)
        BY <3>1, <3>5
      <4> QED BY <1>2, <1>3, <4>1
    <3>7. Grows(h, n, a, rows, k)
      BY <1>2, <3>6 DEF Grows, Span, rows, k, s
    <3>8. /\ Heap(k, B \cup {a}, F) /\ a \notin B /\ SameBlocks(h, k, B) /\ k.run = h.run
          /\ k.hdr[a].size = rows /\ ~ k.hdr[a].alloc /\ k.brk = a + rows
      <4>1. Heap(h, B, F) /\ Grows(h, n, a, rows, k)
        BY <1>1, <3>7
      <4> HIDE DEF n, a, p
      <4>2. Grown(h, a, rows, B, F, k)
        BY <4>1, HeapGrow
      <4> QED BY <4>2 DEF Grown
    <3>9. \A c \in B : Lies(h, c)
      BY <1>1, BlockLies
    <3>10. rows \in Nat
      BY <1>2, PageIsRows DEF rows
    <3>11. CASE p # NULL /\ ~ k.hdr[p].alloc
      <4>1. r.mem = coalesce(d, p, a) /\ r.bp = p
        <5> HIDE DEF p
        <5> QED BY <2>2, <3>11
      <4>2. a # 0 /\ p = a - k.ftr[a - 1].size
        BY <3>11 DEF getPrevBP
      <4>3. PICK c \in B : c + h.hdr[c].size = a
        BY <1>1, <4>2 DEF Tiles
      <4>4. k.ftr[a - 1].size = h.hdr[c].size
        <5>1. Agrees(h, c)
          BY <1>1 DEF Heap
        <5> DEFINE z == c + h.hdr[c].size - 1
        <5>4. z = a - 1
          <6>1. h.hdr[c].size \in Nat /\ c \in Nat
            BY <3>9 DEF Lies
          <6> QED BY <1>3, <4>3, <6>1
        <5>5. k.ftr[z] = h.ftr[z]
          BY <3>8, <4>3 DEF SameBlocks
        <5>6. h.ftr[z].size = h.hdr[c].size
          BY <5>1 DEF Agrees
        <5> HIDE DEF z
        <5>2. k.ftr[a - 1] = h.ftr[a - 1]
          BY <5>4, <5>5
        <5>3. h.ftr[a - 1].size = h.hdr[c].size
          BY <5>4, <5>6
        <5> QED BY <5>2, <5>3
      <4>5. c \in Nat /\ h.hdr[c].size \in Nat
        BY <3>9 DEF Lies
      <4>6. p = c
        BY <4>2, <4>3, <4>4, <4>5
      <4> HIDE DEF p
      <4>7. k.hdr[c] = h.hdr[c] /\ c \in F
        BY <1>1, <3>8, <3>11, <4>6 DEF SameBlocks
      <4>8. /\ d \in Memory /\ SameTags(k, d) /\ d.run = k.run
            /\ ~ d.cut => Heap(d, B \cup {a}, F \ {c})
        BY <3>8, <4>6, <4>7, HeapUnlist DEF d
      <4>9. Heap(d, B \cup {a}, F \ {c})
        BY <2>4, <3>4, <4>1, <4>8 DEF Flags
      <4>10. c \notin F \ {c} /\ a \notin F \ {c} /\ a = c + d.hdr[c].size
        BY <1>1, <3>8, <4>3, <4>7, <4>8 DEF SameTags
      <4> DEFINE g == coalesce(d, c, a)
      <4>11. /\ Heap(g, (B \cup {a}) \ {a}, F \ {c}) /\ SameBlocks(d, g, (B \cup {a}) \ {c, a}) /\ SameRest(d, g)
             /\ g.hdr[c].size = d.hdr[c].size + d.hdr[a].size /\ ~ g.hdr[c].alloc
        BY <4>9, <4>10, HeapMerge
      <4>12. (B \cup {a}) \ {a} = B
        BY <3>8
      <4>13. r.mem = g /\ r.bp = c
        BY <4>1, <4>6
      <4> HIDE DEF g
      <4>14. g.hdr[c].size >= Need(size)
        <5>1. d.hdr[c].size = h.hdr[c].size /\ d.hdr[a].size = rows
          BY <3>8, <4>7, <4>8 DEF SameTags
        <5>2. Need(size) \in Nat
          BY NeedIs
        <5> QED BY <1>2, <3>10, <4>5, <4>11, <5>1, <5>2
      <4>15. c \notin B \ F /\ B \ (F \ {c}) = (B \ F) \cup {c}
        BY <4>7
      <4>16. SameBlocks(h, g, B \ F)
        BY <3>8, <4>7, <4>8, <4>11 DEF SameBlocks, SameTags
      <4>17. Heap(g, B, F \ {c})
        BY <4>11, <4>12
      <4>18. Offers(h, r, B, F, size)
        BY <4>10, <4>13, <4>14, <4>15, <4>16, <4>17 DEF Offers
      <4> QED BY <3>8, <4>8, <4>11, <4>13, <4>18 DEF SameRest
    <3>12. CASE ~ (p # NULL /\ ~ k.hdr[p].alloc)
      <4>1. r.mem = k /\ r.bp = a
        <5> HIDE DEF p
        <5> QED BY <2>2, <3>12
      <4>2. a \notin F /\ (B \cup {a}) \ F = (B \ F) \cup {a} /\ a \notin B \ F /\ a \in B \cup {a}
        BY <1>1, <3>8
      <4>3. SameBlocks(h, k, B \ F)
        BY <3>8 DEF SameBlocks
      <4>4. k.hdr[a].size >= Need(size)
        <5>1. Need(size) \in Nat
          BY NeedIs
        <5> QED BY <1>2, <3>8, <3>10, <5>1
      <4>5. Offers(h, r, B, F, size)
        BY <3>8, <4>1, <4>2, <4>3, <4>4 DEF Offers
      <4> QED BY <3>8, <4>1, <4>5
    <3> QED BY <3>11, <3>12
  <2> QED BY <1>6, <2>3, <2>4
<1> QED BY <1>5, <1>6

(* sf_malloc gives up.                                                     *)
Refuses(h, F, size) ==
    \/ PayloadRows(size) >= Limit
    \/ h.counter = MaxPages /\ \A a \in F : h.hdr[a].size < Need(size)

(* It has given a block that was in no use.                                *)
Allocates(h, g, a, B, F, size) ==
    \E C, E : /\ Steady(g, C, E) /\ C \ E = (B \ F) \cup {a} /\ a \notin B \ F
              /\ SameBlocks(h, g, B \ F) /\ Holds(g, a, size)

(* sf_malloc, for a request that is not empty. *)
LEMMA HeapMalloc ==
  ASSUME NEW h, NEW B, NEW F, Steady(h, B, F), NEW size \in Nat, size # 0,
         NEW r, r = sf_malloc(h, size)
  PROVE  /\ r.bp = NULL => Refuses(h, F, size) /\ r.mem = [h EXCEPT !.errno = "ENOMEM"]
         /\ r.bp # NULL /\ ~ r.mem.cut /\ ~ r.mem.over =>
              Allocates(h, r.mem, r.bp, B, F, size) /\ r.mem.run = h.run
<1> DEFINE fit == findFits(h, Need(size))
           x == extendHeap(h, size)
           d == delBlkInList(h, fit)
           got == IF fit = NULL THEN x ELSE [mem |-> d, bp |-> fit]
           full == [mem |-> [h EXCEPT !.errno = "ENOMEM"], bp |-> NULL]
           y == Give(got.mem, got.bp, size)
<1>1. Heap(h, B, F) /\ h \in Memory /\ Record(h) /\ F \subseteq B /\ \A c \in B \ F : h.hdr[c].alloc
  BY MemoryRecord DEF Steady, Heap
<1>2. PayloadRows(size) \in Nat /\ Need(size) \in Nat /\ Limit \in Nat
  BY BlockHoldsRequest, NeedIs, Limits
<1>3. /\ ~ Loops(h, Need(size))
      /\ fit # NULL => fit \in F /\ h.hdr[fit].size >= Need(size)
      /\ fit = NULL => \A a \in F : h.hdr[a].size < Need(size)
  BY <1>1, <1>2, HeapFits
<1>4. r = CASE PayloadRows(size) >= MaxPages * PageRows -> full
            [] PayloadRows(size) < MaxPages * PageRows ->
                 IF Loops(h, Need(size)) THEN [mem |-> Stop(h, "hung"), bp |-> NULL]
                 ELSE IF got.bp = NULL THEN got ELSE [mem |-> y, bp |-> got.bp]
  <2> DEFINE zero == [mem |-> Stop([h EXCEPT !.errno = "EINVAL"], "aborted"), bp |-> NULL]
  <2>1. r = CASE size = 0 -> zero
              [] size # 0 /\ PayloadRows(size) >= MaxPages * PageRows -> full
              [] size # 0 /\ PayloadRows(size) < MaxPages * PageRows ->
                   IF Loops(h, Need(size)) THEN [mem |-> Stop(h, "hung"), bp |-> NULL]
                   ELSE IF got.bp = NULL THEN got ELSE [mem |-> y, bp |-> got.bp]
    BY DEF sf_malloc, Need, fit, got, x, d, full, y, zero
  <2>2. PayloadRows(size) >= MaxPages * PageRows <=> ~ (PayloadRows(size) < MaxPages * PageRows)
    BY <1>2 DEF Limit
  <2> HIDE DEF zero, full, y, got
  <2> QED BY <2>1, <2>2
<1>5. CASE PayloadRows(size) >= Limit
  <2>1. r = full
    <3> HIDE DEF got, full, y
    <3> QED BY <1>2, <1>4, <1>5 DEF Limit
  <2> QED BY <1>5, <2>1 DEF Refuses
<1>6. CASE PayloadRows(size) < Limit
  <2>1. r = IF got.bp = NULL THEN got ELSE [mem |-> y, bp |-> got.bp]
    <3> HIDE DEF got, full, y
    <3>1. ~ (PayloadRows(size) >= Limit)
      BY <1>2, <1>6
    <3> QED BY <1>3, <1>4, <1>6, <3>1 DEF Limit
  <2>2. CASE fit # NULL
    <3>1. r = [mem |-> y, bp |-> fit] /\ y = Give(d, fit, size) /\ fit \in F
      <4> HIDE DEF fit, d, x
      <4> QED BY <1>3, <2>1, <2>2
    <3> HIDE DEF y, got, x
    <3>2. /\ d \in Memory /\ SameTags(h, d) /\ d.run = h.run
          /\ ~ d.cut => Heap(d, B, F \ {fit})
      <4> HIDE DEF fit
      <4> QED BY <1>1, <3>1, HeapUnlist
    <3> HIDE DEF d, fit
    <3>3. Flags(d, y)
      BY <3>1, <3>2, MemoryRecord, GiveFlags
    <3>4. ASSUME ~ y.cut PROVE Allocates(h, y, fit, B, F, size) /\ y.run = h.run
      <4>1. Heap(d, B, F \ {fit})
        BY <3>2, <3>3, <3>4 DEF Flags
      <4>2. fit \in B /\ fit \notin F \ {fit} /\ B \ (F \ {fit}) = (B \ F) \cup {fit} /\ fit \notin B \ F
        BY <1>1, <3>1
      <4>3. (\A c \in B \ (F \ {fit}) : c # fit => d.hdr[c].alloc) /\ Need(size) <= d.hdr[fit].size
        <5>1. d.hdr = h.hdr
          BY <3>2 DEF SameTags
        <5>2. h.hdr[fit].size \in Nat /\ h.hdr[fit].size >= Need(size)
          <6>1. Lies(h, fit)
            BY <1>1, <4>2, BlockLies DEF Heap
          <6> QED BY <1>3, <2>2, <6>1 DEF Lies
        <5>3. Need(size) <= h.hdr[fit].size
          BY <1>2, <5>2
        <5> QED BY <1>1, <4>2, <5>1, <5>3
      <4>4. Gives(d, y, B, F \ {fit}, fit, size) /\ y.run = d.run
        BY <3>1, <4>1, <4>2, <4>3, HeapGive
      <4>5. PICK C, E : /\ Steady(y, C, E) /\ C \ E = B \ (F \ {fit})
                        /\ SameBlocks(d, y, (B \ (F \ {fit})) \ {fit}) /\ Holds(y, fit, size)
        BY <4>4 DEF Gives
      <4>6. (B \ (F \ {fit})) \ {fit} = B \ F
        BY <4>2
      <4>7. SameBlocks(d, y, B \ F)
        BY <4>5, <4>6
      <4>8. SameBlocks(h, y, B \ F)
        BY <3>2, <4>7 DEF SameBlocks, SameTags
      <4>9. C \ E = (B \ F) \cup {fit}
        BY <4>2, <4>5
      <4>10. Allocates(h, y, fit, B, F, size)
        BY <4>2, <4>5, <4>8, <4>9 DEF Allocates
      <4> QED BY <3>2, <4>4, <4>10
    <3>5. r.mem = y /\ r.bp = fit
      BY <3>1
    <3> QED BY <2>2, <3>4, <3>5
  <2>3. CASE fit = NULL
    <3>1. r = (IF x.bp = NULL THEN x ELSE [mem |-> y, bp |-> x.bp]) /\ y = Give(x.mem, x.bp, size)
      <4> HIDE DEF fit, d, x
      <4> QED BY <2>1, <2>3
    <3> HIDE DEF y, got, d
    <3>2. /\ h.counter = MaxPages => x = full
          /\ h.counter # MaxPages => x.bp # NULL
          /\ h.counter # MaxPages /\ ~ x.mem.cut /\ ~ x.mem.over =>
               Offers(h, x, B, F, size) /\ x.mem.run = h.run
      BY HeapExtend
    <3>3. Flags(h, x.mem)
      BY <1>1, ExtendFlags
    <3> HIDE DEF x, fit
    <3>4. CASE h.counter = MaxPages
      <4>1. r = full
        BY <3>1, <3>2, <3>4
      <4> QED BY <1>3, <2>3, <3>4, <4>1 DEF Refuses
    <3>5. CASE h.counter # MaxPages
      <4>1. r = [mem |-> y, bp |-> x.bp] /\ x.bp # NULL
        BY <3>1, <3>2, <3>5
      <4>2. Flags(x.mem, y)
        BY <3>1, <3>3, GiveFlags DEF Flags
      <4>3. ASSUME ~ y.cut, ~ y.over PROVE Allocates(h, y, x.bp, B, F, size) /\ y.run = h.run
        <5>1. Offers(h, x, B, F, size) /\ x.mem.run = h.run
          BY <3>2, <3>5, <4>2, <4>3 DEF Flags
        <5>2. PICK C, E : /\ Heap(x.mem, C, E) /\ x.bp \in C /\ x.bp \notin E
                          /\ x.mem.hdr[x.bp].size >= Need(size)
                          /\ x.bp \notin B \ F /\ C \ E = (B \ F) \cup {x.bp}
                          /\ SameBlocks(h, x.mem, B \ F)
          BY <5>1 DEF Offers
        <5>3. \A c \in C \ E : c # x.bp => x.mem.hdr[c].alloc
          BY <1>1, <5>2 DEF SameBlocks
        <5>4. Need(size) <= x.mem.hdr[x.bp].size
          <6>1. Lies(x.mem, x.bp)
            BY <5>2, BlockLies DEF Heap
          <6> QED BY <1>2, <5>2, <6>1 DEF Lies
        <5>5. Gives(x.mem, y, C, E, x.bp, size) /\ y.run = x.mem.run
          BY <3>1, <5>2, <5>3, <5>4, HeapGive
        <5>6. PICK C2, E2 : /\ Steady(y, C2, E2) /\ C2 \ E2 = C \ E
                            /\ SameBlocks(x.mem, y, (C \ E) \ {x.bp}) /\ Holds(y, x.bp, size)
          BY <5>5 DEF Gives
        <5>7. (C \ E) \ {x.bp} = B \ F
          BY <5>2
        <5>8. SameBlocks(x.mem, y, B \ F)
          BY <5>6, <5>7
        <5>9. SameBlocks(h, y, B \ F)
          BY <5>2, <5>8 DEF SameBlocks
        <5>10. Allocates(h, y, x.bp, B, F, size)
          BY <5>2, <5>6, <5>9 DEF Allocates
        <5> QED BY <5>1, <5>5, <5>10
      <4>4. r.mem = y /\ r.bp = x.bp
        BY <4>1
      <4> QED BY <4>1, <4>3, <4>4
    <3> QED BY <3>4, <3>5
  <2> QED BY <2>2, <2>3
<1> QED BY <1>2, <1>5, <1>6

(* A note in the globals, or the end of the process, leaves the heap alone. *)
LEMMA SteadyNotes ==
  ASSUME NEW h, NEW B, NEW F, Steady(h, B, F)
  PROVE  /\ Steady(Stop(h, "aborted"), B, F)
         /\ \A no \in {"0", "EINVAL", "ENOMEM"} : Steady([h EXCEPT !.errno = no], B, F)
<1>1. Heap(h, B, F) /\ h \in Memory /\ ~ h.cut /\ ~ h.over /\ \A c \in B \ F : h.hdr[c].alloc
  BY DEF Steady, Heap
<1>2. ASSUME NEW g \in Memory, SameTags(h, g), SameLists(h, g), g.cut = h.cut, g.over = h.over
      PROVE  Steady(g, B, F)
  <2>1. ~ g.cut /\ ~ g.over
    BY <1>1, <1>2
  <2>2. Heap(g, B, F)
    BY <1>1, <1>2, <2>1, HeapNotes
  <2> QED BY <1>1, <1>2, <2>2 DEF Steady, SameTags
<1>3. Steady(Stop(h, "aborted"), B, F)
  <2> DEFINE g == Stop(h, "aborted")
  <2>1. g \in Memory /\ SameTags(h, g) /\ SameLists(h, g) /\ g.cut = h.cut /\ g.over = h.over
    BY <1>1 DEF Stop, Memory, SameTags, SameLists
  <2> HIDE DEF g
  <2>2. Steady(g, B, F)
    BY <1>2, <2>1
  <2> QED BY <2>2 DEF g
<1>4. ASSUME NEW no \in {"0", "EINVAL", "ENOMEM"} PROVE Steady([h EXCEPT !.errno = no], B, F)
  <2> DEFINE g == [h EXCEPT !.errno = no]
  <2>1. g \in Memory /\ SameTags(h, g) /\ SameLists(h, g) /\ g.cut = h.cut /\ g.over = h.over
    BY <1>1 DEF Memory, SameTags, SameLists
  <2> HIDE DEF g
  <2>2. Steady(g, B, F)
    BY <1>2, <2>1
  <2> QED BY <2>2 DEF g
<1> QED BY <1>3, <1>4

(* How the process is after it has ended. *)
LEMMA StopRuns ==
  ASSUME NEW h, Record(h), NEW why
  PROVE  /\ h.run = "running" => Stop(h, why).run = why
         /\ Stop(h, why).cut = h.cut /\ Stop(h, why).over = h.over
BY DEF Record, Stop

(* A smaller request fits where a larger one was.                          *)
LEMMA NeedFits ==
  ASSUME NEW size \in Nat, size # 0, NEW rows \in Nat, Whole(rows) >= size
  PROVE  Need(size) <= rows
BY DEF Need, PayloadRows, Whole, ROW

(* What is too much of a block is split off, and freed.                    *)
LEMMA HeapShrink ==
  ASSUME NEW h, NEW B, NEW F, Steady(h, B, F), NEW a \in B, a \notin F, h.errno = "0",
         NEW size \in Nat, size # 0, Need(size) <= h.hdr[a].size,
         NEW g, g = Shrink(h, a, size)
  PROVE  g.run = h.run /\ (~ g.cut => Gives(h, g, B, F, a, size))
<1> DEFINE rows == h.hdr[a].size
           need == Need(size)
           e == place(h, a, need, size, TRUE)
           rest == rows - need
           b == a + need
           k == place(e, b, rest, Whole(rest), TRUE)
<1>1. Heap(h, B, F) /\ h \in Memory /\ Tiles(h.hdr, h.brk, B) /\ F \subseteq B /\ \A c \in B \ F : h.hdr[c].alloc
  BY DEF Steady, Heap
<1>2. /\ a \in Nat /\ rows \in Nat /\ a + rows <= h.brk /\ h.brk \in Nat
  BY <1>1, BlockLies DEF Lies
<1>3. need \in Nat /\ need >= 2 /\ need <= rows
  BY NeedIs
<1>4. CASE rest <= 1
  <2>1. g = place(h, a, rows, size, TRUE)
    BY <1>4 DEF Shrink, Need
  <2>2. /\ Heap(g, B, F) /\ SameBlocks(h, g, B \ {a})
        /\ Placed(h, g, a, rows, size, TRUE)
    BY <1>1, <2>1, HeapRetag
  <2>3. Holds(g, a, size) /\ g.hdr[a].alloc
    BY <1>2, <2>2, SaysHolds DEF Placed
  <2>4. \A c \in B \ F : g.hdr[c].alloc
    BY <1>1, <2>2, <2>3 DEF SameBlocks
  <2>5. SameBlocks(h, g, (B \ F) \ {a})
    BY <2>2 DEF SameBlocks
  <2>6. Gives(h, g, B, F, a, size)
    BY <2>2, <2>3, <2>4, <2>5 DEF Gives, Steady
  <2> QED BY <2>2, <2>6 DEF Placed, SameRest
<1>5. CASE ~ (rest <= 1)
  <2>1. g = LET n == getNextBP(e, a)
                p == place(e, n, rest, Whole(rest), TRUE)
            IN  IF n = NULL THEN p ELSE sf_free(p, n)
    BY <1>5 DEF Shrink, Need
  <2> HIDE DEF rows, need
  <2>2. rest \in Nat /\ need + 2 <= rows
    BY <1>2, <1>3, <1>5
  <2> HIDE DEF b, rest, e, k
  <2>3. /\ Heap(k, B \cup {b}, F) /\ b \notin B
        /\ SameBlocks(h, k, B \ {a}) /\ SameRest(h, k)
        /\ Placed(h, e, a, need, size, TRUE)
        /\ Says(k, a, need, size, TRUE) /\ Says(k, b, rest, Whole(rest), TRUE)
    <3>1. Splits(h, a, need, size, TRUE, TRUE, b, rest, e, k)
      BY <1>3, <2>2 DEF Splits, rows, b, rest, e, k
    <3> QED BY <1>1, <3>1, HeapSplit
  <2>4. e.hdr[a].size = need /\ e.brk = h.brk
    <3>1. Says(e, a, need, size, TRUE) /\ SameRest(h, e)
      BY <2>3 DEF Placed
    <3>2. e.hdr[a].size = need
      BY <3>1, PlacedAgrees
    <3> QED BY <3>1, <3>2 DEF SameRest
  <2>5. getNextBP(e, a) = b
    <3>1. ~ (a + need > h.brk)
      BY <1>2, <1>3
    <3> QED BY <2>4, <3>1 DEF getNextBP, b
  <2>6. b # NULL
    <3>1. b \in Nat
      BY <1>2, <1>3 DEF b
    <3> QED BY <3>1, SizesAssumption
  <2>7. g = sf_free(k, b)
    BY <2>1, <2>5, <2>6 DEF k
  <2>8. k.hdr[b].alloc /\ k.hdr[a].alloc
    <3>1. k.hdr[b] = Tagged(rest, Whole(rest), TRUE) /\ k.hdr[a] = Tagged(need, size, TRUE)
      BY <2>3 DEF Says
    <3> QED BY <3>1, TagFields
  <2>9. b \notin F /\ b # a
    BY <1>1, <2>3
  <2>10. Steady(k, B \cup {b}, F)
    <3>1. \A c \in (B \cup {b}) \ F : k.hdr[c].alloc
      BY <1>1, <2>3, <2>8 DEF SameBlocks
    <3> QED BY <2>3, <3>1 DEF Steady
  <2>11. k.errno = "0" /\ k.run = h.run
    BY <2>3 DEF SameRest
  <2>12. g.run = k.run /\ (~ g.cut => Frees(k, g, B \cup {b}, F, b))
    BY <2>7, <2>9, <2>10, <2>11, HeapFree
  <2>13. ASSUME ~ g.cut PROVE Gives(h, g, B, F, a, size)
    <3>1. PICK C, E : /\ Steady(g, C, E) /\ C \ E = ((B \cup {b}) \ F) \ {b}
                      /\ SameBlocks(k, g, ((B \cup {b}) \ F) \ {b})
      BY <2>12, <2>13 DEF Frees
    <3>2. ((B \cup {b}) \ F) \ {b} = B \ F
      BY <2>3
    <3>3. SameBlocks(k, g, B \ F)
      BY <3>1, <3>2
    <3>4. SameBlocks(h, g, (B \ F) \ {a})
      BY <2>3, <3>3 DEF SameBlocks
    <3>5. Says(g, a, need, size, TRUE)
      <4>1. k.hdr[a].size = need
        BY <2>3, PlacedAgrees
      <4>2. g.hdr[a] = k.hdr[a] /\ g.ftr[a + k.hdr[a].size - 1] = k.ftr[a + k.hdr[a].size - 1]
        BY <3>3 DEF SameBlocks
      <4> QED BY <2>3, <4>1, <4>2 DEF Says
    <3>6. Holds(g, a, size)
      <4>1. need >= Need(size)
        BY <1>3 DEF need
      <4> QED BY <1>3, <3>5, <4>1, SaysHolds
    <3>7. Steady(g, C, E) /\ C \ E = B \ F
      BY <3>1, <3>2
    <3> QED BY <3>4, <3>6, <3>7 DEF Gives
  <2> QED BY <2>11, <2>12, <2>13
<1> QED BY <1>4, <1>5

(* What a call leaves: either the process has ended in good order, or what *)
(* was in use before, K, is as it was and bp is one more block in use.     *)
Stands(g) == \E C, E : Steady(g, C, E)

Serves(h, g, bp, K, size) ==
    \E C, E : /\ Steady(g, C, E) /\ SameBlocks(h, g, K)
              /\ bp = NULL => C \ E = K
              /\ bp # NULL => C \ E = K \cup {bp} /\ bp \notin K /\ Holds(g, bp, size)

Outcome(h, g, bp, K, size) ==
    \/ g.run = "aborted" /\ Stands(g) /\ bp \in Link
    \/ g.run = "running" /\ Serves(h, g, bp, K, size)

(* sf_malloc leaves what was in use as it was. *)
LEMMA MallocOutcome ==
  ASSUME NEW h, NEW B, NEW F, Steady(h, B, F), h.run = "running", NEW size \in Nat,
         NEW r, r = sf_malloc(h, size), ~ r.mem.cut, ~ r.mem.over
  PROVE  Outcome(h, r.mem, r.bp, B \ F, size)
<1>1. CASE size = 0
  <2> DEFINE e == [h EXCEPT !.errno = "EINVAL"]
  <2>1. r = [mem |-> Stop(e, "aborted"), bp |-> NULL]
    BY <1>1 DEF sf_malloc
  <2>2. Steady(e, B, F)
    BY SteadyNotes
  <2>3. Record(e) /\ e.run = "running"
    <3>1. Record(h)
      BY MemoryRecord DEF Steady, Heap
    <3> QED BY <3>1, ErrnoFlags DEF Flags
  <2> HIDE DEF e
  <2>4. Steady(r.mem, B, F) /\ r.mem.run = "aborted"
    <3>1. r.mem = Stop(e, "aborted")
      BY <2>1
    <3>2. Steady(Stop(e, "aborted"), B, F)
      BY <2>2, SteadyNotes
    <3>3. Stop(e, "aborted").run = "aborted"
      BY <2>3, StopRuns
    <3> QED BY <3>1, <3>2, <3>3
  <2> QED BY <2>1, <2>4 DEF Outcome, Stands, Link
<1>2. CASE size # 0
  <2>1. /\ r.bp = NULL => Refuses(h, F, size) /\ r.mem = [h EXCEPT !.errno = "ENOMEM"]
        /\ r.bp # NULL => Allocates(h, r.mem, r.bp, B, F, size) /\ r.mem.run = h.run
    BY <1>2, HeapMalloc
  <2>2. CASE r.bp = NULL
    <3> DEFINE e == [h EXCEPT !.errno = "ENOMEM"]
    <3>1. r.mem = e /\ Steady(e, B, F)
      BY <2>1, <2>2, SteadyNotes
    <3>2. e.run = "running" /\ SameBlocks(h, e, B \ F)
      <4>1. Record(h)
        BY MemoryRecord DEF Steady, Heap
      <4>2. e.run = "running"
        BY <4>1, ErrnoFlags
      <4>3. e.hdr = h.hdr /\ e.ftr = h.ftr
        BY <4>1 DEF Record
      <4> QED BY <4>2, <4>3 DEF SameBlocks
    <3> HIDE DEF e
    <3>3. Serves(h, e, r.bp, B \ F, size)
      BY <2>2, <3>1, <3>2 DEF Serves
    <3> QED BY <3>1, <3>2, <3>3 DEF Outcome
  <2>3. CASE r.bp # NULL
    BY <2>1, <2>3 DEF Allocates, Outcome, Serves
  <2> QED BY <2>2, <2>3
<1> QED BY <1>1, <1>2

(* sf_free takes one block out of use. *)
LEMMA FreeOutcome ==
  ASSUME NEW h, NEW B, NEW F, Steady(h, B, F), h.run = "running", NEW a \in B, a \notin F,
         NEW g, g = sf_free(h, a), ~ g.cut, NEW size
  PROVE  Outcome(h, g, NULL, (B \ F) \ {a}, size)
<1>1. /\ h.errno = "0" => g.run = h.run /\ Frees(h, g, B, F, a)
      /\ h.errno # "0" => g = Stop(h, "aborted")
  BY HeapFree
<1>2. CASE h.errno = "0"
  BY <1>1, <1>2 DEF Frees, Outcome, Serves
<1>3. CASE h.errno # "0"
  <2>1. g = Stop(h, "aborted") /\ Steady(g, B, F)
    BY <1>1, <1>3, SteadyNotes
  <2>2. Record(h)
    BY MemoryRecord DEF Steady, Heap
  <2>3. g.run = "aborted"
    BY <2>1, <2>2, StopRuns
  <2> QED BY <2>1, <2>3 DEF Outcome, Stands, Link
<1> QED BY <1>2, <1>3

Reallocs(h, r, B, F, a, old, size) ==
    /\ ~ r.mem.cut /\ ~ r.mem.over => Outcome(h, r.mem, r.bp, (B \ F) \ {a}, size)
    /\ h.errno = "0" /\ size <= old => r.mem.run = "running"

(* sf_realloc takes one block out of use, or changes it, or replaces it. *)
LEMMA ReallocOutcome ==
  ASSUME NEW h, NEW B, NEW F, Steady(h, B, F), h.run = "running", NEW a \in B, a \notin F,
         NEW old \in Nat, Holds(h, a, old), NEW size \in Nat,
         NEW r, r = sf_realloc(h, a, size)
  PROVE  Reallocs(h, r, B, F, a, old, size)
<1> DEFINE seen == IF Rejects(h, a) THEN [h EXCEPT !.errno = "EINVAL"] ELSE h
           new == sf_malloc(h, size)
           K == (B \ F) \ {a}
           f == sf_free(h, a)
           g == sf_free(new.mem, a)
           s == Shrink(h, a, size)
<1>1. /\ Heap(h, B, F) /\ h.hdr[a].alloc /\ Agrees(h, a) /\ Record(h) /\ a # NULL
      /\ h.hdr[a].size \in Nat /\ ~ h.cut /\ ~ h.over /\ a \in B \ F
  <2>1. Lies(h, a)
    BY BlockLies DEF Steady, Heap
  <2> QED BY <2>1, NullIsNoRow, MemoryRecord DEF Steady, Heap, Lies
<1>2. h.ftr[a + h.hdr[a].size - 1].req = old /\ Whole(h.hdr[a].size) >= old
  BY DEF Holds
<1>3. seen = h
  <2>1. ~ Rejects(h, a)
    BY <1>1 DEF Rejects, Agrees
  <2> QED BY <2>1
<1>4. r = CASE size = 0 -> [mem |-> f, bp |-> NULL]
            [] size # 0 /\ seen.errno # "0" -> [mem |-> Stop(seen, "aborted"), bp |-> NULL]
            [] size # 0 /\ seen.errno = "0" /\ size = old -> [mem |-> h, bp |-> a]
            [] size # 0 /\ seen.errno = "0" /\ size > old -> [mem |-> g, bp |-> new.bp]
            [] OTHER -> [mem |-> s, bp |-> a]
  <2> DEFINE req == h.ftr[a + h.hdr[a].size - 1].req
  <2>1. r = CASE size = 0 -> [mem |-> f, bp |-> NULL]
              [] size # 0 /\ seen.errno # "0" -> [mem |-> Stop(seen, "aborted"), bp |-> NULL]
              [] size # 0 /\ seen.errno = "0" /\ size = req -> [mem |-> h, bp |-> a]
              [] size # 0 /\ seen.errno = "0" /\ size > req -> [mem |-> g, bp |-> new.bp]
              [] OTHER -> [mem |-> s, bp |-> a]
    BY DEF sf_realloc, seen, req, f, g, new, s
  <2>2. req = old
    BY <1>2
  <2> HIDE DEF req, seen, f, g, new, s
  <2> QED BY <2>1, <2>2
<1> HIDE DEF seen
<1>5. CASE size = 0
  <2>1. r = [mem |-> f, bp |-> NULL]
    <3> HIDE DEF f, g, new, s
    <3> QED BY <1>4, <1>5
  <2>2. ASSUME ~ f.cut PROVE Outcome(h, f, NULL, K, size)
    BY <2>2, FreeOutcome
  <2>3. h.errno = "0" => f.run = h.run
    BY HeapFree
  <2> HIDE DEF f
  <2> QED BY <2>1, <2>2, <2>3 DEF Reallocs
<1>6. CASE size # 0 /\ h.errno # "0"
  <2>1. r = [mem |-> Stop(h, "aborted"), bp |-> NULL]
    <3> HIDE DEF f, g, new, s
    <3> QED BY <1>3, <1>4, <1>6
  <2>2. Steady(r.mem, B, F)
    <3>1. r.mem = Stop(h, "aborted")
      BY <2>1
    <3>2. Steady(Stop(h, "aborted"), B, F)
      BY SteadyNotes
    <3> QED BY <3>1, <3>2
  <2>3. r.mem.run = "aborted"
    BY <1>1, <2>1, StopRuns
  <2> QED BY <1>6, <2>1, <2>2, <2>3 DEF Reallocs, Outcome, Stands, Link
<1>7. CASE size # 0 /\ h.errno = "0" /\ size = old
  <2>1. r = [mem |-> h, bp |-> a]
    <3> HIDE DEF f, g, new, s
    <3> QED BY <1>3, <1>4, <1>7
  <2>2. SameBlocks(h, h, K) /\ B \ F = K \cup {a} /\ a \notin K /\ Holds(h, a, size)
    BY <1>1, <1>7 DEF SameBlocks
  <2>3. Serves(h, h, a, K, size)
    BY <1>1, <2>2 DEF Serves
  <2> QED BY <2>1, <2>3 DEF Outcome, Reallocs
<1>8. CASE size # 0 /\ h.errno = "0" /\ size > old
  <2>1. r = [mem |-> g, bp |-> new.bp]
    <3>1. size # old
      BY <1>8
    <3> HIDE DEF f, g, new, s
    <3> QED BY <1>3, <1>4, <1>8, <3>1
  <2>2. ~ (size <= old)
    BY <1>8
  <2>3. ASSUME ~ g.cut, ~ g.over PROVE Outcome(h, g, new.bp, K, size)
    <3>1. ~ new.mem.cut /\ ~ new.mem.over
      <4>1. Flags(h, new.mem)
        BY <1>1, MallocFlags
      <4> HIDE DEF new
      <4>2. Flags(new.mem, g)
        BY <4>1, FreeFlags DEF Flags
      <4> QED BY <2>3, <4>2 DEF Flags
    <3>2. Outcome(h, new.mem, new.bp, B \ F, size)
      BY <3>1, MallocOutcome
    <3>3. /\ new.bp = NULL => new.mem = [h EXCEPT !.errno = "ENOMEM"]
          /\ new.bp # NULL => Allocates(h, new.mem, new.bp, B, F, size) /\ new.mem.run = h.run
      BY <1>8, <3>1, HeapMalloc
    <3> HIDE DEF new
    <3>4. CASE new.bp = NULL
      <4> DEFINE e == [h EXCEPT !.errno = "ENOMEM"]
      <4>1. new.mem = e /\ Steady(e, B, F)
        BY <3>3, <3>4, SteadyNotes
      <4>2. e.run = "running" /\ e.errno # "0"
        BY <1>1 DEF Record
      <4>3. g = sf_free(e, a)
        BY <4>1
      <4> HIDE DEF e, g
      <4>4. g = Stop(e, "aborted")
        BY <4>1, <4>2, <4>3, HeapFree
      <4>5. Steady(e, B, F) /\ Record(e)
        BY <4>1, MemoryRecord DEF Steady, Heap
      <4>6. Steady(Stop(e, "aborted"), B, F)
        BY <4>5, SteadyNotes
      <4>7. Stop(e, "aborted").run = "aborted"
        BY <4>2, <4>5, StopRuns
      <4> QED BY <3>4, <4>4, <4>6, <4>7 DEF Outcome, Stands, Link
    <3>5. CASE new.bp # NULL
      <4>1. PICK C, E : /\ Steady(new.mem, C, E) /\ C \ E = (B \ F) \cup {new.bp} /\ new.bp \notin B \ F
                        /\ SameBlocks(h, new.mem, B \ F) /\ Holds(new.mem, new.bp, size)
        BY <3>3, <3>5 DEF Allocates
      <4>2. a \in C /\ a \notin E /\ new.mem.run = "running" /\ new.bp # a /\ a \in B \ F
        BY <1>1, <3>3, <3>5, <4>1
      <4>3. Outcome(new.mem, g, NULL, (C \ E) \ {a}, size)
        BY <2>3, <4>1, <4>2, FreeOutcome
      <4> HIDE DEF g
      <4>4. CASE g.run = "aborted" /\ Stands(g)
        <5>1. Lies(new.mem, new.bp)
          BY <4>1, BlockLies DEF Steady, Heap
        <5> QED BY <4>4, <5>1 DEF Outcome, Lies, Link
      <4>5. CASE g.run = "running" /\ Serves(new.mem, g, NULL, (C \ E) \ {a}, size)
        <5>1. PICK C2, E2 : /\ Steady(g, C2, E2) /\ SameBlocks(new.mem, g, (C \ E) \ {a})
                            /\ C2 \ E2 = (C \ E) \ {a}
          BY <4>5 DEF Serves
        <5>2. (C \ E) \ {a} = K \cup {new.bp} /\ new.bp \notin K /\ K \subseteq B \ F
          BY <4>1, <4>2
        <5> HIDE DEF K
        <5>3. SameBlocks(new.mem, g, K \cup {new.bp})
          BY <5>1, <5>2
        <5>4. SameBlocks(h, g, K)
          BY <4>1, <5>2, <5>3 DEF SameBlocks
        <5>5. Holds(g, new.bp, size)
          BY <4>1, <5>3 DEF Holds, SameBlocks
        <5> QED BY <3>5, <4>5, <5>1, <5>2, <5>4, <5>5 DEF Outcome, Serves
      <4> QED BY <4>3, <4>4, <4>5 DEF Outcome
    <3> QED BY <3>4, <3>5
  <2> HIDE DEF g, new
  <2> QED BY <2>1, <2>2, <2>3 DEF Reallocs
<1>9. CASE size # 0 /\ h.errno = "0" /\ size < old
  <2>1. r = [mem |-> s, bp |-> a]
    <3>1. size # old /\ ~ (size > old)
      BY <1>9
    <3> HIDE DEF f, g, new, s
    <3> QED BY <1>3, <1>4, <1>9, <3>1
  <2>2. Need(size) <= h.hdr[a].size
    <3>1. Whole(h.hdr[a].size) >= size
      <4>1. Whole(h.hdr[a].size) \in Int
        BY <1>1 DEF Whole, ROW
      <4> QED BY <1>2, <1>9, <4>1
    <3> QED BY <1>1, <1>9, <3>1, NeedFits
  <2>3. s.run = h.run /\ (~ s.cut => Gives(h, s, B, F, a, size))
    BY <1>9, <2>2, HeapShrink
  <2> HIDE DEF s
  <2>4. ASSUME ~ s.cut PROVE Outcome(h, s, a, K, size)
    <3>1. PICK C, E : /\ Steady(s, C, E) /\ C \ E = B \ F /\ SameBlocks(h, s, K)
                      /\ Holds(s, a, size)
      BY <2>3, <2>4 DEF Gives
    <3>2. C \ E = K \cup {a} /\ a \notin K
      BY <1>1, <3>1
    <3> QED BY <1>1, <2>3, <3>1, <3>2 DEF Outcome, Serves
  <2> QED BY <2>1, <2>3, <2>4 DEF Reallocs
<1> QED BY <1>5, <1>6, <1>7, <1>8, <1>9

(* Blocks, Listed and Nodes find the heap's blocks and its free ones. *)
LEMMA HeapSets ==
  ASSUME NEW h, NEW B, NEW F, Heap(h, B, F)
  PROVE  /\ Blocks(h) = B /\ Listed(h) = F
         /\ \A i \in Lists : Nodes(h, i) = Sized(h, F, i) /\ ~ Endless(h, i)
<1>1. h \in Memory /\ Tiles(h.hdr, h.brk, B) /\ F \subseteq B
  BY DEF Heap
<1>2. Blocks(h) = B
  BY <1>1, BlocksAre
<1>3. F \subseteq 0 .. Limit - 1
  <2> SUFFICES ASSUME NEW b \in F PROVE b \in 0 .. Limit - 1
    OBVIOUS
  <2>1. Lies(h, b)
    BY <1>1, BlockLies
  <2> QED BY <2>1 DEF Lies
<1>4. ASSUME NEW i \in Lists PROVE Nodes(h, i) = Sized(h, F, i) /\ ~ Endless(h, i)
  <2>1. h.head \in [Lists -> Link] /\ h.next \in [Rows -> Link]
    BY <1>1 DEF Memory
  <2>2. List(h, i, Sized(h, F, i))
    BY DEF Heap, Listing, Sized
  <2>3. Sized(h, F, i) \subseteq 0 .. Limit - 1
    BY <1>3 DEF Sized
  <2> QED BY <2>1, <2>2, <2>3, ListNodes
<1>5. \A a \in F : getListNum(h.hdr[a].size) \in Lists
  <2> SUFFICES ASSUME NEW a \in F PROVE getListNum(h.hdr[a].size) \in Lists
    OBVIOUS
  <2>1. h.hdr[a].size \in Nat
    BY <1>1, BlockLies DEF Lies
  <2> QED BY <2>1, GetListNum
<1>6. Listed(h) = F
  BY <1>4, <1>5 DEF Listed, Sized
<1> QED BY <1>2, <1>4, <1>6

(* Forgetting changes no flag. *)
LEMMA ForgetFlags ==
  ASSUME NEW h, Record(h), NEW P
  PROVE  Flags(h, Forget(h, P)) /\ Forget(h, P).cut = h.cut /\ Forget(h, P).over = h.over
<1> DEFINE nodes == Listed(h)
           heads == Blocks(h) \cup nodes \cup (P \ {NULL})
           feet == {a + h.hdr[a].size - 1 : a \in heads}
           t == [r \in Rows |-> IF r \in heads \/ r >= h.brk THEN h.hdr[r] ELSE Zero]
           f == [r \in Rows |-> IF r \in feet THEN h.ftr[r] ELSE Blank]
           n == [r \in Rows |-> IF r \in nodes THEN h.next[r] ELSE NULL]
           p == [r \in Rows |-> IF r \in nodes THEN h.prev[r] ELSE NULL]
<1>1. Forget(h, P) = [h EXCEPT !.hdr = t, !.ftr = f, !.next = n, !.prev = p]
  BY DEF Forget, Record
<1> HIDE DEF t, f, n, p
<1> QED BY <1>1 DEF Flags, Record

(* Forgetting what nothing leads to leaves a heap and its blocks. *)
LEMMA HeapForget ==
  ASSUME NEW h, NEW B, NEW F, Steady(h, B, F), NEW P, NEW g, g = Forget(h, P)
  PROVE  /\ Steady(g, B, F) /\ SameBlocks(h, g, B)
         /\ g.run = h.run /\ g.errno = h.errno /\ g.counter = h.counter
<1> DEFINE nodes == Listed(h)
           heads == Blocks(h) \cup nodes \cup (P \ {NULL})
           feet == {a + h.hdr[a].size - 1 : a \in heads}
           t == [r \in Rows |-> IF r \in heads \/ r >= h.brk THEN h.hdr[r] ELSE Zero]
           f == [r \in Rows |-> IF r \in feet THEN h.ftr[r] ELSE Blank]
           n == [r \in Rows |-> IF r \in nodes THEN h.next[r] ELSE NULL]
           p == [r \in Rows |-> IF r \in nodes THEN h.prev[r] ELSE NULL]
<1>1. /\ h \in Memory /\ Tiles(h.hdr, h.brk, B) /\ F \subseteq B /\ Fresh(h) /\ Paged(h) /\ Heap(h, B, F)
      /\ ~ h.cut /\ ~ h.over /\ \A c \in B \ F : h.hdr[c].alloc
  BY DEF Steady, Heap
<1>2. Blocks(h) = B /\ Listed(h) = F
  BY <1>1, HeapSets
<1>3. g = [h EXCEPT !.hdr = t, !.ftr = f, !.next = n, !.prev = p]
  BY <1>1 DEF Forget, Memory
<1>4. \A c \in B : Lies(h, c)
  BY <1>1, BlockLies
<1>5. B \subseteq heads /\ F = nodes
  BY <1>2
<1>6. \A c \in B : c \in Rows /\ c + h.hdr[c].size - 1 \in feet /\ c + h.hdr[c].size - 1 \in Rows
  <2> SUFFICES ASSUME NEW c \in B
               PROVE  c \in Rows /\ c + h.hdr[c].size - 1 \in feet /\ c + h.hdr[c].size - 1 \in Rows
    OBVIOUS
  <2> DEFINE s == h.hdr[c].size
  <2>1. /\ c \in Nat /\ c \in Rows /\ s \in Nat /\ s >= 2 /\ c + s <= h.brk /\ h.brk <= Limit
        /\ h.brk \in Nat /\ Limit \in Nat /\ \A r \in Nat : r <= Limit => r \in Rows
    BY <1>4 DEF Lies
  <2>2. c + s - 1 \in feet
    BY <1>5
  <2> HIDE DEF s, feet
  <2>3. c + s - 1 \in Rows
    BY <2>1
  <2> QED BY <2>1, <2>2, <2>3 DEF s
<1> HIDE DEF nodes, heads, feet
<1>7. t \in [Rows -> Tag] /\ f \in [Rows -> Foot] /\ n \in [Rows -> Link] /\ p \in [Rows -> Link]
  <2>1. Zero \in Tag /\ Blank \in Foot
    BY RowNumbers, Limits DEF Tag, Foot, Zero, Blank
  <2> QED BY <1>1, <2>1 DEF Memory, Link
<1>8. /\ \A c \in B : t[c] = h.hdr[c] /\ f[c + h.hdr[c].size - 1] = h.ftr[c + h.hdr[c].size - 1]
      /\ \A r \in Rows : r >= h.brk => t[r] = h.hdr[r]
      /\ \A c \in F : n[c] = h.next[c] /\ p[c] = h.prev[c]
  <2>1. \A c \in B : t[c] = h.hdr[c] /\ f[c + h.hdr[c].size - 1] = h.ftr[c + h.hdr[c].size - 1]
    BY <1>5, <1>6
  <2>2. \A r \in Rows : r >= h.brk => t[r] = h.hdr[r]
    OBVIOUS
  <2>3. \A c \in F : n[c] = h.next[c] /\ p[c] = h.prev[c]
    BY <1>1, <1>5, <1>6
  <2> QED BY <2>1, <2>2, <2>3
<1> HIDE DEF t, f, n, p
<1>9. /\ g \in Memory /\ g.hdr = t /\ g.ftr = f /\ g.next = n /\ g.prev = p /\ g.head = h.head
      /\ g.brk = h.brk /\ g.counter = h.counter /\ g.cut = h.cut /\ g.over = h.over
      /\ g.run = h.run /\ g.errno = h.errno
  BY <1>1, <1>3, <1>7 DEF Memory
<1>10. SameBlocks(h, g, B)
  BY <1>8, <1>9 DEF SameBlocks
<1>11. Fresh(g) /\ Paged(g)
  BY <1>1, <1>8, <1>9 DEF Fresh, Paged
<1>12. Tiles(g.hdr, g.brk, B)
  BY <1>1, <1>8, <1>9 DEF Tiles
<1>13. \A c \in B : Agrees(g, c)
  <2> SUFFICES ASSUME NEW c \in B PROVE Agrees(g, c)
    OBVIOUS
  <2>1. Agrees(h, c)
    BY <1>1 DEF Heap
  <2>2. g.hdr[c] = h.hdr[c] /\ g.ftr[c + h.hdr[c].size - 1] = h.ftr[c + h.hdr[c].size - 1]
    BY <1>10 DEF SameBlocks
  <2> QED BY <2>1, <2>2, SameAgrees
<1>14. Listing(g, F)
  <2> SUFFICES ASSUME NEW i \in Lists PROVE List(g, i, {a \in F : getListNum(g.hdr[a].size) = i})
    BY DEF Listing
  <2>1. List(h, i, {a \in F : getListNum(h.hdr[a].size) = i})
    BY <1>1 DEF Heap, Listing
  <2>2. {a \in F : getListNum(h.hdr[a].size) = i} = {a \in F : getListNum(g.hdr[a].size) = i}
    BY <1>1, <1>8, <1>9
  <2>3. g.head[i] = h.head[i] /\ \A a \in F : g.next[a] = h.next[a] /\ g.prev[a] = h.prev[a]
    BY <1>8, <1>9
  <2> DEFINE S == {a \in F : getListNum(h.hdr[a].size) = i}
  <2>4. List(h, i, S) /\ \A a \in S : g.next[a] = h.next[a] /\ g.prev[a] = h.prev[a]
    BY <2>1, <2>3
  <2>5. List(g, i, S)
    <3> HIDE DEF S
    <3> QED BY <2>3, <2>4, ListFrame
  <2> QED BY <2>2, <2>5
<1>15. (\A a \in F : ~ g.hdr[a].alloc) /\ \A a \in B \ F : g.hdr[a].alloc
  BY <1>1, <1>8, <1>9 DEF Heap
<1>16. Heap(g, B, F)
  BY <1>1, <1>9, <1>11, <1>12, <1>13, <1>14, <1>15 DEF Heap
<1> QED BY <1>9, <1>10, <1>15, <1>16 DEF Steady
-----------------------------------------------------------------------------
(* The client, and the inductive invariant. *)

Holders(c) == {v \in Vars : c[v] # Nothing}
Client(c) == c \in [Vars -> [ptr : Link, size : Nat]]

(* What the variables c hold are the blocks that are in use, one for each. *)
Keeps(h, c, B, F) ==
    /\ {c[v].ptr : v \in Holders(c)} = B \ F
    /\ \A v, w \in Holders(c) : v # w => c[v].ptr # c[w].ptr
    /\ \A v \in Holders(c) : Holds(h, c[v].ptr, c[v].size)

Kept(h, c) == \E B, F : Steady(h, B, F) /\ Keeps(h, c, B, F)
Works(h, c) == h.run = "running" /\ Kept(h, c)
Good(h, c) == Client(c) /\ (Works(h, c) \/ (h.run = "aborted" /\ Stands(h)))

IInv == Record(m) /\ (Sound => Good(m, held))

(* A row is no NULL.                                                       *)
LEMMA SteadyRows ==
  ASSUME NEW h, NEW B, NEW F, Steady(h, B, F)
  PROVE  B \subseteq Rows /\ NULL \notin B /\ F \subseteq B /\ Record(h)
<1>1. \A c \in B : c \in Rows
  BY BlockLies DEF Steady, Heap, Lies
<1> QED BY <1>1, NullIsNoRow, MemoryRecord DEF Steady, Heap

(* The variable v gets what the call returned.                             *)
Given(bp, size) == IF bp = NULL THEN Nothing ELSE [ptr |-> bp, size |-> size]
Handed(c, v, bp, size) == [c EXCEPT ![v] = Given(bp, size)]

(* What the other variables hold. *)
LEMMA KeepsOthers ==
  ASSUME NEW h, NEW B, NEW F, Steady(h, B, F), NEW c, Client(c), Keeps(h, c, B, F), NEW v \in Vars
  PROVE  {c[w].ptr : w \in Holders(c) \ {v}} = (B \ F) \ {c[v].ptr}
<1>1. \A w \in Holders(c) : c[w].ptr \in B \ F
  BY DEF Keeps
<1>2. NULL \notin B \ F
  BY SteadyRows
<1>3. CASE v \in Holders(c)
  BY <1>3 DEF Keeps
<1>4. CASE v \notin Holders(c)
  <2>1. c[v].ptr = NULL
    BY <1>4 DEF Holders, Nothing
  <2> QED BY <1>2, <1>4, <2>1 DEF Keeps
<1> QED BY <1>3, <1>4

(* The client holds what is in use after a call as well. *)
LEMMA ServedKeeps ==
  ASSUME NEW h, NEW B, NEW F, Steady(h, B, F), NEW c, Client(c), Keeps(h, c, B, F), NEW v \in Vars,
         NEW g, NEW bp, NEW size \in Nat, Serves(h, g, bp, (B \ F) \ {c[v].ptr}, size),
         NEW d, d = Handed(c, v, bp, size)
  PROVE  Client(d) /\ Kept(g, d)
<1> DEFINE K == (B \ F) \ {c[v].ptr}
           others == Holders(c) \ {v}
<1>1. PICK C, E : /\ Steady(g, C, E) /\ SameBlocks(h, g, K)
                  /\ bp = NULL => C \ E = K
                  /\ bp # NULL => C \ E = K \cup {bp} /\ bp \notin K /\ Holds(g, bp, size)
  BY DEF Serves
<1>2. {c[w].ptr : w \in others} = K
  BY KeepsOthers
<1>3. C \subseteq Rows
  BY <1>1, SteadyRows
<1>4. bp \in Link
  BY <1>1, <1>3 DEF Link
<1>5. Given(bp, size) \in [ptr : Link, size : Nat]
  BY <1>4 DEF Given, Nothing, Link
<1>6. Client(d) /\ d[v] = Given(bp, size) /\ \A w \in Vars \ {v} : d[w] = c[w]
  BY <1>5 DEF Client, Handed
<1>7. \A w \in others : w \in Vars /\ d[w] = c[w] /\ c[w] # Nothing /\ Holds(g, d[w].ptr, d[w].size)
  <2> SUFFICES ASSUME NEW w \in others
               PROVE  w \in Vars /\ d[w] = c[w] /\ c[w] # Nothing /\ Holds(g, d[w].ptr, d[w].size)
    OBVIOUS
  <2>1. w \in Vars /\ d[w] = c[w] /\ c[w] # Nothing /\ c[w].ptr \in K /\ Holds(h, c[w].ptr, c[w].size)
    <3>1. c[w].ptr \in K
      BY <1>2
    <3> HIDE DEF K
    <3>2. w \in Holders(c) /\ w # v /\ w \in Vars /\ c[w] # Nothing
      BY Zenon DEF Holders
    <3> QED BY <1>6, <3>1, <3>2 DEF Keeps
  <2> HIDE DEF K
  <2>2. Holds(g, c[w].ptr, c[w].size)
    BY <1>1, <2>1 DEF Holds, SameBlocks
  <2> QED BY <2>1, <2>2
<1>8. \A w, x \in others : w # x => d[w].ptr # d[x].ptr
  <2>1. \A w, x \in others : w # x => c[w].ptr # c[x].ptr
    BY DEF Keeps
  <2> QED BY <1>7, <2>1
<1>9. {d[w].ptr : w \in others} = K
  BY <1>2, <1>7
<1>10. CASE bp = NULL
  <2>1. Holders(d) = others
    BY <1>6, <1>7, <1>10 DEF Holders, Given
  <2>2. Keeps(g, d, C, E)
    BY <1>1, <1>7, <1>8, <1>9, <1>10, <2>1 DEF Keeps
  <2> QED BY <1>1, <1>6, <2>2 DEF Kept
<1>11. CASE bp # NULL
  <2>1. d[v].ptr = bp /\ d[v].size = size /\ d[v] # Nothing
    BY <1>6, <1>11 DEF Given, Nothing
  <2>2. Holders(d) = others \cup {v} /\ v \notin others
    BY <1>6, <1>7, <2>1 DEF Holders
  <2>3. {d[w].ptr : w \in Holders(d)} = K \cup {bp}
    <3> HIDE DEF K, others
    <3> QED BY <1>9, <2>1, <2>2
  <2>4. \A w \in others : d[w].ptr # d[v].ptr
    <3> HIDE DEF K, others
    <3> QED BY <1>1, <1>9, <1>11, <2>1
  <2> HIDE DEF K, others
  <2>5. Keeps(g, d, C, E)
    BY <1>1, <1>7, <1>8, <1>11, <2>1, <2>2, <2>3, <2>4 DEF Keeps
  <2> QED BY <1>1, <1>6, <2>5 DEF Kept
<1> QED BY <1>10, <1>11

(* Forgetting keeps the invariant. *)
LEMMA ForgetGood ==
  ASSUME NEW g, NEW d, Good(g, d), NEW P
  PROVE  Good(Forget(g, P), d)
<1> DEFINE k == Forget(g, P)
<1>1. CASE g.run = "aborted" /\ Stands(g)
  <2>1. PICK C, E : Steady(g, C, E)
    BY <1>1 DEF Stands
  <2> HIDE DEF k
  <2>2. Steady(k, C, E) /\ k.run = g.run
    <3>1. k = Forget(g, P)
      BY DEF k
    <3> QED BY <2>1, <3>1, HeapForget
  <2> QED BY <1>1, <2>2 DEF Good, Stands, k
<1>2. CASE Works(g, d)
  <2>1. PICK C, E : Steady(g, C, E) /\ Keeps(g, d, C, E)
    BY <1>2 DEF Works, Kept
  <2> HIDE DEF k
  <2>2. Steady(k, C, E) /\ SameBlocks(g, k, C) /\ k.run = g.run
    <3>1. k = Forget(g, P)
      BY DEF k
    <3> QED BY <2>1, <3>1, HeapForget
  <2>3. \A v \in Holders(d) : Holds(k, d[v].ptr, d[v].size)
    <3> SUFFICES ASSUME NEW v \in Holders(d) PROVE Holds(k, d[v].ptr, d[v].size)
      OBVIOUS
    <3>1. d[v].ptr \in C /\ Holds(g, d[v].ptr, d[v].size)
      BY <2>1 DEF Keeps
    <3> QED BY <2>2, <3>1 DEF Holds, SameBlocks
  <2>4. Keeps(k, d, C, E)
    BY <2>1, <2>3 DEF Keeps
  <2>5. Kept(k, d)
    BY <2>2, <2>4 DEF Kept
  <2>6. Client(d) /\ g.run = "running"
    BY <1>2 DEF Good, Works
  <2> QED BY <2>2, <2>5, <2>6 DEF Good, Works, k
<1> QED BY <1>1, <1>2 DEF Good

(* A call on behalf of v that leaves the other variables' blocks alone.    *)
LEMMA CallGood ==
  ASSUME NEW h, NEW B, NEW F, Steady(h, B, F), NEW c, Client(c), Keeps(h, c, B, F), NEW v \in Vars,
         NEW g, NEW bp, NEW size \in Nat, Outcome(h, g, bp, (B \ F) \ {c[v].ptr}, size),
         NEW d, d = Handed(c, v, bp, size)
  PROVE  Good(g, d)
<1>1. CASE g.run = "aborted" /\ Stands(g) /\ bp \in Link
  <2>1. Given(bp, size) \in [ptr : Link, size : Nat]
    BY <1>1 DEF Given, Nothing, Link
  <2>2. Client(d)
    BY <2>1 DEF Client, Handed
  <2> QED BY <1>1, <2>2 DEF Good
<1>2. CASE g.run = "running" /\ Serves(h, g, bp, (B \ F) \ {c[v].ptr}, size)
  <2>1. Client(d) /\ Kept(g, d)
    BY <1>2, ServedKeeps
  <2> QED BY <1>2, <2>1 DEF Good, Works
<1> QED BY <1>1, <1>2 DEF Outcome

-----------------------------------------------------------------------------
(* It holds at the start and every action preserves it.                    *)

(* The empty heap. *)
LEMMA HeapBegins == Good(sf_mem_init, [v \in Vars |-> Nothing]) /\ Record(sf_mem_init)
<1> DEFINE h == sf_mem_init
           t == [r \in Rows |-> [Zero EXCEPT !.alloc = (r = MaxPages * PageRows)]]
<1>1. Limit \in Nat /\ Limit \in Rows /\ 0 \in Rows /\ 0 \in Nat
  BY Limits
<1>2. /\ t \in [Rows -> Tag] /\ [r \in Rows |-> Blank] \in [Rows -> Foot]
      /\ [r \in Rows |-> NULL] \in [Rows -> Link] /\ [i \in Lists |-> NULL] \in [Lists -> Link]
      /\ \A r \in Rows : t[r].size = 0 /\ (t[r].alloc <=> r = Limit)
  <2>1. \A r \in Rows : t[r] \in Tag /\ t[r].size = 0 /\ (t[r].alloc <=> r = Limit)
    BY <1>1 DEF Zero, Tag, Limit
  <2>2. Blank \in Foot
    BY <1>1 DEF Blank, Foot
  <2> HIDE DEF t
  <2>3. t \in [Rows -> Tag]
    <3>1. t = [r \in Rows |-> t[r]]
      BY DEF t
    <3> QED BY <2>1, <3>1
  <2> QED BY <2>1, <2>2, <2>3 DEF Link
<1> HIDE DEF t
<1>3. /\ h \in Memory /\ h.hdr = t /\ h.head = [i \in Lists |-> NULL] /\ h.brk = 0 /\ h.counter = 0
      /\ ~ h.cut /\ ~ h.over /\ h.run = "running"
  BY <1>1, <1>2 DEF sf_mem_init, t, Memory
<1> HIDE DEF h
<1>4. Tiles(h.hdr, h.brk, {}) /\ Paged(h)
  <2>1. Paged(h)
    BY <1>3, SizesAssumption, PageIsRows DEF Paged
  <2> QED BY <1>3, <2>1 DEF Tiles
<1>5. Fresh(h)
  BY <1>2, <1>3 DEF Fresh
<1>6. Listing(h, {})
  <2> SUFFICES ASSUME NEW i \in Lists PROVE List(h, i, {a \in {} : getListNum(h.hdr[a].size) = i})
    BY DEF Listing
  <2> DEFINE f == [k \in 1 .. 0 |-> k]
  <2>1. Numbered({}, 0, f) /\ Chained(h, i, 0, f)
    BY <1>3 DEF Numbered, Chained
  <2>2. {a \in {} : getListNum(h.hdr[a].size) = i} = {}
    OBVIOUS
  <2> QED BY <2>1, <2>2 DEF List
<1>7. Steady(h, {}, {})
  BY <1>3, <1>4, <1>5, <1>6 DEF Steady, Heap
<1> DEFINE c == [v \in Vars |-> Nothing]
<1>8. Client(c) /\ Holders(c) = {}
  BY DEF Client, Holders, Nothing, Link
<1>9. Keeps(h, c, {}, {})
  <2> HIDE DEF c
  <2> QED BY <1>8 DEF Keeps
<1>10. Kept(h, c)
  BY <1>7, <1>9 DEF Kept
<1> QED BY <1>3, <1>8, <1>10, MemoryRecord DEF Good, Works, h

(* Malloc. *)
LEMMA MallocGood ==
  ASSUME IInv, NEW v \in Vars, NEW size \in Requests, Malloc(v, size)
  PROVE  IInv'
<1> DEFINE r == sf_malloc(m, size)
           P == {held'[w].ptr : w \in Vars}
<1>1. /\ m.run = "running" /\ held[v] = Nothing /\ size \in Nat /\ Record(m)
      /\ held' = Handed(held, v, r.bp, size) /\ m' = Forget(r.mem, P)
  BY SizesAssumption DEF Malloc, Becomes, Given, Handed, IInv
<1> HIDE DEF P
<1>2. Flags(m, r.mem)
  BY <1>1, MallocFlags
<1>3. Flags(r.mem, m') /\ m'.cut = r.mem.cut /\ m'.over = r.mem.over
  <2> HIDE DEF r
  <2> QED BY <1>1, <1>2, ForgetFlags DEF Flags
<1>4. ASSUME Sound' PROVE Good(m', held')
  <2>1. ~ r.mem.cut /\ ~ r.mem.over /\ Sound
    BY <1>2, <1>3, <1>4 DEF Sound, Flags
  <2>2. Client(held) /\ Kept(m, held)
    BY <1>1, <2>1 DEF IInv, Good, Works
  <2>3. PICK B, F : Steady(m, B, F) /\ Keeps(m, held, B, F)
    BY <2>2 DEF Kept
  <2>4. Outcome(m, r.mem, r.bp, B \ F, size)
    BY <1>1, <2>1, <2>3, MallocOutcome
  <2>5. (B \ F) \ {held[v].ptr} = B \ F
    <3>1. held[v].ptr = NULL
      BY <1>1 DEF Nothing
    <3> QED BY <2>3, <3>1, SteadyRows
  <2> HIDE DEF r
  <2>6. Good(r.mem, held')
    BY <1>1, <2>2, <2>3, <2>4, <2>5, CallGood
  <2> QED BY <1>1, <2>6, ForgetGood
<1> HIDE DEF r
<1> QED BY <1>3, <1>4 DEF IInv, Flags

(* Free. *)
LEMMA FreeGood ==
  ASSUME IInv, NEW v \in Vars, Free(v)
  PROVE  IInv'
<1> DEFINE g == sf_free(m, held[v].ptr)
           P == {held'[w].ptr : w \in Vars}
<1>1. /\ m.run = "running" /\ held[v] # Nothing /\ Record(m)
      /\ held' = Handed(held, v, NULL, 0) /\ m' = Forget(g, P)
  BY DEF Free, Becomes, Given, Handed, IInv
<1> HIDE DEF P
<1>2. Flags(m, g)
  BY <1>1, FreeFlags
<1>3. Flags(g, m') /\ m'.cut = g.cut /\ m'.over = g.over
  <2> HIDE DEF g
  <2> QED BY <1>1, <1>2, ForgetFlags DEF Flags
<1>4. ASSUME Sound' PROVE Good(m', held')
  <2>1. ~ g.cut /\ ~ g.over /\ Sound
    BY <1>2, <1>3, <1>4 DEF Sound, Flags
  <2>2. Client(held) /\ Kept(m, held)
    BY <1>1, <2>1 DEF IInv, Good, Works
  <2>3. PICK B, F : Steady(m, B, F) /\ Keeps(m, held, B, F)
    BY <2>2 DEF Kept
  <2>4. held[v].ptr \in B /\ held[v].ptr \notin F
    BY <1>1, <2>3 DEF Keeps, Holders
  <2>5. Outcome(m, g, NULL, (B \ F) \ {held[v].ptr}, 0)
    BY <1>1, <2>1, <2>3, <2>4, FreeOutcome
  <2> HIDE DEF g
  <2>6. Good(g, held')
    BY <1>1, <2>2, <2>3, <2>5, CallGood
  <2> QED BY <1>1, <2>6, ForgetGood
<1> HIDE DEF g
<1> QED BY <1>3, <1>4 DEF IInv, Flags

(* Realloc. *)
LEMMA ReallocGood ==
  ASSUME IInv, NEW v \in Vars, NEW size \in Requests, Realloc(v, size)
  PROVE  IInv'
<1> DEFINE r == sf_realloc(m, held[v].ptr, size)
           P == {held'[w].ptr : w \in Vars}
<1>1. /\ m.run = "running" /\ held[v] # Nothing /\ size \in Nat /\ Record(m)
      /\ held' = Handed(held, v, r.bp, size) /\ m' = Forget(r.mem, P)
  BY SizesAssumption DEF Realloc, Becomes, Given, Handed, IInv
<1> HIDE DEF P
<1>2. Flags(m, r.mem)
  BY <1>1, ReallocFlags
<1>3. Flags(r.mem, m') /\ m'.cut = r.mem.cut /\ m'.over = r.mem.over
  <2> HIDE DEF r
  <2> QED BY <1>1, <1>2, ForgetFlags DEF Flags
<1>4. ASSUME Sound' PROVE Good(m', held')
  <2>1. ~ r.mem.cut /\ ~ r.mem.over /\ Sound
    BY <1>2, <1>3, <1>4 DEF Sound, Flags
  <2>2. Client(held) /\ Kept(m, held)
    BY <1>1, <2>1 DEF IInv, Good, Works
  <2>3. PICK B, F : Steady(m, B, F) /\ Keeps(m, held, B, F)
    BY <2>2 DEF Kept
  <2>4. held[v].ptr \in B /\ held[v].ptr \notin F /\ Holds(m, held[v].ptr, held[v].size)
        /\ held[v].size \in Nat
    BY <1>1, <2>2, <2>3 DEF Keeps, Holders, Client
  <2>5. Outcome(m, r.mem, r.bp, (B \ F) \ {held[v].ptr}, size)
    BY <1>1, <2>1, <2>3, <2>4, ReallocOutcome DEF Reallocs
  <2> HIDE DEF r
  <2>6. Good(r.mem, held')
    BY <1>1, <2>2, <2>3, <2>5, CallGood
  <2> QED BY <1>1, <2>6, ForgetGood
<1> HIDE DEF r
<1> QED BY <1>3, <1>4 DEF IInv, Flags

(* FreeTwice: the call is refused and the process ends. *)
LEMMA FreeTwiceGood ==
  ASSUME IInv, NEW a \in Listed(m), FreeTwice(a)
  PROVE  IInv'
<1>1. m.run = "running" /\ m' = sf_free(m, a) /\ held' = held /\ Record(m)
  BY DEF FreeTwice, IInv
<1>2. Flags(m, m')
  BY <1>1, FreeFlags
<1>3. ASSUME Sound' PROVE Good(m', held')
  <2>1. Sound
    BY <1>2, <1>3 DEF Sound, Flags
  <2>2. Client(held) /\ Kept(m, held)
    BY <1>1, <2>1 DEF IInv, Good, Works
  <2>3. PICK B, F : Steady(m, B, F) /\ Keeps(m, held, B, F)
    BY <2>2 DEF Kept
  <2>4. a \in F /\ ~ m.hdr[a].alloc
    BY <2>3, HeapSets DEF Steady, Heap
  <2> DEFINE e == [m EXCEPT !.errno = "EINVAL"]
  <2>5. e.errno # "0" /\ Record(e) /\ e.run = "running"
    BY <1>1 DEF Record
  <2>6. m' = Stop(e, "aborted")
    <3>1. Rejects(m, a)
      BY <2>4 DEF Rejects
    <3>2. m' = IF e.errno # "0" THEN Stop(e, "aborted") ELSE m'
      BY <1>1, <3>1 DEF sf_free
    <3> HIDE DEF e
    <3> QED BY <2>5, <3>2
  <2>7. Steady(e, B, F)
    BY <2>3, SteadyNotes
  <2> HIDE DEF e
  <2>8. Steady(Stop(e, "aborted"), B, F) /\ Stop(e, "aborted").run = "aborted"
    <3>1. Steady(Stop(e, "aborted"), B, F)
      BY <2>7, SteadyNotes
    <3>2. Stop(e, "aborted").run = "aborted"
      BY <2>5, StopRuns
    <3> QED BY <3>1, <3>2
  <2> QED BY <1>1, <2>2, <2>6, <2>8 DEF Good, Stands
<1> QED BY <1>2, <1>3 DEF IInv, Flags

(* ResetErrno. *)
LEMMA ResetGood ==
  ASSUME IInv, ResetErrno
  PROVE  IInv'
<1> DEFINE e == [m EXCEPT !.errno = "0"]
<1>1. m.run = "running" /\ m' = e /\ held' = held /\ Record(m)
  BY DEF ResetErrno, IInv
<1>2. Flags(m, e) /\ e.run = m.run /\ e.hdr = m.hdr /\ e.ftr = m.ftr
  BY <1>1 DEF Flags, Record
<1>3. ASSUME Sound' PROVE Good(m', held')
  <2>1. Sound
    BY <1>1, <1>2, <1>3 DEF Sound, Flags
  <2>2. Client(held) /\ Kept(m, held)
    BY <1>1, <2>1 DEF IInv, Good, Works
  <2>3. PICK B, F : Steady(m, B, F) /\ Keeps(m, held, B, F)
    BY <2>2 DEF Kept
  <2>4. Steady(e, B, F)
    BY <2>3, SteadyNotes
  <2> HIDE DEF e
  <2>5. Keeps(e, held, B, F)
    BY <1>2, <2>3 DEF Keeps, Holds
  <2> QED BY <1>1, <1>2, <2>2, <2>4, <2>5 DEF Good, Works, Kept
<1> HIDE DEF e
<1> QED BY <1>1, <1>2, <1>3 DEF IInv, Flags

(* As long as no list has been cut and no page was missing, every call of  *)
(* the client finds and leaves a tiled heap, lists that hold its free      *)
(* blocks, and variables that hold the others (sfmm.c:254-363).            *)
THEOREM InvariantHolds == Spec => []IInv
<1>1. Init => IInv
  <2> SUFFICES ASSUME Init PROVE IInv
    OBVIOUS
  <2> QED BY HeapBegins DEF Init, IInv
<1>2. IInv /\ [Next]_vars => IInv'
  <2> SUFFICES ASSUME IInv, [Next]_vars PROVE IInv'
    OBVIOUS
  <2>1. CASE \E v \in Vars, size \in Requests : Malloc(v, size)
    BY <2>1, MallocGood
  <2>2. CASE \E v \in Vars, size \in Requests : Realloc(v, size)
    BY <2>2, ReallocGood
  <2>3. CASE \E v \in Vars : Free(v)
    BY <2>3, FreeGood
  <2>4. CASE \E a \in Listed(m) : FreeTwice(a)
    BY <2>4, FreeTwiceGood
  <2>5. CASE ResetErrno
    BY <2>5, ResetGood
  <2>6. CASE UNCHANGED vars
    <3>1. m' = m /\ held' = held
      BY <2>6 DEF vars
    <3> QED BY <3>1 DEF IInv, Sound
  <2> QED BY <2>1, <2>2, <2>3, <2>4, <2>5, <2>6 DEF Next, Ended
<1> QED BY <1>1, <1>2, PTL DEF Spec

(* What the invariant says of a sound memory, and of one that is in use.   *)
LEMMA SoundStands ==
  ASSUME IInv, Sound
  PROVE  Stands(m) /\ Client(held) /\ m.run \in {"running", "aborted"}
BY DEF IInv, Good, Works, Kept, Stands

LEMMA RunningKept ==
  ASSUME IInv, Sound, Running
  PROVE  Client(held) /\ Kept(m, held)
BY DEF IInv, Good, Works, Running

(* The free blocks are those of F. *)
LEMMA FreeAre ==
  ASSUME NEW h, NEW B, NEW F, Steady(h, B, F)
  PROVE  FreeBlocks(h) = F /\ Blocks(h) = B
<1>1. Blocks(h) = B /\ F \subseteq B /\ (\A a \in F : ~ h.hdr[a].alloc) /\ \A a \in B \ F : h.hdr[a].alloc
  BY HeapSets DEF Steady, Heap
<1> QED BY <1>1 DEF FreeBlocks

LEMMA TiledNow == IInv => HeapIsTiled
<1> SUFFICES ASSUME IInv, Sound
             PROVE  /\ \A a \in Blocks(m) :
                         LET h == m.hdr[a]
                             f == m.ftr[a + h.size - 1]
                         IN  /\ h.size >= 2
                             /\ a + h.size = m.brk \/ a + h.size \in Blocks(m)
                             /\ f.alloc = h.alloc /\ f.padded = h.padded /\ f.size = h.size
                    /\ m.brk = m.counter * PageRows
  BY DEF HeapIsTiled
<1>1. PICK B, F : Steady(m, B, F)
  BY SoundStands DEF Stands
<1>2. Blocks(m) = B
  BY <1>1, FreeAre
<1>3. Tiles(m.hdr, m.brk, B) /\ Paged(m) /\ \A a \in B : Agrees(m, a)
  BY <1>1 DEF Steady, Heap
<1>4. \A a \in B : m.hdr[a].size >= 2 /\ (a + m.hdr[a].size = m.brk \/ a + m.hdr[a].size \in B)
  BY <1>3 DEF Tiles
<1> QED BY <1>2, <1>3, <1>4 DEF Agrees, Paged

LEMMA ListedNow == IInv => ListsHoldTheFree
<1> SUFFICES ASSUME IInv, Sound, Running, NEW i \in Lists
             PROVE  /\ ~ Endless(m, i)
                    /\ Nodes(m, i) = {a \in FreeBlocks(m) : getListNum(m.hdr[a].size) = i}
                    /\ \A a \in Nodes(m, i) :
                          /\ m.prev[a] = NULL <=> m.head[i] = a
                          /\ m.next[a] # NULL => m.prev[m.next[a]] = a
  BY DEF ListsHoldTheFree
<1>1. PICK B, F : Steady(m, B, F)
  BY SoundStands DEF Stands
<1>2. FreeBlocks(m) = F
  BY <1>1, FreeAre
<1>3. Nodes(m, i) = Sized(m, F, i) /\ ~ Endless(m, i)
  BY <1>1, HeapSets DEF Steady
<1>4. List(m, i, Sized(m, F, i)) /\ Sized(m, F, i) \subseteq Rows
  <2>1. F \subseteq Rows
    BY <1>1, SteadyRows
  <2> QED BY <1>1, <2>1 DEF Steady, Heap, Listing, Sized
<1>5. \A a \in Nodes(m, i) : Between(m, i, Sized(m, F, i), a)
  BY <1>3, <1>4, ListLinks
<1> QED BY <1>2, <1>3, <1>5 DEF Between, Sized

LEMMA HeldNow == IInv => HeldAreAllocated
<1> SUFFICES ASSUME IInv, Sound, Running
             PROVE  /\ {held[v].ptr : v \in Holders(held)} = Blocks(m) \ FreeBlocks(m)
                    /\ \A v, w \in Holders(held) : v # w => held[v].ptr # held[w].ptr
                    /\ \A v \in Holders(held) : Holds(m, held[v].ptr, held[v].size)
  BY DEF HeldAreAllocated, Holders, Holds
<1>1. PICK B, F : Steady(m, B, F) /\ Keeps(m, held, B, F)
  BY RunningKept DEF Kept
<1>2. FreeBlocks(m) = F /\ Blocks(m) = B
  BY <1>1, FreeAre
<1> QED BY <1>1, <1>2 DEF Keeps

LEMMA NullNow == IInv => NullIsJustified
<1> SUFFICES ASSUME IInv, Sound, Running, NEW size \in Requests \ {0}, sf_malloc(m, size).bp = NULL
             PROVE  \/ PayloadRows(size) >= MaxPages * PageRows
                    \/ /\ m.counter = MaxPages
                       /\ \A a \in FreeBlocks(m) : m.hdr[a].size < PayloadRows(size) + 1
  BY DEF NullIsJustified
<1>1. PICK B, F : Steady(m, B, F)
  BY SoundStands DEF Stands
<1>2. FreeBlocks(m) = F
  BY <1>1, FreeAre
<1>3. size \in Nat /\ size # 0
  BY SizesAssumption
<1>4. Refuses(m, F, size)
  BY <1>1, <1>3, HeapMalloc
<1> QED BY <1>2, <1>4 DEF Refuses, Limit, Need

LEMMA ReturnsNow == IInv => GoodFreeReturns
<1> SUFFICES ASSUME IInv, Sound, Running, m.errno = "0", NEW v \in Vars, held[v] # Nothing
             PROVE  /\ sf_free(m, held[v].ptr).run = "running"
                    /\ \A size \in Requests : size <= held[v].size =>
                          sf_realloc(m, held[v].ptr, size).mem.run = "running"
  BY DEF GoodFreeReturns
<1>1. Client(held) /\ Kept(m, held)
  BY RunningKept
<1>2. PICK B, F : Steady(m, B, F) /\ Keeps(m, held, B, F)
  BY <1>1 DEF Kept
<1>3. /\ held[v].ptr \in B /\ held[v].ptr \notin F /\ Holds(m, held[v].ptr, held[v].size)
      /\ held[v].size \in Nat
  BY <1>1, <1>2 DEF Keeps, Holders, Client
<1>4. m.run = "running"
  BY DEF Running
<1>5. sf_free(m, held[v].ptr).run = "running"
  BY <1>2, <1>3, <1>4, HeapFree
<1>6. \A size \in Requests : size <= held[v].size =>
          sf_realloc(m, held[v].ptr, size).mem.run = "running"
  <2> SUFFICES ASSUME NEW size \in Requests, size <= held[v].size
               PROVE  sf_realloc(m, held[v].ptr, size).mem.run = "running"
    OBVIOUS
  <2>1. size \in Nat
    BY SizesAssumption
  <2> DEFINE a == held[v].ptr
             old == held[v].size
             r == sf_realloc(m, a, size)
  <2>2. Steady(m, B, F) /\ a \in B /\ a \notin F /\ old \in Nat /\ Holds(m, a, old) /\ size <= old
    BY <1>2, <1>3
  <2>3. r.mem.run = "running"
    <3>1. r = sf_realloc(m, a, size)
      OBVIOUS
    <3> HIDE DEF a, old, r
    <3>2. Reallocs(m, r, B, F, a, old, size)
      BY <1>4, <2>1, <2>2, <3>1, ReallocOutcome
    <3> QED BY <2>2, <3>2 DEF Reallocs
  <2> QED BY <2>3
<1> QED BY <1>5, <1>6

LEMMA TypedNow == IInv => (Sound => TypeOK)
<1> SUFFICES ASSUME IInv, Sound PROVE TypeOK
  OBVIOUS
<1>1. PICK B, F : Steady(m, B, F)
  BY SoundStands DEF Stands
<1>2. m \in Memory /\ Paged(m)
  BY <1>1 DEF Steady, Heap
<1>3. m.counter \in 0 .. (2 * MaxPages)
  BY <1>2, SizesAssumption DEF Memory, Paged
<1>4. Client(held) /\ m.run \in {"running", "aborted"}
  BY SoundStands
<1> QED BY <1>2, <1>3, <1>4 DEF TypeOK, Memory, Client, Tag, Foot, Link, Limit

(* The headers of a sound heap lead from its start to its end through      *)
(* blocks whose footers agree, whatever calls were made before: the walks  *)
(* of getNextBP, getPrevBP and coalesce stay on blocks (sfmm.c:56-71).     *)
THEOREM HeapTiled == Spec => []HeapIsTiled
BY InvariantHolds, TiledNow, PTL

(* Every free block is in the list of its size, once, and nothing else is: *)
(* the doubly linked lists survive every order of calls (sfmm.c:73-134).   *)
THEOREM FreeListed == Spec => []ListsHoldTheFree
BY InvariantHolds, ListedNow, PTL

(* The blocks in use are exactly those the client holds, each for one      *)
(* variable and as large as was asked for (sfmm.c:254-363).                *)
THEOREM HeldAllocated == Spec => []HeldAreAllocated
BY InvariantHolds, HeldNow, PTL

(* sf_malloc refuses a request only when nothing could serve it: no free   *)
(* block of any list is large enough and no page is left, or the request   *)
(* exceeds the heap (sfmm.c:136-157, 216-222, 266-271).                    *)
THEOREM NullJustified == Spec => []NullIsJustified
BY InvariantHolds, NullNow, PTL

(* Freeing a block in use, or asking sf_realloc for no more than it holds, *)
(* never trips the consistency checks of the tags (sfmm.c:296-302, 339-347). *)
THEOREM FreeReturns == Spec => []GoodFreeReturns
BY InvariantHolds, ReturnsNow, PTL

(* In a sound memory every field has its type, and the process has neither *)
(* crashed through a NULL pointer nor entered an endless list.             *)
THEOREM SoundTyped == Spec => [](Sound => TypeOK)
BY InvariantHolds, TypedNow, PTL
=============================================================================
