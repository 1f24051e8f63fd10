---------------------------- MODULE CipherProofs ----------------------------
(***************************************************************************)
(* The cipher that starts is the one that was asked for, and what was      *)
(* encrypted is decrypted: proofs about Cipher.                            *)
(***************************************************************************)
EXTENDS Cipher, Recursion, FiniteSetTheorems, SequenceTheorems, TLAPS

-----------------------------------------------------------------------------
(* Sequences                                                               *)

LEMMA MaxIs ==
  ASSUME NEW S, S \subseteq Int, NEW x \in S, \A y \in S : x >= y
  PROVE  Max(S) = x
<1>1. Max(S) \in S /\ \A y \in S : Max(S) >= y
  BY DEF Max
<1>2. Max(S) >= x /\ x >= Max(S) /\ Max(S) \in Int
  BY <1>1
<1> QED BY <1>2

LEMMA MinIs ==
  ASSUME NEW S, S \subseteq Int, NEW x \in S, \A y \in S : x <= y
  PROVE  Min(S) = x
<1>1. Min(S) \in S /\ \A y \in S : Min(S) <= y
  BY DEF Min
<1>2. Min(S) <= x /\ x <= Min(S) /\ Min(S) \in Int
  BY <1>1
<1> QED BY <1>2

LEMMA MaxExists ==
  ASSUME NEW n \in Nat, NEW S, S \subseteq 0 .. n, S # {}
  PROVE  Max(S) \in S /\ \A y \in S : Max(S) >= y
<1> DEFINE D == {n - y : y \in S}
<1>1. D \subseteq Nat /\ D # {}
  <2>1. \A y \in S : n - y \in Nat
    OBVIOUS
  <2> QED BY <2>1
<1>2. PICK d \in D : \A e \in D : d <= e
  <2> HIDE DEF D
  <2> QED BY <1>1, LeastNumber
<1>3. PICK x \in S : d = n - x
  BY <1>2
<1>4. \A y \in S : n - x <= n - y
  BY <1>2, <1>3
<1>5. \A y \in S : x >= y /\ y \in Int /\ x \in Int
  BY <1>4
<1> QED BY <1>5 DEF Max

LEMMA AppendIs ==
  ASSUME NEW T, NEW s \in Seq(T), NEW x \in T
  PROVE  /\ Append(s, x) \in Seq(T)
         /\ Len(Append(s, x)) = Len(s) + 1
         /\ \A i \in 1 .. Len(s) : Append(s, x)[i] = s[i]
         /\ Append(s, x)[Len(s) + 1] = x
         /\ Append(s, x) = s \o <<x>>
<1>1. Append(s, x) \in Seq(T) /\ Len(Append(s, x)) = Len(s) + 1
  OBVIOUS
<1>2. \A i \in 1 .. Len(s) : Append(s, x)[i] = s[i]
  OBVIOUS
<1>3. Append(s, x)[Len(s) + 1] = x
  OBVIOUS
<1>4. Append(s, x) = s \o <<x>>
  <2>1. <<x>> \in Seq(T) /\ Len(<<x>>) = 1 /\ <<x>>[1] = x
    OBVIOUS
  <2> DEFINE t == <<x>>
  <2>2. s \o t \in Seq(T) /\ Len(s \o t) = Len(s) + 1
        /\ \A i \in 1 .. Len(s) + 1 : (s \o t)[i] = IF i <= Len(s) THEN s[i] ELSE t[i - Len(s)]
    <3> HIDE DEF t
    <3> QED BY <2>1, ConcatProperties DEF t
  <2>3. \A i \in 1 .. Len(s) + 1 : (s \o t)[i] = Append(s, x)[i]
    <3> SUFFICES ASSUME NEW i \in 1 .. Len(s) + 1 PROVE (s \o t)[i] = Append(s, x)[i]
      OBVIOUS
    <3>1. CASE i \in 1 .. Len(s)
      BY <3>1, <2>2, <1>2
    <3>2. CASE i = Len(s) + 1
      BY <3>2, <2>1, <2>2, <1>3
    <3> QED BY <3>1, <3>2
  <2> HIDE DEF t
  <2>4. s \o t = Append(s, x)
    BY <2>2, <2>3, <1>1, SeqEqual
  <2> QED BY <2>4 DEF t
<1> QED BY <1>1, <1>2, <1>3, <1>4

LEMMA JoinedBehind ==
  ASSUME NEW a \in Seq(Int), NEW b \in Seq(Int), NEW c \in Seq(Int)
  PROVE  (a \o b) \o c = a \o (b \o c)
BY ConcatAssociative

\* Joined parts, part by part.
Joins(f, ss, T) ==
    /\ f \in [0 .. Len(ss) -> Seq(T)]
    /\ f[0] = <<>>
    /\ \A n \in 1 .. Len(ss) : f[n] = f[n - 1] \o ss[n]

LEMMA FlattenSteps ==
  ASSUME NEW T, NEW ss \in Seq(Seq(T))
  PROVE  \E f : Joins(f, ss, T) /\ FlattenSeq(ss) = f[Len(ss)]
<1> DEFINE N == Len(ss)
           S == Seq(T)
           b == <<>>
           Rec(h) == [i \in 1 .. N |-> IF i = 1 THEN ss[i] ELSE h[i - 1] \o ss[i]]
           g == [n \in 1 .. N |-> [s \in S |-> s \o ss[n]]]
           flat == CHOOSE h : h = Rec(h)
<1>1. N \in Nat /\ b \in S /\ \A n \in 1 .. N : ss[n] \in S
  OBVIOUS
<1>2. g \in [1 .. N -> [S -> S]]
  BY <1>1
<1>3. PICK f : Taken(f, N, S, b, g)
  <2> HIDE DEF g, S, b, N
  <2> OfSteps(g, N, S)
    BY <1>2 DEF OfSteps
  <2> QED BY <1>1, StepByStep
<1>4. f \in [0 .. N -> S] /\ f[0] = b /\ \A n \in 1 .. N : f[n] = g[n][f[n - 1]]
  BY <1>3 DEF Taken
<1>5. \A n \in 1 .. N : f[n - 1] \in S
  <2>1. \A n \in 1 .. N : n - 1 \in 0 .. N
    BY <1>1
  <2> QED BY <2>1, <1>4
<1>6. \A n \in 1 .. N : f[n] = f[n - 1] \o ss[n]
  BY <1>4, <1>5
<1>7. Joins(f, ss, T)
  BY <1>4, <1>6 DEF Joins
<1>10. N = Len(ss)
  OBVIOUS
<1> HIDE DEF N, S, b, g
<1>8. CASE N = 0
  <2>1. FlattenSeq(ss) = ss /\ ss = <<>>
    BY <1>8, <1>10 DEF FlattenSeq
  <2> QED BY <2>1, <1>4, <1>7, <1>8, <1>10 DEF b
<1>9. CASE N # 0
  <2>1. FlattenSeq(ss) = flat[N]
    BY <1>9, <1>10 DEF FlattenSeq, N
  <2> DEFINE h == [i \in 1 .. N |-> f[i]]
  <2>2. h = Rec(h)
    <3>1. \A i \in 1 .. N : h[i] = IF i = 1 THEN ss[i] ELSE h[i - 1] \o ss[i]
      <4> SUFFICES ASSUME NEW i \in 1 .. N
                   PROVE h[i] = IF i = 1 THEN ss[i] ELSE h[i - 1] \o ss[i]
        OBVIOUS
      <4>1. f[i] = f[i - 1] \o ss[i]
        BY <1>6
      <4>2. CASE i = 1
        <5>0. i - 1 = 0
          BY <4>2
        <5>1. f[i] = <<>> \o ss[i]
          BY <4>1, <5>0, <1>4 DEF b
        <5> QED BY <5>1, <4>2, <1>1 DEF S
      <4>3. CASE i # 1
        <5>1. i - 1 \in 1 .. N
          BY <4>3, <1>1
        <5> QED BY <5>1, <4>1, <4>3
      <4> QED BY <4>2, <4>3
    <3> QED BY <3>1
  <2>3. flat = Rec(flat)
    BY <2>2
  <2> HIDE DEF flat
  <2> DEFINE D == {n \in 0 .. N : n = 0 \/ flat[n] = f[n]}
  <2>4. 0 \in D
    BY <1>1
  <2>5. ASSUME NEW n \in 0 .. N, n \in D, n < N PROVE n + 1 \in D
    <3>1. n + 1 \in 1 .. N /\ n + 1 \in 0 .. N /\ (n + 1) - 1 = n
      BY <2>5, <1>1
    <3>2. flat[n + 1] = IF n + 1 = 1 THEN ss[n + 1] ELSE flat[n] \o ss[n + 1]
      BY <2>3, <3>1
    <3>3. f[n + 1] = f[n] \o ss[n + 1]
      BY <1>6, <3>1
    <3>4. CASE n = 0
      <4>1. f[n + 1] = <<>> \o ss[n + 1]
        BY <3>3, <3>4, <1>4 DEF b
      <4> QED BY <4>1, <3>1, <3>2, <3>4, <1>1 DEF S
    <3>5. CASE n # 0
      <4>1. flat[n] = f[n] /\ n + 1 # 1
        BY <3>1, <3>5, <2>5
      <4>2. flat[n + 1] = f[n + 1]
        BY <4>1, <3>2, <3>3
      <4> QED BY <4>2, <3>1
    <3> QED BY <3>4, <3>5
  <2> HIDE DEF D
  <2>6. 0 .. N \subseteq D
    BY <1>1, <2>4, <2>5, UpTo
  <2>7. flat[N] = f[N]
    BY <2>6, <1>1, <1>9 DEF D
  <2> QED BY <1>7, <1>10, <2>1, <2>7
<1> QED BY <1>8, <1>9

LEMMA JoinsAgree ==
  ASSUME NEW T, NEW ss \in Seq(Seq(T)), NEW tt \in Seq(Seq(T)),
         NEW N \in Nat, N <= Len(ss), N <= Len(tt), \A i \in 1 .. N : ss[i] = tt[i],
         NEW f, NEW g, Joins(f, ss, T), Joins(g, tt, T)
  PROVE  f[N] = g[N]
<1> DEFINE D == {n \in 0 .. N : f[n] = g[n]}
<1>1. 0 \in D
  BY DEF Joins
<1>2. ASSUME NEW n \in 0 .. N, n \in D, n < N PROVE n + 1 \in D
  <2>1. n + 1 \in 1 .. N /\ n + 1 \in 1 .. Len(ss) /\ n + 1 \in 1 .. Len(tt) /\ (n + 1) - 1 = n
    BY <1>2
  <2>2. f[n + 1] = f[n] \o ss[n + 1] /\ g[n + 1] = g[n] \o tt[n + 1]
    BY <2>1 DEF Joins
  <2>3. f[n] = g[n] /\ ss[n + 1] = tt[n + 1]
    BY <2>1, <1>2
  <2>4. f[n + 1] = g[n + 1]
    BY <2>2, <2>3
  <2> QED BY <2>1, <2>4
<1> HIDE DEF D
<1>3. 0 .. N \subseteq D
  BY <1>1, <1>2, UpTo
<1> QED BY <1>3 DEF D

LEMMA FlattenAppend ==
  ASSUME NEW T, NEW ss \in Seq(Seq(T)), NEW x \in Seq(T)
  PROVE  FlattenSeq(Append(ss, x)) = FlattenSeq(ss) \o x
<1> DEFINE tt == Append(ss, x)
           N == Len(ss)
<1>1. tt \in Seq(Seq(T)) /\ Len(tt) = N + 1 /\ tt[N + 1] = x /\ N \in Nat
      /\ \A i \in 1 .. N : ss[i] = tt[i]
  OBVIOUS
<1> HIDE DEF tt
<1>2. PICK f : Joins(f, ss, T) /\ FlattenSeq(ss) = f[N]
  BY FlattenSteps
<1>3. PICK g : Joins(g, tt, T) /\ FlattenSeq(tt) = g[Len(tt)]
  BY <1>1, FlattenSteps
<1>4. f[N] = g[N]
  <2>1. N \in Nat /\ \A i \in 1 .. N : ss[i] = tt[i]
    BY <1>1
  <2>5. N <= Len(ss)
    OBVIOUS
  <2>4. N <= Len(tt)
    <3> HIDE DEF N
    <3> QED BY <1>1
  <2>2. Joins(f, ss, T) /\ Joins(g, tt, T)
    BY <1>2, <1>3
  <2>3. tt \in Seq(Seq(T))
    BY <1>1
  <2> HIDE DEF N
  <2> QED BY <2>1, <2>2, <2>3, <2>4, <2>5, JoinsAgree
<1>5. N + 1 \in 1 .. Len(tt) /\ (N + 1) - 1 = N
  BY <1>1
<1>6. g[N + 1] = g[N] \o x
  BY <1>1, <1>3, <1>5 DEF Joins
<1> QED BY <1>1, <1>2, <1>3, <1>4, <1>6 DEF tt

LEMMA FlattenNone == FlattenSeq(<<>>) = <<>>
  BY DEF FlattenSeq

LEMMA FlattenTyped ==
  ASSUME NEW T, NEW ss \in Seq(Seq(T))
  PROVE  FlattenSeq(ss) \in Seq(T)
<1>1. PICK f : Joins(f, ss, T) /\ FlattenSeq(ss) = f[Len(ss)]
  BY FlattenSteps
<1>2. Len(ss) \in 0 .. Len(ss)
  OBVIOUS
<1> QED BY <1>1, <1>2 DEF Joins

LEMMA ListIs ==
  ASSUME NEW T, NEW n \in Nat, NEW f, f = [i \in 1 .. n |-> f[i]], \A i \in 1 .. n : f[i] \in T
  PROVE  f \in Seq(T) /\ Len(f) = n
<1>1. f \in [1 .. n -> T]
  OBVIOUS
<1> QED BY <1>1

LEMMA OneMore ==
  ASSUME NEW T, NEW s \in Seq(T), NEW t \in Seq(T), Len(t) = Len(s) + 1,
         \A i \in 1 .. Len(s) : t[i] = s[i]
  PROVE  t = Append(s, t[Len(s) + 1])
<1> DEFINE x == t[Len(s) + 1]
           u == Append(s, x)
<1>0. Len(s) \in Nat
  OBVIOUS
<1>1. x \in T
  OBVIOUS
<1> HIDE DEF x
<1>2. u \in Seq(T) /\ Len(u) = Len(s) + 1 /\ (\A i \in 1 .. Len(s) : u[i] = s[i]) /\ u[Len(s) + 1] = x
  BY <1>1, AppendIs
<1> HIDE DEF u
<1>3. \A i \in 1 .. Len(s) + 1 : i \in 1 .. Len(s) \/ i = Len(s) + 1
  BY <1>0
<1>4. \A i \in 1 .. Len(t) : t[i] = u[i]
  BY <1>2, <1>3 DEF x
<1> QED BY <1>2, <1>4, SeqEqual DEF u, x

-----------------------------------------------------------------------------
(* The table                                                               *)

LEMMA Alphabets ==
  ASSUME NEW pf
  PROVE  /\ AlphabetOf(pf) \in Seq(Int) /\ IsInjective(AlphabetOf(pf))
         /\ pf = "p" => Len(AlphabetOf(pf)) = 94 /\ Range(AlphabetOf(pf)) = 33 .. 126
         /\ pf # "p" => Len(AlphabetOf(pf)) = 26 /\ Range(AlphabetOf(pf)) = 65 .. 90
<1>1. polybius_alphabet \in Seq(Int) /\ Len(polybius_alphabet) = 94
      /\ \A i \in 1 .. 94 : polybius_alphabet[i] = 32 + i
  BY DEF polybius_alphabet
<1>2. fm_alphabet \in Seq(Int) /\ Len(fm_alphabet) = 26 /\ \A i \in 1 .. 26 : fm_alphabet[i] = 64 + i
  BY DEF fm_alphabet
<1>3. DOMAIN polybius_alphabet = 1 .. 94 /\ DOMAIN fm_alphabet = 1 .. 26
  BY <1>1, <1>2
<1>4. CASE pf = "p"
  <2>1. AlphabetOf(pf) = polybius_alphabet
    BY <1>4 DEF AlphabetOf
  <2>2. IsInjective(polybius_alphabet)
    <3>1. \A i, j \in 1 .. 94 : polybius_alphabet[i] = polybius_alphabet[j] => 32 + i = 32 + j
      BY <1>1
    <3>2. \A i, j \in 1 .. 94 : 32 + i = 32 + j => i = j
      OBVIOUS
    <3> QED BY <3>1, <3>2, <1>3 DEF IsInjective
  <2>3. \A c \in 33 .. 126 : c - 32 \in 1 .. 94 /\ polybius_alphabet[c - 32] = c
    <3>1. \A c \in 33 .. 126 : c - 32 \in 1 .. 94 /\ 32 + (c - 32) = c
      OBVIOUS
    <3>2. \A c \in 33 .. 126 : polybius_alphabet[c - 32] = 32 + (c - 32)
      <4>1. \A c \in 33 .. 126 : c - 32 \in 1 .. 94
        OBVIOUS
      <4> QED BY <4>1, <1>1
    <3> QED BY <3>1, <3>2
  <2>4. Range(polybius_alphabet) = 33 .. 126
    BY <1>1, <1>3, <2>3 DEF Range
  <2> QED BY <1>1, <1>4, <2>1, <2>2, <2>4
<1>5. CASE pf # "p"
  <2>1. AlphabetOf(pf) = fm_alphabet
    BY <1>5 DEF AlphabetOf
  <2>2. IsInjective(fm_alphabet)
    <3>1. \A i, j \in 1 .. 26 : fm_alphabet[i] = fm_alphabet[j] => 64 + i = 64 + j
      BY <1>2
    <3>2. \A i, j \in 1 .. 26 : 64 + i = 64 + j => i = j
      OBVIOUS
    <3> QED BY <3>1, <3>2, <1>3 DEF IsInjective
  <2>3. \A c \in 65 .. 90 : c - 64 \in 1 .. 26 /\ fm_alphabet[c - 64] = c
    <3>1. \A c \in 65 .. 90 : c - 64 \in 1 .. 26 /\ 64 + (c - 64) = c
      OBVIOUS
    <3> QED BY <3>1, <1>2
  <2>4. Range(fm_alphabet) = 65 .. 90
    BY <1>2, <1>3, <2>3 DEF Range
  <2> QED BY <1>2, <1>5, <2>1, <2>2, <2>4
<1> QED BY <1>4, <1>5

\* The table when i letters of the alphabet have been looked at.
Laid(t, key, abc, i) ==
    /\ t \in Seq(Int) /\ IsInjective(t)
    /\ Range(t) = Range(key) \union {abc[j] : j \in 1 .. i}
    /\ Len(key) <= Len(t) /\ \A j \in 1 .. Len(key) : t[j] = key[j]

LEMMA LaidNext ==
  ASSUME NEW abc \in Seq(Int), IsInjective(abc), NEW key \in Seq(Int),
         NEW i \in Nat, i + 1 \in 1 .. Len(abc), NEW t, Laid(t, key, abc, i)
  PROVE  Laid(IF abc[i + 1] \in Range(key) THEN t ELSE Append(t, abc[i + 1]), key, abc, i + 1)
<1> DEFINE c == abc[i + 1]
<1>0. t \in Seq(Int) /\ IsInjective(t) /\ Len(key) <= Len(t) /\ \A j \in 1 .. Len(key) : t[j] = key[j]
  BY DEF Laid
<1>7. Range(t) = Range(key) \union {abc[j] : j \in 1 .. i}
  BY DEF Laid
<1>1. c \in Int
  OBVIOUS
<1>2. {abc[j] : j \in 1 .. i + 1} = {abc[j] : j \in 1 .. i} \union {c}
  <2>1. 1 .. i + 1 = (1 .. i) \union {i + 1}
    OBVIOUS
  <2> QED BY <2>1
<1> HIDE DEF c
<1>3. CASE c \in Range(key)
  <2>1. Range(t) = Range(key) \union {abc[j] : j \in 1 .. i + 1}
    BY <1>2, <1>3, <1>7
  <2> QED BY <1>0, <1>3, <2>1 DEF Laid, c
<1>4. CASE c \notin Range(key)
  <2> DEFINE u == Append(t, c)
  <2>1. u \in Seq(Int) /\ Len(u) = Len(t) + 1 /\ (\A j \in 1 .. Len(t) : u[j] = t[j]) /\ u[Len(t) + 1] = c
    BY <1>0, <1>1, AppendIs
  <2> HIDE DEF u
  <2>2. DOMAIN u = DOMAIN t \union {Len(t) + 1} /\ DOMAIN t = 1 .. Len(t) /\ Len(t) \in Nat
        /\ DOMAIN u = 1 .. Len(t) + 1
    <3>1. DOMAIN t = 1 .. Len(t) /\ Len(t) \in Nat
      BY <1>0
    <3>2. DOMAIN u = 1 .. Len(t) + 1
      BY <2>1
    <3>3. 1 .. Len(t) + 1 = (1 .. Len(t)) \union {Len(t) + 1}
      BY <3>1
    <3> QED BY <3>1, <3>2, <3>3
  <2>3. Range(u) = Range(t) \union {c}
    BY <2>1, <2>2, SMTT(30) DEF Range
  <2>4. \A j \in 1 .. i : abc[j] # c
    BY DEF IsInjective, c
  <2>5. c \notin Range(t)
    BY <1>7, <1>4, <2>4
  <2>6. IsInjective(u)
    <3> SUFFICES ASSUME NEW a \in DOMAIN u, NEW b \in DOMAIN u, u[a] = u[b] PROVE a = b
      BY DEF IsInjective
    <3>1. \A j \in DOMAIN t : u[j] = t[j] /\ t[j] # c
      BY <2>1, <2>2, <2>5 DEF Range
    <3>2. CASE a \in DOMAIN t /\ b \in DOMAIN t
      BY <3>1, <3>2, <1>0 DEF IsInjective
    <3> QED BY <3>1, <3>2, <2>1, <2>2
  <2>7. Range(u) = Range(key) \union {abc[j] : j \in 1 .. i + 1}
    BY <2>3, <1>7, <1>2
  <2>8. Len(key) \in Nat
    OBVIOUS
  <2>9. Len(key) <= Len(u) /\ \A j \in 1 .. Len(key) : u[j] = key[j]
    BY <2>1, <2>2, <2>8, <1>0
  <2>10. Laid(u, key, abc, i + 1)
    BY <2>1, <2>6, <2>7, <2>9 DEF Laid
  <2> QED BY <2>10, <1>4 DEF u, c
<1> QED BY <1>3, <1>4

\* A table: the key first, and each letter of the alphabet once.
LEMMA TableLaid ==
  ASSUME NEW pf, NEW key \in Seq(Int), IsInjective(key), Range(key) \subseteq Range(AlphabetOf(pf))
  PROVE  /\ initCipherTable(key, pf) \in Seq(Int) /\ IsInjective(initCipherTable(key, pf))
         /\ Range(initCipherTable(key, pf)) = Range(AlphabetOf(pf))
         /\ IsPrefix(key, initCipherTable(key, pf))
<1> DEFINE abc == AlphabetOf(pf)
           N == Len(abc)
           S == Seq(Int)
           b == key
           E(n, t) == IF abc[n] \in Range(key) THEN t ELSE Append(t, abc[n])
           Rec(f) == [i \in 0 .. N |-> IF i = 0 THEN b
                        ELSE IF abc[i] \in Range(key) THEN f[i - 1] ELSE Append(f[i - 1], abc[i])]
           g == [n \in 1 .. N |-> [t \in S |-> E(n, t)]]
           tab == CHOOSE f : f = Rec(f)
<1>0. abc \in Seq(Int) /\ IsInjective(abc)
  BY Alphabets
<1>1. N \in Nat /\ b \in S
  BY <1>0
<1>2. \A n \in 1 .. N, t \in S : E(n, t) \in S
  BY <1>0
<1>3. initCipherTable(key, pf) = tab[N]
  BY DEF initCipherTable
<1>12. DOMAIN abc = 1 .. N
  BY <1>0
<1> HIDE DEF abc, b, N, S
<1>4. g \in [1 .. N -> [S -> S]]
  BY <1>2
<1>5. \E f : f = Rec(f)
  <2> HIDE DEF g
  <2> OfSteps(g, N, S)
    BY <1>4 DEF OfSteps
  <2> PICK f : Taken(f, N, S, b, g)
    BY <1>1, StepByStep
  <2>1. f \in [0 .. N -> S] /\ f[0] = b /\ \A n \in 1 .. N : f[n] = g[n][f[n - 1]]
    BY DEF Taken
  <2>2. \A n \in 1 .. N : f[n - 1] \in S
    BY <2>1, <1>1
  <2>3. \A n \in 1 .. N : f[n] = E(n, f[n - 1])
    BY <2>1, <2>2 DEF g
  <2>4. \A i \in 0 .. N : i = 0 \/ i \in 1 .. N
    BY <1>1
  <2>5. \A i \in 0 .. N : f[i] = IF i = 0 THEN b
                                 ELSE IF abc[i] \in Range(key) THEN f[i - 1] ELSE Append(f[i - 1], abc[i])
    BY <2>1, <2>3, <2>4
  <2>6. f = Rec(f)
    BY <2>1, <2>5
  <2> QED BY <2>6
<1>6. tab = Rec(tab)
  BY <1>5
<1> HIDE DEF tab
<1>7. tab[0] = b
  BY <1>6, <1>1
<1>8. \A n \in 1 .. N : tab[n] = E(n, tab[n - 1])
  <2>1. \A n \in 1 .. N : n \in 0 .. N /\ n # 0
    BY <1>1
  <2> QED BY <2>1, <1>6
<1> DEFINE D == {n \in 0 .. N : Laid(tab[n], key, abc, n)}
<1>9. 0 \in D
  <2>1. {abc[j] : j \in 1 .. 0} = {}
    OBVIOUS
  <2>2. Laid(b, key, abc, 0)
    BY <2>1 DEF Laid, b
  <2> QED BY <2>2, <1>7, <1>1
<1>10. ASSUME NEW n \in 0 .. N, n \in D, n < N PROVE n + 1 \in D
  <2>1. n + 1 \in 1 .. N /\ n + 1 \in 0 .. N /\ (n + 1) - 1 = n /\ n \in Nat
    BY <1>10, <1>1
  <2>2. tab[n + 1] = E(n + 1, tab[n])
    BY <2>1, <1>8
  <2>3. Laid(tab[n], key, abc, n)
    BY <1>10
  <2>4. Laid(tab[n + 1], key, abc, n + 1)
    <3> HIDE DEF D
    <3>1. n + 1 \in 1 .. Len(abc)
      BY <2>1 DEF N
    <3>2. Laid(E(n + 1, tab[n]), key, abc, n + 1)
      BY <1>0, <2>1, <2>3, <3>1, LaidNext
    <3> QED BY <2>2, <3>2
  <2> QED BY <2>1, <2>4
<1> HIDE DEF D
<1>11. 0 .. N \subseteq D
  BY <1>1, <1>9, <1>10, UpTo
<1>13. Laid(tab[N], key, abc, N)
  BY <1>11, <1>1 DEF D
<1>14. Range(abc) = {abc[j] : j \in 1 .. N}
  BY <1>12 DEF Range
<1> DEFINE t == tab[N]
<1>15. t \in Seq(Int) /\ IsInjective(t) /\ Len(key) <= Len(t) /\ (\A j \in 1 .. Len(key) : t[j] = key[j])
       /\ Range(t) = Range(key) \union {abc[j] : j \in 1 .. N}
  BY <1>13 DEF Laid
<1>16. Range(t) = Range(abc)
  BY <1>15, <1>14 DEF abc
<1> HIDE DEF t
<1>17. IsPrefix(key, t)
  <2>1. SubSeq(key, 1, Len(key)) \in Seq(Int) /\ SubSeq(t, 1, Len(key)) \in Seq(Int)
        /\ Len(SubSeq(key, 1, Len(key))) = Len(key) /\ Len(SubSeq(t, 1, Len(key))) = Len(key)
    BY <1>15
  <2>2. \A j \in 1 .. Len(key) : SubSeq(key, 1, Len(key))[j] = SubSeq(t, 1, Len(key))[j]
    BY <1>15
  <2>3. SubSeq(key, 1, Len(key)) = SubSeq(t, 1, Len(key))
    BY <2>1, <2>2, SeqEqual
  <2> QED BY <1>15, <2>3 DEF IsPrefix
<1> QED BY <1>3, <1>15, <1>16, <1>17 DEF t, abc

\* A sequence that holds each of so many letters once has as many places.
LEMMA OnceEach ==
  ASSUME NEW s \in Seq(Int), IsInjective(s), NEW a \in Nat, NEW b \in Nat, a <= b, Range(s) = a .. b
  PROVE  Len(s) = b - a + 1
<1>1. s \in Bijection(1 .. Len(s), a .. b)
  <2>1. s \in [1 .. Len(s) -> a .. b]
    BY DEF Range
  <2>2. \A i, j \in 1 .. Len(s) : s[i] = s[j] => i = j
    BY DEF IsInjective
  <2>3. \A c \in a .. b : \E i \in 1 .. Len(s) : s[i] = c
    BY DEF Range
  <2> QED BY <2>1, <2>2, <2>3 DEF Bijection, Injection, Surjection, IsInjective
<1>2. ExistsBijection(1 .. Len(s), a .. b)
  BY <1>1 DEF ExistsBijection
<1>3. IsFiniteSet(a .. b) /\ Cardinality(a .. b) = b - a + 1
  <2>1. a \in Int /\ b \in Int /\ ~ (a > b)
    OBVIOUS
  <2> QED BY <2>1, FS_Interval
<1>4. IsFiniteSet(1 .. Len(s)) /\ Cardinality(1 .. Len(s)) = Len(s)
  <2>1. Len(s) \in Int /\ 1 \in Int
    OBVIOUS
  <2>2. IsFiniteSet(1 .. Len(s)) /\ Cardinality(1 .. Len(s)) = IF 1 > Len(s) THEN 0 ELSE Len(s) - 1 + 1
    <3> DEFINE n == Len(s)
    <3> HIDE DEF n
    <3>1. IsFiniteSet(1 .. n) /\ Cardinality(1 .. n) = IF 1 > n THEN 0 ELSE n - 1 + 1
      <4>1. n \in Int
        BY <2>1 DEF n
      <4> QED BY <4>1, <2>1, FS_Interval
    <3> QED BY <3>1 DEF n
  <2>3. Len(s) \in Nat
    OBVIOUS
  <2> QED BY <2>2, <2>3
<1> QED BY <1>2, <1>3, <1>4, FS_Bijection

-----------------------------------------------------------------------------
(* The words of the command line                                           *)

LastOf(s, w, default) ==
    LET at == {i \in DOMAIN s : s[i][1] = w}
    IN  IF at = {} THEN default ELSE s[Max(at)][2]

AskedIn(s, w) == \E i \in DOMAIN s : s[i][1] = w

LEMMA LastAppend ==
  ASSUME NEW S, NEW s \in Seq(S), NEW e \in S, NEW w, NEW d
  PROVE  /\ LastOf(Append(s, e), w, d) = IF e[1] = w THEN e[2] ELSE LastOf(s, w, d)
         /\ AskedIn(Append(s, e), w) <=> AskedIn(s, w) \/ e[1] = w
<1> DEFINE t == Append(s, e)
           n == Len(s)
           at(u) == {i \in DOMAIN u : u[i][1] = w}
<1>1. t \in Seq(S) /\ Len(t) = n + 1 /\ (\A i \in 1 .. n : t[i] = s[i]) /\ t[n + 1] = e
  BY AppendIs
<1>2. DOMAIN s = 1 .. n /\ n \in Nat /\ DOMAIN t = 1 .. n + 1
  <2> HIDE DEF t
  <2> QED BY <1>1
<1> HIDE DEF t, n
<1>3. \A i \in 1 .. n + 1 : i \in 1 .. n \/ i = n + 1
  BY <1>2
<1>4. \A i \in 1 .. n : i \in 1 .. n + 1
  BY <1>2
<1>5. AskedIn(t, w) <=> AskedIn(s, w) \/ e[1] = w
  <2>1. n + 1 \in 1 .. n + 1
    BY <1>2
  <2> QED BY <2>1, <1>1, <1>2, <1>3, <1>4 DEF AskedIn
<1>6. CASE e[1] = w
  <2>1. n + 1 \in at(t) /\ at(t) \subseteq Int /\ \A i \in at(t) : n + 1 >= i
    BY <1>1, <1>2, <1>6
  <2>2. Max(at(t)) = n + 1
    <3> HIDE DEF at
    <3> QED BY <2>1, MaxIs
  <2>3. LastOf(t, w, d) = t[Max(at(t))][2]
    BY <2>1 DEF LastOf
  <2> QED BY <2>2, <2>3, <1>1, <1>5, <1>6 DEF t
<1>7. CASE e[1] # w
  <2>1. at(t) = at(s) /\ at(s) \subseteq 0 .. n /\ at(s) \subseteq 1 .. n
    BY <1>1, <1>2, <1>3, <1>4, <1>7
  <2>2. LastOf(t, w, d) = (IF at(t) = {} THEN d ELSE t[Max(at(t))][2])
        /\ LastOf(s, w, d) = (IF at(s) = {} THEN d ELSE s[Max(at(s))][2])
    BY DEF LastOf
  <2>3. at(s) # {} => Max(at(s)) \in 1 .. n
    <3> HIDE DEF at
    <3> QED BY <2>1, <1>2, MaxExists
  <2> HIDE DEF at
  <2>4. LastOf(t, w, d) = LastOf(s, w, d)
    BY <2>1, <2>2, <2>3, <1>1
  <2> QED BY <2>4, <1>5, <1>7 DEF t
<1> QED BY <1>6, <1>7

Arguments == [pf : {"none", "p", "f"}, crypt : {"none", "e", "d"}, key : Seq(Int), row : Nat, col : Nat]
Words == Flags \X (Keys \union Numbers \union {NULL})

\* The local variables of validargs() are what the words accepted so far say.
Honest ==
    /\ args \in Arguments /\ asked \in Seq(Words)
    /\ args.key = LastOf(asked, "-k", <<>>)
    /\ args.row = Short(LastOf(asked, "-r", 10)) /\ args.col = Short(LastOf(asked, "-c", 10))
    /\ IsInjective(args.key) /\ Range(args.key) \subseteq Range(AlphabetOf(args.pf))
    /\ asked = <<>> <=> args.pf = "none"
    /\ args.pf = "f" <=> AskedIn(asked, "-f")
    /\ args.pf = "p" <=> AskedIn(asked, "-p")
    /\ args.crypt = "d" <=> AskedIn(asked, "-d")
    /\ args.pf = "none" => args = NoArgs
    /\ args.pf # "p" => args.row = 10 /\ args.col = 10

LEMMA ShortIs ==
  ASSUME NEW v \in Int
  PROVE  Short(v) \in Nat
  BY DEF Short

LEMMA HonestInit ==
  ASSUME Init
  PROVE  Honest
<1>1. args = NoArgs /\ asked = <<>>
  BY DEF Init
<1>2. \A w, d : LastOf(asked, w, d) = d /\ ~ AskedIn(asked, w)
  BY <1>1 DEF LastOf, AskedIn
<1>3. Short(10) = 10
  BY DEF Short
<1>4. IsInjective(NoArgs.key) /\ Range(NoArgs.key) = {}
  BY DEF NoArgs, IsInjective, Range
<1>5. NoArgs \in Arguments /\ asked \in Seq(Words)
  BY <1>1 DEF NoArgs, Arguments
<1>6. args.key = <<>> /\ args.row = 10 /\ args.col = 10 /\ args.pf = "none" /\ args.crypt = "none"
  BY <1>1 DEF NoArgs
<1>7. Range(args.key) \subseteq Range(AlphabetOf(args.pf)) /\ IsInjective(args.key)
  BY <1>1, <1>4
<1> QED BY <1>1, <1>2, <1>3, <1>5, <1>6, <1>7 DEF Honest

\* What a word that is accepted adds to the words, and changes of the variables.
Adds(w, v) ==
    /\ asked' = Append(asked, <<w, v>>) /\ <<w, v>> \in Words /\ asked' \in Seq(Words)
    /\ asked' # <<>>
    /\ \A x, d : LastOf(asked', x, d) = IF w = x THEN v ELSE LastOf(asked, x, d)
    /\ \A x : AskedIn(asked', x) <=> AskedIn(asked, x) \/ w = x

LEMMA WordAdds ==
  ASSUME NEW w \in Flags, NEW v \in Operands(w), Honest, asked' = Append(asked, <<w, v>>)
  PROVE  Adds(w, v)
<1>1. v \in Keys \union Numbers \union {NULL}
  BY DEF Operands, NoOperand, Flags
<1>2. <<w, v>> \in Words /\ <<w, v>>[1] = w /\ <<w, v>>[2] = v
  BY <1>1 DEF Words
<1>3. asked \in Seq(Words)
  BY DEF Honest
<1>4. asked' \in Seq(Words) /\ asked' # <<>>
  BY <1>2, <1>3
<1>5. \A x, d : LastOf(asked', x, d) = IF w = x THEN v ELSE LastOf(asked, x, d)
  BY <1>2, <1>3, LastAppend
<1>6. \A x : AskedIn(asked', x) <=> AskedIn(asked, x) \/ w = x
  BY <1>2, <1>3, LastAppend
<1> QED BY <1>2, <1>4, <1>5, <1>6 DEF Adds

LEMMA CipherWord ==
  ASSUME NEW w \in {"-f", "-p"}, NEW v, Honest, Adds(w, v), ~ Rejected(w, v), args' = Accepted(w, v)
  PROVE  Honest'
<1> DEFINE pf == IF w = "-f" THEN "f" ELSE "p"
<1>1. args' = [args EXCEPT !.pf = pf]
  BY DEF Accepted
<1>2. args \in Arguments
  BY DEF Honest
<1>3. args' \in Arguments /\ args'.pf = pf /\ args'.crypt = args.crypt /\ args'.key = args.key
      /\ args'.row = args.row /\ args'.col = args.col
  BY <1>1, <1>2 DEF Arguments
<1>4. args.pf = "none" \/ args.pf = pf
  BY <1>2 DEF Rejected, Arguments
<1>5. IsInjective(args'.key) /\ Range(args'.key) \subseteq Range(AlphabetOf(args'.pf))
  <2>1. CASE args.pf = "none"
    <3>1. args.key = <<>>
      BY <2>1 DEF Honest, NoArgs
    <3>2. Range(args'.key) = {} /\ IsInjective(args'.key)
      BY <3>1, <1>3 DEF Range, IsInjective
    <3> QED BY <3>2
  <2>2. CASE args.pf = pf
    BY <2>2, <1>3 DEF Honest
  <2> QED BY <2>1, <2>2, <1>4
<1>6. args'.key = LastOf(asked', "-k", <<>>) /\ args'.row = Short(LastOf(asked', "-r", 10))
      /\ args'.col = Short(LastOf(asked', "-c", 10))
  BY <1>3, SMTT(20), ZenonT(20) DEF Honest, Adds
<1>7. /\ args'.pf = "f" <=> AskedIn(asked', "-f")
      /\ args'.pf = "p" <=> AskedIn(asked', "-p")
      /\ args'.crypt = "d" <=> AskedIn(asked', "-d")
  BY <1>3, <1>4 DEF Honest, Adds
<1>8. args'.pf # "p" => args'.row = 10 /\ args'.col = 10
  BY <1>3, <1>4 DEF Honest
<1>9. asked' \in Seq(Words) /\ asked' # <<>> /\ args'.pf # "none"
  BY <1>3 DEF Adds
<1> QED BY <1>3, <1>5, <1>6, <1>7, <1>8, <1>9 DEF Honest

LEMMA DirectionWord ==
  ASSUME NEW w \in {"-e", "-d"}, NEW v, Honest, Adds(w, v), ~ Rejected(w, v), args' = Accepted(w, v)
  PROVE  Honest'
<1> DEFINE dir == IF w = "-d" THEN "d" ELSE "e"
<1>1. args' = [args EXCEPT !.crypt = dir]
  BY DEF Accepted
<1>2. args \in Arguments
  BY DEF Honest
<1>3. args' \in Arguments /\ args'.pf = args.pf /\ args'.crypt = dir /\ args'.key = args.key
      /\ args'.row = args.row /\ args'.col = args.col
  BY <1>1, <1>2 DEF Arguments
<1>4. args.pf # "none" /\ args.crypt = "none"
  BY <1>2 DEF Rejected, Arguments
<1>6. args'.key = LastOf(asked', "-k", <<>>) /\ args'.row = Short(LastOf(asked', "-r", 10))
      /\ args'.col = Short(LastOf(asked', "-c", 10))
  BY <1>3, SMTT(20), ZenonT(20) DEF Honest, Adds
<1>7. /\ args'.pf = "f" <=> AskedIn(asked', "-f")
      /\ args'.pf = "p" <=> AskedIn(asked', "-p")
      /\ args'.crypt = "d" <=> AskedIn(asked', "-d")
  BY <1>3, <1>4 DEF Honest, Adds
<1>8. (args'.pf # "p" => args'.row = 10 /\ args'.col = 10)
      /\ IsInjective(args'.key) /\ Range(args'.key) \subseteq Range(AlphabetOf(args'.pf))
  BY <1>3, <1>4 DEF Honest
<1>9. asked' \in Seq(Words) /\ asked' # <<>> /\ args'.pf # "none"
  BY <1>3, <1>4 DEF Adds
<1> QED BY <1>3, <1>6, <1>7, <1>8, <1>9 DEF Honest

LEMMA KeyWord ==
  ASSUME NEW v \in Operands("-k"), Honest, Adds("-k", v), ~ Rejected("-k", v), args' = Accepted("-k", v)
  PROVE  Honest'
<1>1. args' = [args EXCEPT !.key = v]
  BY DEF Accepted
<1>2. args \in Arguments
  BY DEF Honest
<1>4. args.pf # "none" /\ validateKey(v, args.pf)
  BY <1>2 DEF Rejected, Arguments
<1>5. v \in Seq(Int)
  BY <1>4, CipherAssumption DEF validateKey, Operands
<1>3. args' \in Arguments /\ args'.pf = args.pf /\ args'.crypt = args.crypt /\ args'.key = v
      /\ args'.row = args.row /\ args'.col = args.col
  BY <1>1, <1>2, <1>5 DEF Arguments
<1>6. args'.key = LastOf(asked', "-k", <<>>) /\ args'.row = Short(LastOf(asked', "-r", 10))
      /\ args'.col = Short(LastOf(asked', "-c", 10))
  BY <1>3 DEF Honest, Adds
<1>7. /\ args'.pf = "f" <=> AskedIn(asked', "-f")
      /\ args'.pf = "p" <=> AskedIn(asked', "-p")
      /\ args'.crypt = "d" <=> AskedIn(asked', "-d")
  BY <1>3, <1>4 DEF Honest, Adds
<1>8. (args'.pf # "p" => args'.row = 10 /\ args'.col = 10)
      /\ IsInjective(args'.key) /\ Range(args'.key) \subseteq Range(AlphabetOf(args'.pf))
  BY <1>3, <1>4 DEF Honest, validateKey
<1>9. asked' \in Seq(Words) /\ asked' # <<>> /\ args'.pf # "none"
  BY <1>3, <1>4 DEF Adds
<1> QED BY <1>3, <1>6, <1>7, <1>8, <1>9 DEF Honest

LEMMA SquareWord ==
  ASSUME NEW w \in {"-r", "-c"}, NEW v \in Operands(w), v # NoOperand,
         Honest, Adds(w, v), ~ Rejected(w, v), args' = Accepted(w, v)
  PROVE  Honest'
<1>1. args' = IF w = "-r" THEN [args EXCEPT !.row = Short(v)] ELSE [args EXCEPT !.col = Short(v)]
  BY DEF Accepted
<1>2. args \in Arguments
  BY DEF Honest
<1>4. args.pf = "p"
  BY <1>2 DEF Rejected, Arguments
<1>5. Short(v) \in Nat
  BY CipherAssumption, ShortIs DEF Operands
<1>3. args' \in Arguments /\ args'.pf = args.pf /\ args'.crypt = args.crypt /\ args'.key = args.key
      /\ args'.row = (IF w = "-r" THEN Short(v) ELSE args.row)
      /\ args'.col = (IF w = "-c" THEN Short(v) ELSE args.col)
  BY <1>1, <1>2, <1>5 DEF Arguments
<1>6. args'.key = LastOf(asked', "-k", <<>>) /\ args'.row = Short(LastOf(asked', "-r", 10))
      /\ args'.col = Short(LastOf(asked', "-c", 10))
  BY <1>3, SMTT(20), ZenonT(20) DEF Honest, Adds
<1>7. /\ args'.pf = "f" <=> AskedIn(asked', "-f")
      /\ args'.pf = "p" <=> AskedIn(asked', "-p")
      /\ args'.crypt = "d" <=> AskedIn(asked', "-d")
  BY <1>3, <1>4 DEF Honest, Adds
<1>8. args'.pf = "p"
      /\ IsInjective(args'.key) /\ Range(args'.key) \subseteq Range(AlphabetOf(args'.pf))
  BY <1>3, <1>4 DEF Honest
<1>9. asked' \in Seq(Words) /\ asked' # <<>> /\ args'.pf # "none"
  BY <1>3, <1>4 DEF Adds
<1> QED BY <1>3, <1>6, <1>7, <1>8, <1>9 DEF Honest

LEMMA HonestWord ==
  ASSUME NEW w \in Flags, NEW v \in Operands(w), Word(w, v), Honest
  PROVE  stage' = "args" => Honest'
<1> SUFFICES ASSUME stage' = "args" PROVE Honest'
  OBVIOUS
<1>1. w # "-h" /\ ~ Rejected(w, v) /\ ~ (w \in {"-r", "-c"} /\ v = NoOperand)
      /\ args' = Accepted(w, v) /\ asked' = Append(asked, <<w, v>>)
  BY DEF Word
<1>2. Adds(w, v)
  BY <1>1, WordAdds
<1>3. w \in {"-f", "-p"} \/ w \in {"-e", "-d"} \/ w = "-k" \/ w \in {"-r", "-c"}
  BY <1>1 DEF Rejected, Flags
<1> QED BY <1>1, <1>2, <1>3, CipherWord, DirectionWord, KeyWord, SquareWord

-----------------------------------------------------------------------------
(* The mode                                                                *)

\* The bits of the mode, as numbers.
Direction(a) == IF a.crypt = "d" THEN 8192 ELSE 0
ModeIs(a) == Direction(a) + (IF a.pf = "f" THEN 16384 ELSE 16 * a.row + a.col)

LEMMA HalfIs ==
  ASSUME NEW r \in 9 .. 15, NEW c \in 9 .. 15, NEW d \in {0, 8192}
  PROVE  /\ Half(170 + d, 16, r) = 16 * r + 10 + d
         /\ Half(16 * r + 10 + d, 1, c) = 16 * r + c + d
         /\ Half(16384 + d, 16, 10) = 16384 + d
         /\ Half(16384 + d, 1, 10) = 16384 + d
<1>1. Half(16384 + d, 16, 10) = 16384 + d /\ Half(16384 + d, 1, 10) = 16384 + d
  BY DEF Half
<1>2. Half(170 + d, 16, r) = 16 * r + 10 + d
  <2>1. (170 + d) \div 16 = 10 + d \div 16
    OBVIOUS
  <2>2. ((170 + d) \div 16) % 16 = 10
    OBVIOUS
  <2> QED BY <2>2 DEF Half
<1>3. Half(16 * r + 10 + d, 1, c) = 16 * r + c + d
  <2> DEFINE u == 16 * r + 10 + d
  <2>1. u \in Nat /\ u \div 1 = u
    OBVIOUS
  <2>2. u % 16 = 10
    OBVIOUS
  <2>3. Half(u, 1, c) = IF c = 10 THEN u ELSE u - ((u \div 1) % 16) * 1 + c * 1
    BY DEF Half
  <2>4. u = 16 * r + 10 + d
    OBVIOUS
  <2> HIDE DEF u
  <2>5. Half(u, 1, c) = IF c = 10 THEN u ELSE u - 10 + c
    BY <2>1, <2>2, <2>3
  <2> QED BY <2>4, <2>5
<1> QED BY <1>1, <1>2, <1>3

LEMMA ModePacked ==
  ASSUME NEW a \in Arguments, a.pf # "none", a.row \in 9 .. 15, a.col \in 9 .. 15,
         a.pf # "p" => a.row = 10 /\ a.col = 10
  PROVE  usageCode(a) = ModeIs(a)
<1>1. Direction(a) \in {0, 8192} /\ a.pf \in {"p", "f"}
  BY DEF Direction, Arguments
<1>2. usageCode(a) = Half(Half((IF a.pf = "f" THEN 16384 ELSE 170) + Direction(a), 16, a.row), 1, a.col)
  BY DEF usageCode, Direction
<1>3. CASE a.pf = "f"
  <2>1. usageCode(a) = Half(Half(16384 + Direction(a), 16, 10), 1, 10)
    BY <1>2, <1>3
  <2>2. usageCode(a) = 16384 + Direction(a)
    BY <2>1, <1>1, HalfIs
  <2> QED BY <2>2, <1>1, <1>3 DEF ModeIs
<1>4. CASE a.pf = "p"
  <2>1. usageCode(a) = Half(Half(170 + Direction(a), 16, a.row), 1, a.col)
    BY <1>2, <1>4
  <2>2. usageCode(a) = 16 * a.row + a.col + Direction(a)
    BY <2>1, <1>1, HalfIs
  <2> QED BY <2>2, <1>1, <1>4 DEF ModeIs
<1> QED BY <1>1, <1>3, <1>4

LEMMA ModeRead ==
  ASSUME NEW a \in Arguments, a.pf # "none", a.row \in 9 .. 15, a.col \in 9 .. 15, mode = ModeIs(a)
  PROVE  /\ mode < 32768 /\ (fm <=> a.pf = "f") /\ (dec <=> a.crypt = "d")
         /\ ~ fm => row = a.row /\ col = a.col
<1>1. Direction(a) \in {0, 8192} /\ a.pf \in {"p", "f"} /\ (Direction(a) = 8192 <=> a.crypt = "d")
  BY DEF Direction, Arguments
<1> DEFINE d == Direction(a)
<1>2. CASE a.pf = "f"
  <2>1. mode = d + 16384 /\ d \in {0, 8192}
    BY <1>1, <1>2 DEF ModeIs
  <2> HIDE DEF d
  <2>2. mode < 32768 /\ fm /\ (dec <=> d = 8192)
    BY <2>1 DEF fm, dec
  <2> QED BY <2>2, <1>1, <1>2 DEF d
<1>3. CASE a.pf = "p"
  <2>1. mode = d + 16 * a.row + a.col /\ d \in {0, 8192}
    BY <1>1, <1>3 DEF ModeIs
  <2> DEFINE r == a.row
             c == a.col
  <2>2. r \in 9 .. 15 /\ c \in 9 .. 15 /\ mode = d + 16 * r + c
    BY <2>1
  <2> HIDE DEF d, r, c
  <2>3. 16 * r + c < 4096 /\ 16 * r + c \in Nat
    BY <2>2
  <2>4. mode < 32768 /\ ~ fm /\ (dec <=> d = 8192)
    BY <2>1, <2>2, <2>3 DEF fm, dec
  <2>5. mode % 16 = c
    BY <2>1, <2>2
  <2>6. mode \div 16 = d \div 16 + r
    <3>1. CASE d = 0
      BY <3>1, <2>1, <2>2
    <3>2. CASE d = 8192
      BY <3>2, <2>1, <2>2
    <3> QED BY <3>1, <3>2, <2>1
  <2>7. (d \div 16 + r) % 16 = r
    BY <2>1, <2>2
  <2>8. row = r /\ col = c
    BY <2>5, <2>6, <2>7 DEF row, col
  <2> QED BY <2>4, <2>8, <1>1, <1>3 DEF d, r, c
<1> QED BY <1>1, <1>2, <1>3

-----------------------------------------------------------------------------
(* The cipher that starts                                                  *)

\* What the table and the square are once activateCrypto() has read the mode.
Keyed ==
    /\ table \in Seq(Int) /\ IsInjective(table)
    /\ fm => Range(table) = 65 .. 90 /\ Len(table) = 26
    /\ ~ fm => /\ Range(table) = 33 .. 126 /\ Len(table) = 94
               /\ row \in 9 .. 15 /\ col \in 9 .. 15 /\ row * col > 94

Prepared ==
    /\ Honest /\ asked # <<>> /\ validateRowAndCol(args.row, args.col)
    /\ mode = usageCode(args) /\ table = initCipherTable(args.key, args.pf)

LEMMA PreparedMode ==
  ASSUME Prepared
  PROVE  /\ mode < 32768 /\ (fm <=> args.pf = "f") /\ (dec <=> args.crypt = "d")
         /\ ~ fm => row = args.row /\ col = args.col
         /\ args.pf # "none" /\ args.row \in 9 .. 15 /\ args.col \in 9 .. 15
         /\ args.row * args.col > 94 /\ args \in Arguments
<1>1. args \in Arguments /\ args.pf # "none" /\ (args.pf # "p" => args.row = 10 /\ args.col = 10)
  BY DEF Prepared, Honest
<1>2. args.row \in 9 .. 15 /\ args.col \in 9 .. 15 /\ args.row * args.col > 94
  BY DEF Prepared, validateRowAndCol
<1>3. mode = ModeIs(args)
  BY <1>1, <1>2, ModePacked DEF Prepared
<1> QED BY <1>1, <1>2, <1>3, ModeRead

LEMMA PreparedTable ==
  ASSUME Prepared
  PROVE  /\ table \in Seq(Int) /\ IsInjective(table) /\ Range(table) = Range(AlphabetOf(args.pf))
         /\ IsPrefix(args.key, table)
<1>1. args.key \in Seq(Int) /\ IsInjective(args.key) /\ Range(args.key) \subseteq Range(AlphabetOf(args.pf))
  BY DEF Prepared, Honest, Arguments
<1> QED BY <1>1, TableLaid DEF Prepared

LEMMA PreparedKeyed ==
  ASSUME Prepared
  PROVE  Keyed
<1>1. fm => Range(table) = 65 .. 90
  <2>1. fm => args.pf # "p"
    BY PreparedMode
  <2> QED BY <2>1, PreparedTable, Alphabets
<1>2. ~ fm => Range(table) = 33 .. 126
  <2>1. ~ fm => args.pf = "p"
    BY PreparedMode DEF Arguments
  <2> QED BY <2>1, PreparedTable, Alphabets
<1>3. table \in Seq(Int) /\ IsInjective(table)
  BY PreparedTable
<1>4. fm => Len(table) = 26
  <2> SUFFICES ASSUME fm PROVE Len(table) = 26
    OBVIOUS
  <2>1. Len(table) = 90 - 65 + 1
    <3> DEFINE a == 65
               b == 90
    <3>1. Range(table) = a .. b /\ a \in Nat /\ b \in Nat /\ a <= b
      BY <1>1
    <3>2. Len(table) = b - a + 1
      <4> HIDE DEF a, b
      <4> QED BY <3>1, <1>3, OnceEach
    <3> QED BY <3>2
  <2> QED BY <2>1
<1>5. ~ fm => Len(table) = 94
  <2> SUFFICES ASSUME ~ fm PROVE Len(table) = 94
    OBVIOUS
  <2>1. Len(table) = 126 - 33 + 1
    <3> DEFINE a == 33
               b == 126
    <3>1. Range(table) = a .. b /\ a \in Nat /\ b \in Nat /\ a <= b
      BY <1>2
    <3>2. Len(table) = b - a + 1
      <4> HIDE DEF a, b
      <4> QED BY <3>1, <1>3, OnceEach
    <3> QED BY <3>2
  <2> QED BY <2>1
<1>6. ~ fm => row \in 9 .. 15 /\ col \in 9 .. 15 /\ row * col > 94
  BY PreparedMode
<1> QED BY <1>1, <1>2, <1>3, <1>4, <1>5, <1>6 DEF Keyed

LEMMA PreparedHonoured ==
  ASSUME Prepared
  PROVE  CommandHonoured
<1>1. Asked("-d") = AskedIn(asked, "-d") /\ Asked("-f") = AskedIn(asked, "-f")
      /\ Asked("-p") = AskedIn(asked, "-p")
  BY DEF Asked, AskedIn
<1>2. LastOperand("-k", <<>>) = args.key /\ Short(LastOperand("-r", 10)) = args.row
      /\ Short(LastOperand("-c", 10)) = args.col
  BY DEF Prepared, Honest, LastOperand, LastOf
<1>3. dec = Asked("-d") /\ fm = Asked("-f") /\ fm = ~ Asked("-p")
  <2>1. dec <=> AskedIn(asked, "-d")
    BY PreparedMode DEF Prepared, Honest
  <2>2. fm <=> AskedIn(asked, "-f")
    BY PreparedMode DEF Prepared, Honest
  <2>3. AskedIn(asked, "-f") <=> ~ AskedIn(asked, "-p")
    BY PreparedMode DEF Prepared, Honest, Arguments
  <2>4. dec \in BOOLEAN /\ fm \in BOOLEAN /\ Asked("-d") \in BOOLEAN /\ Asked("-f") \in BOOLEAN
        /\ Asked("-p") \in BOOLEAN
    BY DEF dec, fm, Asked
  <2> QED BY <2>1, <2>2, <2>3, <2>4, <1>1
<1>4. ~ fm => \A i \in 0 .. 93 : i \div col < row
  <2> SUFFICES ASSUME ~ fm, NEW i \in 0 .. 93 PROVE i \div col < row
    OBVIOUS
  <2>1. row \in 9 .. 15 /\ col \in 9 .. 15 /\ row * col > 94
    BY PreparedKeyed DEF Keyed
  <2> DEFINE r == row
             c == col
             q == i \div c
  <2>2. r \in 9 .. 15 /\ c \in 9 .. 15 /\ r * c > 94
    BY <2>1
  <2> HIDE DEF r, c
  <2>3. c = 9 \/ c = 10 \/ c = 11 \/ c = 12 \/ c = 13 \/ c = 14 \/ c = 15
    BY <2>2
  <2>4. q < r
    BY <2>2, <2>3
  <2> QED BY <2>4 DEF r, c
<1>5. IsPrefix(LastOperand("-k", <<>>), table) /\ IsInjective(table)
      /\ Range(table) = Range(AlphabetOf(args.pf))
  BY <1>2, PreparedTable
<1>6. ~ fm => row = Short(LastOperand("-r", 10)) /\ col = Short(LastOperand("-c", 10))
  BY <1>2, PreparedMode
<1>7. mode < 32768
  BY PreparedMode
<1> QED BY <1>3, <1>4, <1>5, <1>6, <1>7 DEF CommandHonoured

-----------------------------------------------------------------------------
(* Decryption, character after character                                   *)

Machines == [posit : [1 .. 3 -> 0 .. 3], curPosit : 0 .. 2, checkAlreadySpace : BOOLEAN, anti : Int,
             xIsDetected : BOOLEAN, inputRow : Nat \union {-1}, status : {"ok", "failed", "crashed"},
             out : Seq(Int)]

\* From r the characters of s are decrypted one by one, without a failure, to q.
Runs(r, s, q) ==
    \E run \in [0 .. Len(s) -> Machines] :
       /\ run[0] = r /\ run[Len(s)] = q
       /\ \A i \in 1 .. Len(s) : run[i] = Decrypted(s[i], run[i - 1]) /\ run[i].status = "ok"

LEMMA RunsNone ==
  ASSUME NEW r \in Machines
  PROVE  Runs(r, <<>>, r)
<1> DEFINE run == [i \in 0 .. 0 |-> r]
<1>1. run \in [0 .. Len(<<>>) -> Machines] /\ run[0] = r /\ run[Len(<<>>)] = r
  OBVIOUS
<1>2. \A i \in 1 .. Len(<<>>) : FALSE
  OBVIOUS
<1> HIDE DEF run
<1> QED BY <1>1, <1>2 DEF Runs

LEMMA RunsEnd ==
  ASSUME NEW r, NEW q, Runs(r, <<>>, q)
  PROVE  q = r
  BY DEF Runs

LEMMA RunsAppend ==
  ASSUME NEW r, NEW s \in Seq(Int), NEW q, Runs(r, s, q), NEW c \in Int,
         Decrypted(c, q) \in Machines, Decrypted(c, q).status = "ok"
  PROVE  Runs(r, Append(s, c), Decrypted(c, q))
<1> DEFINE t == Append(s, c)
           n == Len(s)
           p == Decrypted(c, q)
<1>1. t \in Seq(Int) /\ Len(t) = n + 1 /\ (\A i \in 1 .. n : t[i] = s[i]) /\ t[n + 1] = c
  BY AppendIs
<1>2. PICK run \in [0 .. n -> Machines] :
          /\ run[0] = r /\ run[n] = q
          /\ \A i \in 1 .. n : run[i] = Decrypted(s[i], run[i - 1]) /\ run[i].status = "ok"
  BY DEF Runs
<1>3. n \in Nat
  OBVIOUS
<1>4. p \in Machines /\ p = Decrypted(c, q) /\ p.status = "ok"
  OBVIOUS
<1> HIDE DEF t, n, p
<1> DEFINE more == [i \in 0 .. n + 1 |-> IF i = n + 1 THEN p ELSE run[i]]
<1>5. more \in [0 .. n + 1 -> Machines]
  <2>1. \A i \in 0 .. n + 1 : i # n + 1 => i \in 0 .. n
    BY <1>3
  <2> QED BY <2>1, <1>4
<1>6. more[0] = r /\ more[n + 1] = p /\ \A i \in 0 .. n : more[i] = run[i]
  <2>1. \A i \in 0 .. n : i \in 0 .. n + 1 /\ i # n + 1
    BY <1>3
  <2>2. 0 \in 0 .. n /\ n + 1 \in 0 .. n + 1
    BY <1>3
  <2> QED BY <2>1, <2>2, <1>2
<1> HIDE DEF more
<1>7. ASSUME NEW i \in 1 .. n + 1
      PROVE  more[i] = Decrypted(t[i], more[i - 1]) /\ more[i].status = "ok"
  <2>1. CASE i = n + 1
    <3>1. i - 1 = n /\ n \in 0 .. n
      BY <2>1, <1>3
    <3> QED BY <2>1, <3>1, <1>1, <1>2, <1>4, <1>6
  <2>2. CASE i \in 1 .. n
    <3>1. i \in 0 .. n /\ i - 1 \in 0 .. n
      BY <2>2, <1>3
    <3> QED BY <2>2, <3>1, <1>1, <1>2, <1>6
  <2> QED BY <2>1, <2>2, <1>3
<1>8. Runs(r, t, p)
  BY <1>1, <1>5, <1>6, <1>7 DEF Runs
<1> QED BY <1>8 DEF t, p

LEMMA RunsHead ==
  ASSUME NEW r, NEW s \in Seq(Int), s # <<>>, NEW q, Runs(r, s, q)
  PROVE  /\ Decrypted(Head(s), r) \in Machines /\ Decrypted(Head(s), r).status = "ok"
         /\ Runs(Decrypted(Head(s), r), Tail(s), q)
<1> DEFINE t == Tail(s)
           n == Len(s)
<1>1. t \in Seq(Int) /\ Len(t) = n - 1 /\ (\A i \in 1 .. n - 1 : t[i] = s[i + 1]) /\ Head(s) = s[1]
      /\ n \in Nat /\ n >= 1
  <2>1. Len(t) = n - 1 /\ t \in Seq(Int) /\ Head(s) = s[1] /\ n \in Nat /\ n >= 1
    OBVIOUS
  <2>2. \A i \in 1 .. n - 1 : t[i] = s[i + 1]
    BY HeadTailProperties
  <2> QED BY <2>1, <2>2
<1>2. PICK run \in [0 .. n -> Machines] :
          /\ run[0] = r /\ run[n] = q
          /\ \A i \in 1 .. n : run[i] = Decrypted(s[i], run[i - 1]) /\ run[i].status = "ok"
  BY DEF Runs
<1> HIDE DEF t, n
<1>3. run[1] = Decrypted(s[1], r) /\ run[1].status = "ok" /\ run[1] \in Machines
  <2>1. 1 \in 1 .. n /\ 1 - 1 = 0 /\ 1 \in 0 .. n
    BY <1>1
  <2> QED BY <2>1, <1>2
<1> DEFINE less == [i \in 0 .. n - 1 |-> run[i + 1]]
<1>4. \A i \in 0 .. n - 1 : i + 1 \in 0 .. n
  BY <1>1
<1>5. less \in [0 .. n - 1 -> Machines]
  BY <1>2, <1>4
<1>6. less[0] = run[1] /\ less[n - 1] = q
  <2>1. 0 \in 0 .. n - 1 /\ n - 1 \in 0 .. n - 1 /\ (n - 1) + 1 = n /\ 0 + 1 = 1
    BY <1>1
  <2> QED BY <2>1, <1>2
<1>7. ASSUME NEW i \in 1 .. n - 1
      PROVE  less[i] = Decrypted(t[i], less[i - 1]) /\ less[i].status = "ok"
  <2>1. i \in 0 .. n - 1 /\ i - 1 \in 0 .. n - 1 /\ i + 1 \in 1 .. n /\ (i - 1) + 1 = i /\ (i + 1) - 1 = i
    BY <1>1
  <2>2. less[i] = run[i + 1] /\ less[i - 1] = run[i]
    BY <2>1
  <2>3. run[i + 1] = Decrypted(s[i + 1], run[i]) /\ run[i + 1].status = "ok"
    BY <1>2, <2>1
  <2> HIDE DEF less
  <2> QED BY <2>2, <2>3, <1>1
<1> HIDE DEF less
<1>8. Runs(run[1], t, q)
  BY <1>1, <1>5, <1>6, <1>7 DEF Runs
<1> QED BY <1>1, <1>3, <1>8 DEF t

\* Nothing that decryption reads has changed.
LEMMA PlaceKept ==
  ASSUME table' = table
  PROVE  \A c : Place(c)' = Place(c)
  BY DEF Place

LEMMA DecryptedKept ==
  ASSUME table' = table, mode' = mode, stale' = stale
  PROVE  \A c, r : Decrypted(c, r)' = Decrypted(c, r)
<1> SUFFICES ASSUME NEW c, NEW r PROVE Decrypted(c, r)' = Decrypted(c, r)
  OBVIOUS
<1>1. \A x : Place(x)' = Place(x)
  BY PlaceKept
<1>2. \A x, y : FMDecrypt(x, y)' = FMDecrypt(x, y)
  BY <1>1 DEF FMDecrypt
<1>3. \A y : DecryptNewline(y)' = DecryptNewline(y)
  BY <1>2 DEF DecryptNewline
<1>4. \A x : strtol(x)' = strtol(x)
  BY DEF strtol
<1>5. col' = col /\ fm' = fm
  BY DEF col, fm
<1>6. \A x, y : PolybiusDecrypt(x, y)' = PolybiusDecrypt(x, y)
  BY <1>4, <1>5 DEF PolybiusDecrypt
<1> QED BY <1>2, <1>3, <1>5, <1>6 DEF Decrypted

LEMMA RunsKept ==
  ASSUME table' = table, mode' = mode, stale' = stale, NEW r, NEW s, NEW q
  PROVE  Runs(r, s, q)' <=> Runs(r, s, q)
<1>1. \A c, x : Decrypted(c, x)' = Decrypted(c, x)
  BY DecryptedKept
<1> QED BY <1>1 DEF Runs

-----------------------------------------------------------------------------
(* Morse codes                                                             *)

LEMMA MorseEntries ==
  /\ Len(morse_table) = 90 /\ DOMAIN morse_table = 1 .. 90
  /\ \A i \in 1 .. 90 : morse_table[i] \in 1 .. 120
<1> DEFINE a == << 107, 82, 1, 1, 1, 1, 94, 54, 109, 1, 1, 115, 97, 85, 1, 63, 47, 39, 35,
       33, 32, 48, 56, 60, 62, 120, 106, 1, 49, 1, 76, 90,
       5, 24, 26, 12, 2, 18, 14, 16, 4, 23, 13, 20, 7, 6, 15, 22, 29, 10, 8, 3,
       9, 17, 11, 25, 27, 28 >>
           b == [i \in 1 .. 32 |-> 1]
           T == 1 .. 120
<1>1. a \in Seq(T) /\ Len(a) = 58
  OBVIOUS
<1>2. b \in Seq(T) /\ Len(b) = 32
  <2>1. b = [i \in 1 .. 32 |-> b[i]] /\ \A i \in 1 .. 32 : b[i] \in T
    OBVIOUS
  <2> HIDE DEF b
  <2> QED BY <2>1, ListIs
<1>3. morse_table = a \o b
  BY DEF morse_table
<1> HIDE DEF a, b, T
<1>4. morse_table \in Seq(T) /\ Len(morse_table) = 90
  <2>1. a \o b \in Seq(T) /\ Len(a \o b) = Len(a) + Len(b)
    <3>1. a \in Seq(T) /\ b \in Seq(T)
      BY <1>1, <1>2
    <3> QED BY <3>1
  <2> QED BY <1>1, <1>2, <1>3, <2>1
<1>5. DOMAIN morse_table = 1 .. Len(morse_table) /\ \A i \in 1 .. Len(morse_table) : morse_table[i] \in T
  <2> DEFINE s == morse_table
  <2>1. s \in Seq(T)
    BY <1>4
  <2> HIDE DEF s
  <2>2. DOMAIN s = 1 .. Len(s) /\ \A i \in 1 .. Len(s) : s[i] \in T
    BY <2>1
  <2> QED BY <2>2 DEF s
<1> QED BY <1>4, <1>5 DEF T

LEMMA CodesAre ==
  ASSUME NEW n \in 0 .. 127
  PROVE  CodesOf(n) = IF n <= 1 THEN <<>> ELSE Append(CodesOf(n \div 2), n % 2)
<1> DEFINE A1(k) == <<>>
           A2(k) == Append(A1(k \div 2), k % 2)
           A3(k) == Append(A2(k \div 2), k % 2)
           A4(k) == Append(A3(k \div 2), k % 2)
           A5(k) == Append(A4(k \div 2), k % 2)
           A6(k) == Append(A5(k \div 2), k % 2)
           A7(k) == Append(A6(k \div 2), k % 2)
           W(k) == IF k <= 1 THEN A1(k) ELSE IF k <= 3 THEN A2(k) ELSE IF k <= 7 THEN A3(k)
                   ELSE IF k <= 15 THEN A4(k) ELSE IF k <= 31 THEN A5(k) ELSE IF k <= 63 THEN A6(k)
                   ELSE A7(k)
           Rec(h) == [k \in 0 .. 127 |-> IF k <= 1 THEN <<>> ELSE Append(h[k \div 2], k % 2)]
           f == [k \in 0 .. 127 |-> W(k)]
           code == CHOOSE h : h = Rec(h)
<1>1. /\ \A k : A1(k) = <<>> /\ A2(k) = Append(A1(k \div 2), k % 2)
      /\ \A k : A3(k) = Append(A2(k \div 2), k % 2) /\ A4(k) = Append(A3(k \div 2), k % 2)
      /\ \A k : A5(k) = Append(A4(k \div 2), k % 2) /\ A6(k) = Append(A5(k \div 2), k % 2)
      /\ \A k : A7(k) = Append(A6(k \div 2), k % 2)
  OBVIOUS
<1>2. CodesOf(n) = code[n] /\ CodesOf(n \div 2) = code[n \div 2]
  BY DEF CodesOf
<1> HIDE DEF A1, A2, A3, A4, A5, A6, A7
<1>3. \A k \in 0 .. 127 : W(k) = IF k <= 1 THEN <<>> ELSE Append(W(k \div 2), k % 2)
  <2> SUFFICES ASSUME NEW k \in 0 .. 127
               PROVE W(k) = IF k <= 1 THEN <<>> ELSE Append(W(k \div 2), k % 2)
    OBVIOUS
  <2>1. CASE k <= 1
    BY <2>1, <1>1
  <2>2. CASE k > 1 /\ k <= 3
    <3>1. k \div 2 <= 1
      BY <2>2
    <3> QED BY <3>1, <2>2, <1>1
  <2>3. CASE k > 3 /\ k <= 7
    <3>1. k \div 2 > 1 /\ k \div 2 <= 3
      BY <2>3
    <3>2. W(k \div 2) = A2(k \div 2)
      BY <3>1
    <3>3. W(k) = A3(k)
      BY <2>3
    <3>4. A3(k) = Append(A2(k \div 2), k % 2)
      BY <1>1
    <3>5. ~ (k <= 1)
      BY <2>3
    <3> HIDE DEF W
    <3> QED BY <3>2, <3>3, <3>4, <3>5
  <2>4. CASE k > 7 /\ k <= 15
    <3>1. k \div 2 > 3 /\ k \div 2 <= 7
      BY <2>4
    <3>2. W(k \div 2) = A3(k \div 2)
      BY <3>1
    <3>3. W(k) = A4(k)
      BY <2>4
    <3>4. A4(k) = Append(A3(k \div 2), k % 2)
      BY <1>1
    <3>5. ~ (k <= 1)
      BY <2>4
    <3> HIDE DEF W
    <3> QED BY <3>2, <3>3, <3>4, <3>5
  <2>5. CASE k > 15 /\ k <= 31
    <3>1. k \div 2 > 7 /\ k \div 2 <= 15
      BY <2>5
    <3>2. W(k \div 2) = A4(k \div 2)
      BY <3>1
    <3>3. W(k) = A5(k)
      BY <2>5
    <3>4. A5(k) = Append(A4(k \div 2), k % 2)
      BY <1>1
    <3>5. ~ (k <= 1)
      BY <2>5
    <3> HIDE DEF W
    <3> QED BY <3>2, <3>3, <3>4, <3>5
  <2>6. CASE k > 31 /\ k <= 63
    <3>1. k \div 2 > 15 /\ k \div 2 <= 31
      BY <2>6
    <3>2. W(k \div 2) = A5(k \div 2)
      BY <3>1
    <3>3. W(k) = A6(k)
      BY <2>6
    <3>4. A6(k) = Append(A5(k \div 2), k % 2)
      BY <1>1
    <3>5. ~ (k <= 1)
      BY <2>6
    <3> HIDE DEF W
    <3> QED BY <3>2, <3>3, <3>4, <3>5
  <2>7. CASE k > 63
    <3>1. k \div 2 > 31 /\ k \div 2 <= 63
      BY <2>7
    <3>2. W(k \div 2) = A6(k \div 2)
      BY <3>1
    <3>3. W(k) = A7(k)
      BY <2>7
    <3>4. A7(k) = Append(A6(k \div 2), k % 2)
      BY <1>1
    <3>5. ~ (k <= 1)
      BY <2>7
    <3> HIDE DEF W
    <3> QED BY <3>2, <3>3, <3>4, <3>5
  <2> QED BY <2>1, <2>2, <2>3, <2>4, <2>5, <2>6, <2>7
<1> HIDE DEF W
<1>4. f = Rec(f)
  <2>1. \A k \in 0 .. 127 : k \div 2 \in 0 .. 127
    OBVIOUS
  <2>2. \A k \in 0 .. 127 : f[k] = IF k <= 1 THEN <<>> ELSE Append(f[k \div 2], k % 2)
    BY <2>1, <1>3
  <2> QED BY <2>2
<1> HIDE DEF f
<1>5. code = Rec(code)
  BY <1>4
<1> HIDE DEF code
<1>6. code[n] = IF n <= 1 THEN <<>> ELSE Append(code[n \div 2], n % 2)
  BY <1>5
<1> QED BY <1>2, <1>6

LEMMA CodesTyped ==
  ASSUME NEW n \in 0 .. 127
  PROVE  CodesOf(n) \in Seq({0, 1}) /\ (n > 1 => CodesOf(n) # <<>>)
<1> DEFINE D == {k \in 0 .. 127 : \A j \in 0 .. k : CodesOf(j) \in Seq({0, 1})}
           N == 127
<1>1. 0 \in D
  <2>1. CodesOf(0) = <<>>
    <3>1. 0 \in 0 .. 127 /\ 0 <= 1
      OBVIOUS
    <3> QED BY <3>1, CodesAre
  <2>2. \A j \in 0 .. 0 : j = 0
    OBVIOUS
  <2>3. CodesOf(0) \in Seq({0, 1})
    BY <2>1, EmptySeq
  <2> QED BY <2>2, <2>3
<1>2. ASSUME NEW k \in 0 .. N, k \in D, k < N PROVE k + 1 \in D
  <2>1. k + 1 \in 0 .. 127 /\ \A j \in 0 .. k + 1 : j \in 0 .. k \/ j = k + 1
    BY <1>2
  <2>2. CodesOf(k + 1) \in Seq({0, 1})
    <3>1. CASE k + 1 <= 1
      <4>1. CodesOf(k + 1) = <<>>
        BY <3>1, <2>1, CodesAre
      <4> QED BY <4>1, EmptySeq
    <3>2. CASE k + 1 > 1
      <4>1. (k + 1) \div 2 \in 0 .. k /\ (k + 1) % 2 \in {0, 1}
        BY <3>2
      <4>2. CodesOf((k + 1) \div 2) \in Seq({0, 1})
        BY <4>1, <1>2
      <4>3. CodesOf(k + 1) = Append(CodesOf((k + 1) \div 2), (k + 1) % 2)
        <5> DEFINE j == k + 1
        <5>1. j \in 0 .. 127 /\ ~ (j <= 1)
          BY <3>2, <2>1
        <5> HIDE DEF j
        <5>2. CodesOf(j) = Append(CodesOf(j \div 2), j % 2)
          BY <5>1, CodesAre
        <5> QED BY <5>2 DEF j
      <4> QED BY <4>1, <4>2, <4>3
    <3> QED BY <3>1, <3>2
  <2> QED BY <2>1, <2>2, <1>2
<1>3. N \in Nat /\ n \in 0 .. N
  OBVIOUS
<1> HIDE DEF D, N
<1>4. 0 .. N \subseteq D
  BY <1>1, <1>2, <1>3, UpTo
<1>5. \A k \in D : CodesOf(k) \in Seq({0, 1})
  BY DEF D
<1>6. CodesOf(n) \in Seq({0, 1})
  BY <1>3, <1>4, <1>5
<1>7. n > 1 => CodesOf(n) # <<>>
  <2> SUFFICES ASSUME n > 1 PROVE CodesOf(n) # <<>>
    OBVIOUS
  <2>1. n \div 2 \in 0 .. 127 /\ n % 2 \in {0, 1}
    OBVIOUS
  <2>2. CodesOf(n \div 2) \in Seq({0, 1})
    <3>1. n \div 2 \in 0 .. N
      BY <2>1 DEF N
    <3> QED BY <3>1, <1>4, <1>5
  <2>3. CodesOf(n) = Append(CodesOf(n \div 2), n % 2)
    <3>1. ~ (n <= 1)
      OBVIOUS
    <3> QED BY <3>1, CodesAre
  <2> QED BY <2>1, <2>2, <2>3
<1> QED BY <1>6, <1>7

-----------------------------------------------------------------------------
(* The Polybius square                                                     *)

LEMMA PlaceIs ==
  ASSUME Keyed, NEW c \in Range(table)
  PROVE  Place(c) + 1 \in 1 .. Len(table) /\ table[Place(c) + 1] = c /\ Place(c) \in Nat
<1>1. table \in Seq(Int) /\ IsInjective(table) /\ DOMAIN table = 1 .. Len(table) /\ Len(table) \in Nat
  BY DEF Keyed
<1>2. PICK i \in 1 .. Len(table) : table[i] = c
  BY <1>1 DEF Range
<1> DEFINE S == {j \in DOMAIN table : table[j] = c}
<1>3. S \subseteq Int /\ i \in S /\ \A j \in S : i <= j
  BY <1>1, <1>2 DEF IsInjective
<1>4. Place(c) = Min(S) - 1
  BY DEF Place
<1>5. Min(S) = i
  <2> HIDE DEF S
  <2> QED BY <1>3, MinIs
<1>6. Place(c) = i - 1 /\ i \in Nat /\ i >= 1
  BY <1>4, <1>5, <1>1
<1> QED BY <1>2, <1>6

LEMMA PlaceOf ==
  ASSUME Keyed, NEW i \in 1 .. Len(table)
  PROVE  Place(table[i]) = i - 1
<1>1. table[i] \in Range(table) /\ DOMAIN table = 1 .. Len(table)
  BY DEF Keyed, Range
<1>2. Place(table[i]) + 1 \in 1 .. Len(table) /\ table[Place(table[i]) + 1] = table[i]
      /\ Place(table[i]) \in Nat
  BY <1>1, PlaceIs
<1>3. Place(table[i]) + 1 = i
  <2>1. \A a, b \in 1 .. Len(table) : table[a] = table[b] => a = b
    <3>1. IsInjective(table)
      BY DEF Keyed
    <3> QED BY <1>1, <3>1 DEF IsInjective
  <2> QED BY <1>2, <2>1
<1> QED BY <1>2, <1>3

\* Two records with the same fields but for what is printed.
Same(r, d) ==
    /\ r.posit = d.posit /\ r.curPosit = d.curPosit /\ r.checkAlreadySpace = d.checkAlreadySpace
    /\ r.anti = d.anti /\ r.xIsDetected = d.xIsDetected /\ r.inputRow = d.inputRow
    /\ r.status = d.status

LEMMA PrintedIs ==
  ASSUME NEW d \in Machines, NEW c \in Int
  PROVE  Printed(d, c) \in Machines /\ Same(Printed(d, c), d) /\ Printed(d, c).out = Append(d.out, c)
<1>1. Printed(d, c) = [d EXCEPT !.out = Append(d.out, c)]
  BY DEF Printed
<1>2. Append(d.out, c) \in Seq(Int)
  BY DEF Machines
<1> DEFINE o == Append(d.out, c)
<1> HIDE DEF o
<1>3. Printed(d, c) = [d EXCEPT !.out = o]
  BY <1>1 DEF o
<1>4. [d EXCEPT !.out = o] \in Machines
  BY <1>2 DEF Machines, o
<1>5. Same([d EXCEPT !.out = o], d) /\ [d EXCEPT !.out = o].out = o
  BY DEF Machines, Same
<1> QED BY <1>3, <1>4, <1>5 DEF o

LEMMA NumbersSet ==
  ASSUME NEW d \in Machines, NEW x \in Int
  PROVE  /\ x \in Nat \union {-1} => [d EXCEPT !.inputRow = x] \in Machines
         /\ [d EXCEPT !.anti = x] \in Machines
         /\ x \in 0 .. 2 => [d EXCEPT !.curPosit = x] \in Machines
<1>1. x \in Nat \union {-1} => [d EXCEPT !.inputRow = x] \in Machines
  BY DEF Machines
<1>2. [d EXCEPT !.anti = x] \in Machines
  BY DEF Machines
<1>3. x \in 0 .. 2 => [d EXCEPT !.curPosit = x] \in Machines
  BY DEF Machines
<1> QED BY <1>1, <1>2, <1>3

LEMMA RowSet ==
  ASSUME NEW d \in Machines
  PROVE  [d EXCEPT !.inputRow = -1] \in Machines
<1>1. -1 \in Int /\ -1 \in Nat \union {-1}
  OBVIOUS
<1> QED BY <1>1, NumbersSet

\* The decoder has printed o, and nothing waits in it.
Idle(d, o) ==
    /\ d \in Machines /\ d.status = "ok" /\ d.anti = 1 /\ d.xIsDetected = FALSE /\ d.inputRow = -1
    /\ d.out = o

LEMMA StaticIdle == Static \in Machines /\ Idle(Static, <<>>)
<1>1. <<3, 3, 3>> \in [1 .. 3 -> 0 .. 3]
  OBVIOUS
<1> DEFINE p == <<3, 3, 3>>
<1>2. Static = [posit |-> p, curPosit |-> 0, checkAlreadySpace |-> FALSE, anti |-> 1,
                xIsDetected |-> FALSE, inputRow |-> -1, status |-> "ok", out |-> <<>>]
  BY DEF Static
<1> HIDE DEF p
<1>3. Static \in Machines
  BY <1>1, <1>2 DEF Machines, p
<1> QED BY <1>2, <1>3 DEF Idle

LEMMA HexRead ==
  ASSUME NEW d \in 0 .. 15, ~ stale
  PROVE  strtol(Hex(d)) = d /\ Hex(d) # Space /\ Hex(d) # Newline /\ Hex(d) \in Int
<1>1. Hex(d) = IF d < 10 THEN 48 + d ELSE 55 + d
  BY DEF Hex
<1>2. HexVal(Hex(d)) = d
  BY <1>1 DEF HexVal
<1>3. Hex(d) \in HexDigits
  BY <1>1 DEF HexDigits
<1> QED BY <1>1, <1>2, <1>3 DEF strtol, Space, Newline

\* The two digits of a character of the table decrypt to it.
LEMMA TwoDigits ==
  ASSUME Keyed, ~ fm, ~ stale, NEW c \in 33 .. 126, NEW o \in Seq(Int), NEW d, Idle(d, o)
  PROVE  LET h1 == Hex(Place(c) \div col)
             h2 == Hex(Place(c) % col)
             d1 == Decrypted(h1, d)
         IN  /\ h1 \in Int /\ h2 \in Int
             /\ d1 \in Machines /\ d1.status = "ok"
             /\ Idle(Decrypted(h2, d1), Append(o, c))
<1> DEFINE p == Place(c)
           a == p \div col
           b == p % col
           h1 == Hex(a)
           h2 == Hex(b)
           d1 == Decrypted(h1, d)
<1>1. p \in Nat /\ p + 1 \in 1 .. 94 /\ table[p + 1] = c
  <2>1. c \in Range(table) /\ Len(table) = 94
    BY SMTT(30), ZenonT(30) DEF Keyed
  <2> QED BY <2>1, PlaceIs
<1>2. col \in 9 .. 15 /\ row \in 9 .. 15
  BY DEF Keyed
<1> HIDE DEF p
<1>3. a \in 0 .. 15 /\ b \in 0 .. 15 /\ a * col + b = p
  <2> DEFINE k == col
  <2>1. k \in 9 .. 15
    BY <1>2
  <2> HIDE DEF k
  <2>2. k = 9 \/ k = 10 \/ k = 11 \/ k = 12 \/ k = 13 \/ k = 14 \/ k = 15
    BY <2>1
  <2>3. p \in Nat /\ p <= 93
    BY <1>1
  <2>4. p \div k \in 0 .. 15 /\ p % k \in 0 .. 15
    <3>1. p \div k \in Nat /\ p \div k <= 10
      BY <2>2, <2>3
    <3>2. p % k \in Nat /\ p % k < 15
      BY <2>2, <2>3
    <3> DEFINE q == p \div k
               z == p % k
    <3> HIDE DEF q, z
    <3>3. q \in 0 .. 15 /\ z \in 0 .. 15
      <4>1. q \in Nat /\ q <= 10 /\ z \in Nat /\ z < 15
        BY <3>1, <3>2 DEF q, z
      <4> QED BY <4>1
    <3> QED BY <3>3 DEF q, z
  <2>5. (p \div k) * k + (p % k) = p
    BY <2>2, <2>3, SMTT(30)
  <2> QED BY <2>4, <2>5 DEF k
<1> HIDE DEF a, b
<1>4. strtol(h1) = a /\ h1 # Space /\ h1 # Newline /\ h1 \in Int
  BY <1>3, HexRead
<1>5. strtol(h2) = b /\ h2 # Space /\ h2 # Newline /\ h2 \in Int
  BY <1>3, HexRead
<1> HIDE DEF h1, h2
<1>6. d \in Machines /\ d.inputRow = -1 /\ d.status = "ok" /\ d.out = o /\ d.anti = 1
      /\ d.xIsDetected = FALSE
  BY DEF Idle
<1>7. d1 = [d EXCEPT !.inputRow = a]
  <2>1. d1 = PolybiusDecrypt(h1, d)
    BY <1>4 DEF Decrypted
  <2>2. ~ (a > 15)
    BY <1>3
  <2> QED BY <2>1, <2>2, <1>4, <1>6 DEF PolybiusDecrypt
<1>8. d1 \in Machines /\ d1.status = "ok" /\ d1.inputRow = a /\ d1.out = o /\ a # -1 /\ d1.anti = 1
      /\ d1.xIsDetected = FALSE
  <2>1. a \in Int /\ a # -1 /\ a \in Nat \union {-1}
    BY <1>3
  <2>2. d1 \in Machines
    BY <2>1, <1>6, <1>7, NumbersSet
  <2> QED BY <2>1, <2>2, <1>6, <1>7 DEF Machines
<1> HIDE DEF d1
<1>9. Decrypted(h2, d1) = [Printed(d1, c) EXCEPT !.inputRow = -1]
  <2>1. Decrypted(h2, d1) = PolybiusDecrypt(h2, d1)
    BY <1>5 DEF Decrypted
  <2>2. a * col + b < 94 /\ a * col + b = p
    BY <1>1, <1>3
  <2>3. PolybiusDecrypt(h2, d1) = [Printed(d1, IF p < 94 THEN table[p + 1] ELSE 0) EXCEPT !.inputRow = -1]
    BY <1>5, <1>8, <2>2 DEF PolybiusDecrypt
  <2> QED BY <2>1, <2>2, <2>3, <1>1
<1>10. Idle(Decrypted(h2, d1), Append(o, c))
  <2>1. Printed(d1, c) \in Machines /\ Same(Printed(d1, c), d1) /\ Printed(d1, c).out = Append(o, c)
    <3>1. c \in Int
      OBVIOUS
    <3> QED BY <3>1, <1>8, PrintedIs
  <2> DEFINE e == Printed(d1, c)
  <2> HIDE DEF e
  <2>2. e \in Machines /\ Same(e, d1) /\ e.out = Append(o, c) /\ Decrypted(h2, d1) = [e EXCEPT !.inputRow = -1]
    BY <2>1, <1>9 DEF e
  <2>3. [e EXCEPT !.inputRow = -1] \in Machines
    BY <2>2, RowSet
  <2> QED BY <2>2, <2>3, <1>8 DEF Idle, Same, Machines
<1> QED BY <1>4, <1>5, <1>8, <1>10 DEF h1, h2, a, b, p, d1

LEMMA IdleSpace ==
  ASSUME ~ fm, NEW o, NEW d, Idle(d, o)
  PROVE  Idle(Decrypted(Space, d), Append(o, Space))
<1>1. Decrypted(Space, d) = PolybiusDecrypt(Space, d)
  BY DEF Decrypted, Space, Newline
<1>2. Decrypted(Space, d) = Printed(d, Space)
  BY <1>1 DEF PolybiusDecrypt
<1>3. Printed(d, Space) \in Machines /\ Same(Printed(d, Space), d)
      /\ Printed(d, Space).out = Append(d.out, Space)
  <2>1. d \in Machines /\ Space \in Int
    BY DEF Idle, Space
  <2> QED BY <2>1, PrintedIs
<1> QED BY <1>2, <1>3 DEF Idle, Same

LEMMA NewlineDone ==
  ASSUME NEW f \in Machines, f.status = "ok",
         NEW d, d = [Printed(f, Newline) EXCEPT !.anti = 1, !.xIsDetected = FALSE, !.inputRow = -1]
  PROVE  Idle(d, Append(f.out, Newline))
<1> DEFINE e == Printed(f, Newline)
<1>1. e \in Machines /\ e.status = "ok" /\ e.out = Append(f.out, Newline)
  BY PrintedIs DEF Same, Newline
<1> HIDE DEF e
<1>2. d = [e EXCEPT !.anti = 1, !.xIsDetected = FALSE, !.inputRow = -1]
  BY DEF e
<1>3. d \in Machines
  <2> DEFINE e1 == [e EXCEPT !.anti = 1]
             e2 == [e1 EXCEPT !.xIsDetected = FALSE]
  <2>1. e1 \in Machines
    <3>1. 1 \in Int
      OBVIOUS
    <3> QED BY <3>1, <1>1, NumbersSet
  <2> HIDE DEF e1
  <2>2. e2 \in Machines
    BY <2>1 DEF Machines
  <2> HIDE DEF e2
  <2>3. [e2 EXCEPT !.inputRow = -1] \in Machines
    BY <2>2, RowSet
  <2> QED BY <2>3, <1>2 DEF e1, e2
<1>4. d.status = "ok" /\ d.anti = 1 /\ d.xIsDetected = FALSE /\ d.inputRow = -1 /\ d.out = e.out
  BY <1>1, <1>2 DEF Machines
<1> QED BY <1>1, <1>3, <1>4 DEF Idle

LEMMA IdleNewline ==
  ASSUME NEW o, NEW d, Idle(d, o)
  PROVE  Idle(Decrypted(Newline, d), Append(o, Newline))
<1>1. Decrypted(Newline, d) = DecryptNewline(d)
  BY DEF Decrypted
<1>2. d.anti = 1 /\ d \in Machines /\ d.status = "ok" /\ d.out = o /\ ~ (1 > 1)
  BY DEF Idle
<1>3. DecryptNewline(d) = [Printed(d, Newline) EXCEPT !.anti = 1, !.xIsDetected = FALSE, !.inputRow = -1]
  BY <1>2 DEF DecryptNewline
<1> QED BY <1>1, <1>2, <1>3, NewlineDone

-----------------------------------------------------------------------------
(* What the square keeps                                                   *)

InSquare == (33 .. 126) \union {Space, Newline}

LEMMA KeptIs ==
  ASSUME NEW s \in Seq(Int), NEW c \in Int
  PROVE  /\ Kept(<<>>) = <<>> /\ Kept(s) \in Seq(Int)
         /\ c \in InSquare => Kept(Append(s, c)) = Append(Kept(s), c)
         /\ c \notin InSquare => Kept(Append(s, c)) = Kept(s)
<1> DEFINE P(x) == IF x \in InSquare THEN <<x>> ELSE <<>>
           ss(u) == [i \in DOMAIN u |-> P(u[i])]
           t == Append(s, c)
<1>0. Range(polybius_alphabet) = 33 .. 126
  <2>1. AlphabetOf("p") = polybius_alphabet
    BY DEF AlphabetOf
  <2> QED BY <2>1, Alphabets
<1>1. \A u : Kept(u) = FlattenSeq(ss(u))
  BY <1>0 DEF Kept, InSquare
<1>2. t \in Seq(Int) /\ Len(t) = Len(s) + 1 /\ (\A i \in 1 .. Len(s) : t[i] = s[i]) /\ t[Len(s) + 1] = c
  BY AppendIs
<1> HIDE DEF t
<1>3. \A x \in Int : P(x) \in Seq(Int)
  OBVIOUS
<1>11. ASSUME NEW u \in Seq(Int)
       PROVE  ss(u) \in Seq(Seq(Int)) /\ Len(ss(u)) = Len(u) /\ \A i \in 1 .. Len(u) : ss(u)[i] = P(u[i])
  <2> HIDE DEF P
  <2>1. DOMAIN u = 1 .. Len(u) /\ Len(u) \in Nat /\ \A i \in 1 .. Len(u) : u[i] \in Int
    OBVIOUS
  <2> DEFINE f == ss(u)
  <2>2. f = [i \in 1 .. Len(u) |-> f[i]] /\ \A i \in 1 .. Len(u) : f[i] = P(u[i])
    BY <2>1
  <2> HIDE DEF f
  <2>3. f \in Seq(Seq(Int)) /\ Len(f) = Len(u)
    BY <2>1, <2>2, <1>3, ListIs
  <2> QED BY <2>2, <2>3 DEF f
<1>4. ss(s) \in Seq(Seq(Int)) /\ Len(ss(s)) = Len(s) /\ \A i \in 1 .. Len(s) : ss(s)[i] = P(s[i])
  BY <1>11
<1>5. ss(t) \in Seq(Seq(Int)) /\ Len(ss(t)) = Len(t) /\ \A i \in 1 .. Len(t) : ss(t)[i] = P(t[i])
  BY <1>11, <1>2
<1> HIDE DEF P
<1>6. ss(t) = Append(ss(s), P(c))
  <2>1. Len(s) + 1 \in 1 .. Len(t) /\ \A i \in 1 .. Len(s) : i \in 1 .. Len(t)
    BY <1>2
  <2>2. ss(t)[Len(s) + 1] = P(c) /\ \A i \in 1 .. Len(s) : ss(t)[i] = ss(s)[i]
    BY <1>2, <1>4, <1>5, <2>1
  <2> DEFINE a == ss(s)
             b == ss(t)
  <2>3. a \in Seq(Seq(Int)) /\ b \in Seq(Seq(Int)) /\ Len(b) = Len(a) + 1 /\ Len(a) = Len(s)
        /\ (\A i \in 1 .. Len(a) : b[i] = a[i]) /\ b[Len(s) + 1] = P(c)
    BY <1>2, <1>4, <1>5, <2>2
  <2> HIDE DEF a, b
  <2>4. b = Append(a, b[Len(a) + 1])
    BY <2>3, OneMore
  <2>5. b = Append(a, P(c))
    BY <2>3, <2>4
  <2> QED BY <2>5 DEF a, b
<1>7. Kept(t) = Kept(s) \o P(c) /\ Kept(s) \in Seq(Int)
  <2>1. P(c) \in Seq(Int)
    BY <1>3
  <2> HIDE DEF ss
  <2>2. FlattenSeq(Append(ss(s), P(c))) = FlattenSeq(ss(s)) \o P(c)
    BY <1>4, <2>1, FlattenAppend
  <2>3. FlattenSeq(ss(s)) \in Seq(Int)
    BY <1>4, FlattenTyped
  <2> QED BY <1>1, <1>6, <2>2, <2>3
<1>8. Kept(<<>>) = <<>>
  <2>1. ss(<<>>) = <<>>
    OBVIOUS
  <2> HIDE DEF ss
  <2> QED BY <1>1, <2>1, FlattenNone
<1>9. c \in InSquare => Kept(t) = Append(Kept(s), c)
  <2> SUFFICES ASSUME c \in InSquare PROVE Kept(t) = Append(Kept(s), c)
    OBVIOUS
  <2>1. P(c) = <<c>>
    BY DEF P
  <2>2. Append(Kept(s), c) = Kept(s) \o <<c>>
    BY <1>7, AppendIs
  <2> QED BY <2>1, <2>2, <1>7
<1>10. c \notin InSquare => Kept(t) = Kept(s)
  <2> SUFFICES ASSUME c \notin InSquare PROVE Kept(t) = Kept(s)
    OBVIOUS
  <2>1. P(c) = <<>>
    BY DEF P
  <2> QED BY <2>1, <1>7
<1> QED BY <1>7, <1>8, <1>9, <1>10 DEF t

\* While the square encrypts, what it printed decrypts to what it keeps of the
\* text; what is left to decode does as well.
Readable(o, k) == o \in Seq(Int) /\ k \in Seq(Int) /\ \E d : Runs(Static, o, d) /\ Idle(d, k)
Resumes(r, s, k) == s \in Seq(Int) /\ \E d : Runs(r, s, d) /\ Idle(d, k)

Square ==
    ~ fm =>
      /\ stage = "encrypt" => \E o, k : o = m.out /\ k = Kept(text) /\ Readable(o, k)
      /\ ~ stale =>
           /\ stage = "decode" => \E r, s, k : r = m /\ s = pipe /\ k = Kept(text) /\ Resumes(r, s, k)
           /\ stage # "undecoded"
           /\ stage = "decoded" => m.out = Kept(text)

LEMMA ReadableKept ==
  ASSUME table' = table, mode' = mode, stale' = stale, NEW o, NEW k
  PROVE  Readable(o, k)' <=> Readable(o, k)
<1>1. \A d : Runs(Static, o, d)' <=> Runs(Static, o, d)
  <2> SUFFICES ASSUME NEW d PROVE Runs(Static, o, d)' <=> Runs(Static, o, d)
    OBVIOUS
  <2> QED BY RunsKept
<1> QED BY <1>1 DEF Readable

LEMMA ResumesKept ==
  ASSUME table' = table, mode' = mode, stale' = stale, NEW r, NEW s, NEW k
  PROVE  Resumes(r, s, k)' <=> Resumes(r, s, k)
<1>1. \A d : Runs(r, s, d)' <=> Runs(r, s, d)
  <2> SUFFICES ASSUME NEW d PROVE Runs(r, s, d)' <=> Runs(r, s, d)
    OBVIOUS
  <2> QED BY RunsKept
<1> QED BY <1>1 DEF Resumes

LEMMA ReadableNone == Readable(<<>>, <<>>)
<1>1. Runs(Static, <<>>, Static)
  BY StaticIdle, RunsNone
<1>2. <<>> \in Seq(Int)
  OBVIOUS
<1> QED BY <1>1, <1>2, StaticIdle DEF Readable

\* One character is decrypted by one that is printed.
LEMMA ReadableOne ==
  ASSUME NEW o, NEW k, Readable(o, k), ~ fm, NEW c \in {Space, Newline}
  PROVE  Readable(Append(o, c), Append(k, c))
<1>1. PICK d : Runs(Static, o, d) /\ Idle(d, k)
  BY DEF Readable
<1>2. Idle(Decrypted(c, d), Append(k, c)) /\ c \in Int
  BY <1>1, IdleSpace, IdleNewline DEF Space, Newline
<1>3. o \in Seq(Int) /\ k \in Seq(Int)
  BY DEF Readable
<1>4. Runs(Static, Append(o, c), Decrypted(c, d))
  BY <1>1, <1>2, <1>3, RunsAppend DEF Idle
<1>5. Append(o, c) \in Seq(Int) /\ Append(k, c) \in Seq(Int)
  BY <1>2, <1>3
<1> QED BY <1>2, <1>4, <1>5 DEF Readable

\* And one by its two digits.
LEMMA ReadableTwo ==
  ASSUME NEW o, NEW k, Readable(o, k), Keyed, ~ fm, ~ stale, NEW c \in 33 .. 126
  PROVE  Readable(Append(Append(o, Hex(Place(c) \div col)), Hex(Place(c) % col)), Append(k, c))
<1> DEFINE h1 == Hex(Place(c) \div col)
           h2 == Hex(Place(c) % col)
           o1 == Append(o, h1)
           o2 == Append(o1, h2)
<1>1. PICK d : Runs(Static, o, d) /\ Idle(d, k)
  BY DEF Readable
<1>2. o \in Seq(Int) /\ k \in Seq(Int) /\ c \in Int
  BY DEF Readable
<1> DEFINE d1 == Decrypted(h1, d)
           d2 == Decrypted(h2, d1)
<1>3. h1 \in Int /\ h2 \in Int /\ d1 \in Machines /\ d1.status = "ok" /\ Idle(d2, Append(k, c))
  BY <1>1, <1>2, TwoDigits
<1>4. d1 = Decrypted(h1, d) /\ d2 = Decrypted(h2, d1) /\ o1 = Append(o, h1) /\ o2 = Append(o1, h2)
  OBVIOUS
<1> HIDE DEF h1, h2, d1, d2, o1, o2
<1>5. Runs(Static, o1, d1) /\ o1 \in Seq(Int)
  BY <1>1, <1>2, <1>3, <1>4, RunsAppend
<1>6. d2 \in Machines /\ d2.status = "ok"
  BY <1>3 DEF Idle
<1>7. Runs(Static, o2, d2) /\ o2 \in Seq(Int)
  <2>1. o2 \in Seq(Int)
    BY <1>3, <1>4, <1>5
  <2> QED BY <2>1, <1>3, <1>4, <1>5, <1>6, RunsAppend
<1>8. Append(k, c) \in Seq(Int)
  BY <1>2
<1>9. Readable(o2, Append(k, c))
  BY <1>3, <1>7, <1>8 DEF Readable
<1> QED BY <1>9 DEF o2, o1, h1, h2

\* The end of a line, when the codes that are left have been flushed.
LEMMA LineEnds ==
  ASSUME NEW f \in Machines,
         NEW r, r = [Printed(f, Newline) EXCEPT !.posit = <<3, 3, 3>>, !.curPosit = 0,
                                                !.checkAlreadySpace = FALSE]
  PROVE  /\ r \in Machines /\ r.status = f.status /\ r.out = Append(f.out, Newline)
         /\ r.posit = <<3, 3, 3>> /\ r.curPosit = 0 /\ r.checkAlreadySpace = FALSE
<1> DEFINE e == Printed(f, Newline)
           p == <<3, 3, 3>>
           z == 0
<1>1. e \in Machines /\ e.status = f.status /\ e.out = Append(f.out, Newline)
  BY PrintedIs DEF Same, Newline
<1>2. p \in [1 .. 3 -> 0 .. 3] /\ z \in Int /\ z \in 0 .. 2
  OBVIOUS
<1> HIDE DEF e, p, z
<1>3. r = [e EXCEPT !.posit = p, !.curPosit = z, !.checkAlreadySpace = FALSE]
  BY DEF e, p, z
<1> DEFINE e1 == [e EXCEPT !.posit = p]
           e2 == [e1 EXCEPT !.curPosit = z]
<1>4. e1 \in Machines
  BY <1>1, <1>2 DEF Machines
<1>5. r = [e2 EXCEPT !.checkAlreadySpace = FALSE]
  BY <1>3
<1> HIDE DEF e1
<1>6. e2 \in Machines
  BY <1>2, <1>4, NumbersSet
<1> HIDE DEF e2
<1>7. r \in Machines
  BY <1>5, <1>6 DEF Machines
<1>8. r.status = e.status /\ r.out = e.out /\ r.posit = p /\ r.curPosit = z /\ r.checkAlreadySpace = FALSE
  BY <1>1, <1>3 DEF Machines
<1> QED BY <1>1, <1>7, <1>8 DEF p, z

-----------------------------------------------------------------------------
(* Codes given to the three slots                                          *)

Index(x) == IF x = 3 THEN 2 ELSE x
Triple(p) == Index(p[1]) * 9 + Index(p[2]) * 3 + Index(p[3])

Stored(r, code, q) ==
    /\ q \in Machines /\ q.status = r.status /\ q.checkAlreadySpace = r.checkAlreadySpace
    /\ q.posit = [r.posit EXCEPT ![r.curPosit + 1] = code]
    /\ q.curPosit = (r.curPosit + 1) % 3

Gives(r, code, q) ==
    /\ Stored(r, code, q)
    /\ q.out = IF r.curPosit = 2 /\ Triple(q.posit) < 26
               THEN Append(r.out, table[Triple(q.posit) + 1]) ELSE r.out

LEMMA TripleIs ==
  ASSUME NEW p \in [1 .. 3 -> 0 .. 3]
  PROVE  Triple(p) \in 0 .. 26
<1>1. p[1] \in 0 .. 3 /\ p[2] \in 0 .. 3 /\ p[3] \in 0 .. 3
  OBVIOUS
<1> DEFINE a == Index(p[1])
           b == Index(p[2])
           c == Index(p[3])
<1>2. a \in 0 .. 2 /\ b \in 0 .. 2 /\ c \in 0 .. 2
  BY <1>1 DEF Index
<1>3. Triple(p) = a * 9 + b * 3 + c
  BY DEF Triple
<1> HIDE DEF a, b, c
<1> QED BY <1>2, <1>3

LEMMA StoredIs ==
  ASSUME NEW r \in Machines, NEW code \in 0 .. 2
  PROVE  /\ Stored(r, code, giveCodeToPosit(r, code))
         /\ giveCodeToPosit(r, code).out = r.out
<1> DEFINE p == [r.posit EXCEPT ![r.curPosit + 1] = code]
           k == (r.curPosit + 1) % 3
           q == giveCodeToPosit(r, code)
<1>1. q = [r EXCEPT !.posit = p, !.curPosit = k]
  BY DEF giveCodeToPosit
<1>2. r.posit \in [1 .. 3 -> 0 .. 3] /\ r.curPosit \in 0 .. 2
  BY DEF Machines
<1>3. p \in [1 .. 3 -> 0 .. 3] /\ k \in 0 .. 2
  BY <1>2
<1> HIDE DEF p, k, q
<1> DEFINE e == [r EXCEPT !.posit = p]
<1>4. e \in Machines
  BY <1>3 DEF Machines
<1>5. q = [e EXCEPT !.curPosit = k]
  BY <1>1
<1> HIDE DEF e
<1>6. q \in Machines
  <2>1. k \in Int
    BY <1>3
  <2> QED BY <2>1, <1>3, <1>4, <1>5, NumbersSet
<1>7. q.status = r.status /\ q.checkAlreadySpace = r.checkAlreadySpace /\ q.posit = p
      /\ q.curPosit = k /\ q.out = r.out
  BY <1>1 DEF Machines
<1> QED BY <1>6, <1>7 DEF Stored, p, k, q

LEMMA GiveIs ==
  ASSUME Keyed, fm, NEW r \in Machines, NEW code \in 0 .. 2
  PROVE  Gives(r, code, Give(r, code))
<1> DEFINE q == giveCodeToPosit(r, code)
           t == Triple(q.posit)
<1>1. Stored(r, code, q) /\ q.out = r.out
  BY StoredIs
<1>2. Give(r, code) = IF q.curPosit = 0 THEN doMorseEncryptAndPrint(q) ELSE q
  BY DEF Give
<1>3. doMorseEncryptAndPrint(q) = IF t < 26 THEN Printed(q, table[t + 1]) ELSE q
  BY DEF doMorseEncryptAndPrint, Triple, Index
<1> HIDE DEF q
<1>4. q \in Machines /\ q.posit \in [1 .. 3 -> 0 .. 3] /\ r.curPosit \in 0 .. 2
      /\ q.curPosit = (r.curPosit + 1) % 3
  BY <1>1 DEF Stored, Machines
<1>5. q.curPosit = 0 <=> r.curPosit = 2
  BY <1>4
<1>6. t \in 0 .. 26 /\ (t < 26 => table[t + 1] \in Int)
  <2>1. t \in 0 .. 26
    BY <1>4, TripleIs
  <2> HIDE DEF t
  <2>2. t < 26 => t + 1 \in 1 .. Len(table)
    <3>1. Len(table) = 26
      BY DEF Keyed
    <3> QED BY <2>1, <3>1
  <2> QED BY <2>1, <2>2 DEF Keyed
<1>7. CASE r.curPosit = 2 /\ t < 26
  <2>1. Give(r, code) = Printed(q, table[t + 1])
    BY <1>2, <1>3, <1>5, <1>7
  <2>2. Printed(q, table[t + 1]) \in Machines /\ Same(Printed(q, table[t + 1]), q)
        /\ Printed(q, table[t + 1]).out = Append(q.out, table[t + 1])
    BY <1>4, <1>6, <1>7, PrintedIs
  <2>3. Stored(r, code, Give(r, code)) /\ Give(r, code).posit = q.posit
    BY <1>1, <2>1, <2>2 DEF Stored, Same
  <2> QED BY <1>1, <1>7, <2>1, <2>2, <2>3 DEF Gives
<1>8. CASE ~ (r.curPosit = 2 /\ t < 26)
  <2>1. Give(r, code) = q
    BY <1>2, <1>3, <1>5, <1>8
  <2> QED BY <1>1, <1>8, <2>1 DEF Gives
<1> QED BY <1>7, <1>8

\* Given one after the other.
LEMMA GiveAllIs ==
  ASSUME Keyed, fm, NEW r \in Machines, NEW codes \in Seq({0, 1})
  PROVE  \E give \in [0 .. Len(codes) -> Machines] :
           /\ give[0] = r /\ GiveAll(r, codes) = give[Len(codes)]
           /\ \A n \in 1 .. Len(codes) : Gives(give[n - 1], codes[n], give[n])
<1> DEFINE N == Len(codes)
           S == Machines
           Rec(f) == [i \in 0 .. N |-> IF i = 0 THEN r ELSE Give(f[i - 1], codes[i])]
           g == [n \in 1 .. N |-> [q \in S |-> Give(q, codes[n])]]
           give == CHOOSE f : f = Rec(f)
<1>1. N \in Nat /\ r \in S /\ \A n \in 1 .. N : codes[n] \in 0 .. 2
  OBVIOUS
<1>2. \A n \in 1 .. N, q \in S : Give(q, codes[n]) \in S /\ Gives(q, codes[n], Give(q, codes[n]))
  BY <1>1, GiveIs, ZenonT(30) DEF Gives, Stored
<1>3. GiveAll(r, codes) = give[N]
  BY DEF GiveAll
<1> HIDE DEF N, S
<1>4. g \in [1 .. N -> [S -> S]]
  BY <1>2
<1>5. \E f : f = Rec(f)
  <2> HIDE DEF g
  <2> OfSteps(g, N, S)
    BY <1>4 DEF OfSteps
  <2> PICK f : Taken(f, N, S, r, g)
    BY <1>1, StepByStep
  <2>1. f \in [0 .. N -> S] /\ f[0] = r /\ \A n \in 1 .. N : f[n] = g[n][f[n - 1]]
    BY DEF Taken
  <2>2. \A n \in 1 .. N : f[n - 1] \in S
    BY <2>1, <1>1
  <2>3. \A n \in 1 .. N : f[n] = Give(f[n - 1], codes[n])
    BY <2>1, <2>2 DEF g
  <2>4. \A i \in 0 .. N : i = 0 \/ i \in 1 .. N
    BY <1>1
  <2>5. \A i \in 0 .. N : f[i] = IF i = 0 THEN r ELSE Give(f[i - 1], codes[i])
    BY <2>1, <2>3, <2>4
  <2>6. f = Rec(f)
    BY <2>1, <2>5
  <2> QED BY <2>6
<1>6. give = Rec(give)
  BY <1>5
<1> HIDE DEF give
<1>7. give[0] = r
  BY <1>6, <1>1
<1>8. \A n \in 1 .. N : give[n] = Give(give[n - 1], codes[n])
  <2>1. \A n \in 1 .. N : n \in 0 .. N /\ n # 0
    BY <1>1
  <2> QED BY <2>1, <1>6
<1> DEFINE D == {n \in 0 .. N : give[n] \in S}
<1>9. 0 \in D
  BY <1>7, <1>1
<1>10. ASSUME NEW n \in 0 .. N, n \in D, n < N PROVE n + 1 \in D
  <2>1. n + 1 \in 1 .. N /\ n + 1 \in 0 .. N /\ (n + 1) - 1 = n
    BY <1>10, <1>1
  <2>2. give[n + 1] \in S
    BY <2>1, <1>2, <1>8, <1>10
  <2> QED BY <2>1, <2>2
<1> HIDE DEF D
<1>11. 0 .. N \subseteq D
  BY <1>1, <1>9, <1>10, UpTo
<1>12. give \in [0 .. N -> S]
  <2>1. give = [n \in 0 .. N |-> give[n]]
    BY <1>6
  <2> QED BY <2>1, <1>11 DEF D
<1>13. \A n \in 1 .. N : Gives(give[n - 1], codes[n], give[n])
  <2>1. \A n \in 1 .. N : give[n - 1] \in S
    BY <1>12, <1>1
  <2> QED BY <2>1, <1>2, <1>8
<1> QED BY <1>3, <1>7, <1>12, <1>13 DEF N, S

LEMMA EntryRange ==
  ASSUME NEW c
  PROVE  translateCode(c) \subseteq 0 .. 120
<1>1. \A d \in 33 .. 122 : morse_table[d - 32] \in 1 .. 120
  <2>1. \A d \in 33 .. 122 : d - 32 \in 1 .. 90
    OBVIOUS
  <2> QED BY <2>1, MorseEntries, SMTT(20), ZenonT(20)
<1>2. 1 .. 120 \subseteq 0 .. 120 /\ {0, 8, 9} \subseteq 0 .. 120
  OBVIOUS
<1>3. CASE c \in 33 .. 122
  BY <1>1, <1>2, <1>3, SMTT(20), ZenonT(20) DEF translateCode
<1>4. CASE c \notin 33 .. 122 /\ c \in 123 .. 126
  BY <1>2, <1>4 DEF translateCode
<1>5. CASE c \notin 33 .. 122 /\ c \notin 123 .. 126
  <2>1. translateCode(c) = {0} \union {morse_table[d - 32] : d \in Chars \intersect (33 .. 122)}
    BY <1>5 DEF translateCode
  <2> QED BY <2>1, <1>1, <1>2, SMTT(20), ZenonT(20)
<1> QED BY <1>3, <1>4, <1>5

LEMMA Unspaced ==
  ASSUME NEW r \in Machines, NEW b \in BOOLEAN
  PROVE  /\ [r EXCEPT !.checkAlreadySpace = b] \in Machines
         /\ [r EXCEPT !.checkAlreadySpace = b].checkAlreadySpace = b
         /\ [r EXCEPT !.checkAlreadySpace = b].status = r.status
         /\ [r EXCEPT !.checkAlreadySpace = b].posit = r.posit
         /\ [r EXCEPT !.checkAlreadySpace = b].curPosit = r.curPosit
         /\ [r EXCEPT !.checkAlreadySpace = b].out = r.out
<1>1. [r EXCEPT !.checkAlreadySpace = b] \in Machines
  BY DEF Machines
<1> QED BY <1>1 DEF Machines

\* A letter: the codes of its entry, then an x; or an entry without codes.
Lettered(r, entry, q) ==
    \E a, g : /\ a \in Machines /\ a.status = r.status /\ a.checkAlreadySpace = FALSE
              /\ a.posit = r.posit /\ a.curPosit = r.curPosit /\ a.out = r.out
              /\ g \in [0 .. Len(CodesOf(entry)) -> Machines] /\ g[0] = a
              /\ \A n \in 1 .. Len(CodesOf(entry)) : Gives(g[n - 1], CodesOf(entry)[n], g[n])
              /\ Gives(g[Len(CodesOf(entry))], 2, q)

LEMMA LetterIs ==
  ASSUME Keyed, fm, NEW r \in Machines, r.status = "ok", NEW entry \in 0 .. 120
  PROVE  /\ EncryptLetter(r, entry) \in Machines
         /\ entry <= 1 => EncryptLetter(r, entry).status # "ok"
         /\ entry > 1 => Lettered(r, entry, EncryptLetter(r, entry))
<1>1. CASE entry = 0
  <2>1. EncryptLetter(r, entry) = [r EXCEPT !.status = "crashed"]
    BY <1>1 DEF EncryptLetter
  <2>2. [r EXCEPT !.status = "crashed"] \in Machines /\ [r EXCEPT !.status = "crashed"].status = "crashed"
    BY DEF Machines
  <2>3. EncryptLetter(r, entry) \in Machines /\ EncryptLetter(r, entry).status # "ok"
    BY <2>1, <2>2
  <2>4. ~ (entry > 1)
    BY <1>1
  <2> QED BY <2>3, <2>4
<1> DEFINE a == [r EXCEPT !.checkAlreadySpace = FALSE]
<1>2. a \in Machines /\ a.status = r.status /\ a.checkAlreadySpace = FALSE
      /\ a.posit = r.posit /\ a.curPosit = r.curPosit /\ a.out = r.out
  BY Unspaced
<1>3. CASE entry = 1
  <2>1. EncryptLetter(r, entry) = Failed(a)
    BY <1>3 DEF EncryptLetter
  <2> HIDE DEF a
  <2>2. [a EXCEPT !.status = "failed"] \in Machines /\ [a EXCEPT !.status = "failed"].status = "failed"
    BY <1>2 DEF Machines
  <2>3. EncryptLetter(r, entry) \in Machines /\ EncryptLetter(r, entry).status # "ok"
    BY <2>1, <2>2 DEF Failed
  <2>4. ~ (entry > 1)
    BY <1>3
  <2> QED BY <2>3, <2>4
<1>4. CASE entry > 1
  <2> DEFINE codes == CodesOf(entry)
  <2>1. codes \in Seq({0, 1})
    <3>1. entry \in 0 .. 127
      OBVIOUS
    <3> QED BY <3>1, CodesTyped
  <2>2. EncryptLetter(r, entry) = Give(GiveAll(a, codes), 2)
    BY <1>4 DEF EncryptLetter
  <2> HIDE DEF a, codes
  <2>3. PICK g \in [0 .. Len(codes) -> Machines] :
           /\ g[0] = a /\ GiveAll(a, codes) = g[Len(codes)]
           /\ \A n \in 1 .. Len(codes) : Gives(g[n - 1], codes[n], g[n])
    BY <1>2, <2>1, GiveAllIs
  <2>4. g[Len(codes)] \in Machines
    <3>1. Len(codes) \in 0 .. Len(codes)
      BY <2>1
    <3> QED BY <2>3, <3>1
  <2>5. Gives(g[Len(codes)], 2, Give(g[Len(codes)], 2))
    <3>1. 2 \in 0 .. 2
      OBVIOUS
    <3> QED BY <2>4, <3>1, GiveIs
  <2>6. Lettered(r, entry, EncryptLetter(r, entry))
    BY <1>2, <2>2, <2>3, <2>5 DEF Lettered, codes
  <2>7. EncryptLetter(r, entry) \in Machines
    BY <2>2, <2>3, <2>5 DEF Gives, Stored
  <2> QED BY <1>4, <2>6, <2>7
<1> QED BY <1>1, <1>3, <1>4

\* A space: an x more when it begins a line, then an x unless another came before.
Spaced(r, q) ==
    \E a, b :
      /\ a \in Machines /\ a.checkAlreadySpace = r.checkAlreadySpace /\ a.status = r.status /\ a.out = r.out
      /\ IF isSpaceAhead(r) THEN Stored(r, 2, a) ELSE a = r
      /\ IF r.checkAlreadySpace THEN q = a
         ELSE /\ Gives(a, 2, b)
              /\ q \in Machines /\ q.status = b.status /\ q.posit = b.posit /\ q.curPosit = b.curPosit
              /\ q.out = b.out /\ q.checkAlreadySpace = TRUE

LEMMA SpaceIs ==
  ASSUME Keyed, fm, NEW r \in Machines
  PROVE  EncryptSpace(r) \in Machines /\ Spaced(r, EncryptSpace(r)) /\ EncryptSpace(r).status = r.status
<1> DEFINE a == IF isSpaceAhead(r) THEN giveCodeToPosit(r, 2) ELSE r
           b == Give(a, 2)
           q == EncryptSpace(r)
<1>0. 2 \in 0 .. 2
  OBVIOUS
<1>1. Stored(r, 2, giveCodeToPosit(r, 2)) /\ giveCodeToPosit(r, 2).out = r.out
  BY <1>0, StoredIs
<1>2. /\ a \in Machines /\ a.checkAlreadySpace = r.checkAlreadySpace /\ a.status = r.status /\ a.out = r.out
      /\ IF isSpaceAhead(r) THEN Stored(r, 2, a) ELSE a = r
  BY <1>1 DEF Stored
<1>3. q = IF r.checkAlreadySpace THEN a ELSE [b EXCEPT !.checkAlreadySpace = TRUE]
  BY DEF EncryptSpace
<1>4. Gives(a, 2, b)
  <2> HIDE DEF a
  <2> QED BY <1>0, <1>2, GiveIs
<1> HIDE DEF a, b, q
<1>5. b \in Machines /\ b.status = a.status
  BY <1>4 DEF Gives, Stored
<1>6. CASE r.checkAlreadySpace
  <2>1. q = a
    BY <1>3, <1>6
  <2> QED BY <2>1, <1>2, <1>6 DEF Spaced, q
<1>7. CASE ~ r.checkAlreadySpace
  <2>1. q = [b EXCEPT !.checkAlreadySpace = TRUE]
    BY <1>3, <1>7
  <2>2. q \in Machines /\ q.status = b.status /\ q.posit = b.posit /\ q.curPosit = b.curPosit
        /\ q.out = b.out /\ q.checkAlreadySpace = TRUE
    BY <2>1, <1>5, Unspaced
  <2>3. Spaced(r, q)
    BY <1>2, <1>4, <1>7, <2>2 DEF Spaced
  <2> QED BY <2>2, <2>3, <1>2, <1>5 DEF q
<1> QED BY <1>6, <1>7

\* The end of a line: a space when the x of a letter is the second code left.
LEMMA EncryptNewlineIs ==
  ASSUME Keyed, NEW r \in Machines, NEW q, q = EncryptNewline(r), ~ fm => r.curPosit = 0
  PROVE  /\ q \in Machines /\ q.status = r.status
         /\ q.posit = <<3, 3, 3>> /\ q.curPosit = 0 /\ q.checkAlreadySpace = FALSE
         /\ ~ (r.curPosit = 2 /\ r.posit[2] = 2) => q.out = Append(r.out, Newline)
         /\ r.curPosit = 2 /\ r.posit[2] = 2 => q.out = Append(EncryptSpace(r).out, Newline)
<1> DEFINE f == IF r.curPosit = 2 /\ r.posit[2] = 2 THEN EncryptSpace(r) ELSE r
<1>1. q = [Printed(f, Newline) EXCEPT !.posit = <<3, 3, 3>>, !.curPosit = 0, !.checkAlreadySpace = FALSE]
  BY DEF EncryptNewline
<1>2. f \in Machines /\ f.status = r.status
  <2>1. CASE r.curPosit = 2 /\ r.posit[2] = 2
    <3>1. fm
      BY <2>1
    <3> QED BY <2>1, <3>1, SpaceIs
  <2>2. CASE ~ (r.curPosit = 2 /\ r.posit[2] = 2)
    BY <2>2
  <2> QED BY <2>1, <2>2
<1>3. q \in Machines /\ q.status = f.status /\ q.out = Append(f.out, Newline)
      /\ q.posit = <<3, 3, 3>> /\ q.curPosit = 0 /\ q.checkAlreadySpace = FALSE
  <2> HIDE DEF f
  <2> QED BY <1>1, <1>2, LineEnds
<1> QED BY <1>2, <1>3

LEMMA DigitsTyped ==
  ASSUME Keyed, ~ fm, NEW c \in Range(table)
  PROVE  Hex(Place(c) \div col) \in Int /\ Hex(Place(c) % col) \in Int
<1>1. Place(c) \in Nat /\ col \in 9 .. 15
  BY PlaceIs DEF Keyed
<1> DEFINE p == Place(c)
           k == col
<1>2. p \in Nat /\ k \in 9 .. 15
  BY <1>1
<1> HIDE DEF p, k
<1>3. p \div k \in Int /\ p % k \in Int
  BY <1>2
<1> QED BY <1>3 DEF Hex, p, k

LEMMA EncryptedTyped ==
  ASSUME Keyed, NEW r \in Machines, r.status = "ok", ~ fm => r.curPosit = 0, NEW c \in Int,
         NEW q \in Encrypted(c, r)
  PROVE  /\ q \in Machines /\ (c = Newline \/ c = Space \/ ~ fm => q.status = "ok")
         /\ ~ fm => q.curPosit = 0
<1>1. CASE c = Newline
  <2>1. q = EncryptNewline(r)
    BY <1>1 DEF Encrypted
  <2> QED BY <2>1, EncryptNewlineIs
<1>2. CASE c # Newline /\ ~ fm
  <2>1. q = PolybiusEncrypt(c, r)
    BY <1>2 DEF Encrypted
  <2>2. CASE c = Space
    <3>1. q = Printed(r, Space) /\ Space \in Int
      BY <2>1, <2>2 DEF PolybiusEncrypt, Space
    <3> QED BY <3>1, PrintedIs DEF Same
  <2>3. CASE c # Space /\ c \notin Range(table)
    BY <2>1, <2>3 DEF PolybiusEncrypt
  <2>4. CASE c # Space /\ c \in Range(table)
    <3> DEFINE h1 == Hex(Place(c) \div col)
               h2 == Hex(Place(c) % col)
    <3>1. q = Printed(Printed(r, h1), h2)
      BY <2>1, <2>4 DEF PolybiusEncrypt
    <3>2. h1 \in Int /\ h2 \in Int
      BY <2>4, <1>2, DigitsTyped
    <3> HIDE DEF h1, h2
    <3>3. Printed(r, h1) \in Machines /\ Printed(r, h1).status = "ok"
          /\ Printed(r, h1).curPosit = r.curPosit
      BY <3>2, PrintedIs DEF Same
    <3>4. q \in Machines /\ q.status = "ok" /\ q.curPosit = r.curPosit
      BY <3>1, <3>2, <3>3, PrintedIs DEF Same
    <3> QED BY <3>4
  <2> QED BY <2>2, <2>3, <2>4
<1>3. CASE c # Newline /\ fm /\ c = Space
  <2>1. q = EncryptSpace(r)
    BY <1>3 DEF Encrypted, FMEncrypt
  <2> QED BY <2>1, <1>3, SpaceIs
<1>4. CASE c # Newline /\ fm /\ c # Space
  <2>1. PICK n \in translateCode(c) : q = EncryptLetter(r, n)
    BY <1>4 DEF Encrypted, FMEncrypt
  <2>2. n \in 0 .. 120
    BY EntryRange
  <2> QED BY <2>1, <2>2, <1>4, LetterIs
<1> QED BY <1>1, <1>2, <1>3, <1>4

-----------------------------------------------------------------------------
(* What is decrypted                                                       *)

LEMMA StatusSet ==
  ASSUME NEW r \in Machines
  PROVE  Failed(r) \in Machines /\ Failed(r).status = "failed"
<1>1. [r EXCEPT !.status = "failed"] \in Machines
  BY DEF Machines
<1> QED BY <1>1 DEF Failed, Machines

\* The letter a code stands for, with position 91 for none.
Letter(n) == LET at == {i \in DOMAIN morse_table : morse_table[i] = n}
             IN  IF at = {} THEN 0 ELSE polybius_alphabet[Min(at)]

LEMMA LetterTyped ==
  ASSUME NEW n
  PROVE  Letter(n) \in Int
<1> DEFINE at == {i \in DOMAIN morse_table : morse_table[i] = n}
<1>1. Letter(n) = IF at = {} THEN 0 ELSE polybius_alphabet[Min(at)]
  BY DEF Letter
<1>2. at \subseteq 1 .. 90 /\ at \subseteq Nat
  <2>1. at \subseteq DOMAIN morse_table
    OBVIOUS
  <2> HIDE DEF at
  <2>2. at \subseteq 1 .. 90
    BY <2>1, MorseEntries
  <2> QED BY <2>2
<1> HIDE DEF at
<1>3. CASE at # {}
  <2>1. PICK i \in at : \A j \in at : i <= j
    BY <1>2, <1>3, LeastNumber
  <2>2. Min(at) = i
    <3>1. at \subseteq Int
      BY <1>2
    <3> QED BY <2>1, <3>1, MinIs
  <2>3. Min(at) \in 1 .. 90
    BY <2>1, <2>2, <1>2
  <2>4. \A k \in 1 .. 94 : polybius_alphabet[k] \in Int
    BY DEF polybius_alphabet
  <2>5. Min(at) \in 1 .. 94
    BY <2>3
  <2> QED BY <1>1, <1>3, <2>4, <2>5
<1> QED BY <1>1, <1>3

\* What a code does: it is added to those of the letter, ends it, or is a space.
Taking(r, code, q) ==
    /\ q \in Machines /\ q.status = r.status /\ q.inputRow = r.inputRow
    /\ code # 2 => q.anti = 2 * r.anti + code /\ q.xIsDetected = FALSE /\ q.out = r.out
    /\ code = 2 /\ r.xIsDetected /\ r.anti = 1 =>
         q.anti = 1 /\ q.xIsDetected = FALSE /\ q.out = Append(r.out, Space)
    /\ code = 2 /\ ~ (r.xIsDetected /\ r.anti = 1) =>
         q.anti = 1 /\ q.xIsDetected = TRUE /\ q.out = Append(r.out, Letter(r.anti))

LEMMA TakeIs ==
  ASSUME NEW r \in Machines, NEW code \in Int
  PROVE  Taking(r, code, TakeCode(r, code))
<1> DEFINE q == TakeCode(r, code)
<1>0. 1 \in Int /\ Space \in Int
  BY DEF Space
<1>1. CASE code # 2
  <2> DEFINE n == 2 * r.anti + code
             e == [r EXCEPT !.anti = n]
  <2>1. n \in Int
    BY DEF Machines
  <2>2. q = [r EXCEPT !.anti = n, !.xIsDetected = FALSE]
    BY <1>1 DEF TakeCode
  <2> HIDE DEF n, q
  <2>3. e \in Machines /\ q = [e EXCEPT !.xIsDetected = FALSE]
    BY <2>1, <2>2, NumbersSet
  <2> HIDE DEF e
  <2>4. q \in Machines
    BY <2>3 DEF Machines
  <2>5. q.status = r.status /\ q.inputRow = r.inputRow /\ q.anti = n /\ q.xIsDetected = FALSE
        /\ q.out = r.out
    BY <2>2 DEF Machines
  <2> QED BY <1>1, <2>4, <2>5 DEF Taking, n, q
<1>2. CASE code = 2 /\ r.xIsDetected /\ r.anti = 1
  <2> DEFINE e == Printed(r, Space)
  <2>1. e \in Machines /\ Same(e, r) /\ e.out = Append(r.out, Space)
    BY <1>0, PrintedIs
  <2>2. q = [e EXCEPT !.xIsDetected = FALSE]
    BY <1>2 DEF TakeCode
  <2> HIDE DEF e, q
  <2>3. q \in Machines
    BY <2>1, <2>2 DEF Machines
  <2>4. q.status = r.status /\ q.inputRow = r.inputRow /\ q.anti = 1 /\ q.xIsDetected = FALSE
        /\ q.out = Append(r.out, Space)
    BY <2>1, <2>2, <1>2 DEF Machines, Same
  <2> QED BY <1>2, <2>3, <2>4 DEF Taking, q
<1>3. CASE code = 2 /\ ~ (r.xIsDetected /\ r.anti = 1)
  <2> DEFINE x == Letter(r.anti)
             e == Printed(r, x)
             f == [e EXCEPT !.anti = 1]
  <2>1. x \in Int
    BY LetterTyped
  <2>2. doAntiTranslateMorse(r) = f
    BY DEF doAntiTranslateMorse, Letter
  <2> HIDE DEF x
  <2>3. e \in Machines /\ Same(e, r) /\ e.out = Append(r.out, x)
    BY <2>1, PrintedIs
  <2> HIDE DEF e
  <2>4. f \in Machines
    BY <2>3, <1>0, NumbersSet
  <2>5. f.anti = 1 /\ f.status = r.status /\ f.inputRow = r.inputRow /\ f.out = Append(r.out, x)
    BY <2>3 DEF Machines, Same
  <2> HIDE DEF f
  <2>6. q = [f EXCEPT !.xIsDetected = TRUE]
    BY <1>3, <2>2 DEF TakeCode
  <2> HIDE DEF q
  <2>7. q \in Machines
    BY <2>4, <2>6 DEF Machines
  <2>8. q.status = r.status /\ q.inputRow = r.inputRow /\ q.anti = 1 /\ q.xIsDetected = TRUE
        /\ q.out = Append(r.out, x)
    BY <2>4, <2>5, <2>6 DEF Machines
  <2> QED BY <1>3, <2>7, <2>8 DEF Taking, q, x
<1> QED BY <1>1, <1>2, <1>3

\* A letter of the key is decrypted to its three codes.
LEMMA FMDecryptIs ==
  ASSUME Keyed, NEW r \in Machines, NEW c \in 65 .. 90
  PROVE  LET t == fractionated_table(Place(c))
             q1 == TakeCode(r, t[1])
             q2 == TakeCode(q1, t[2])
         IN  /\ FMDecrypt(c, r) = TakeCode(q2, t[3])
             /\ Taking(r, t[1], q1) /\ Taking(q1, t[2], q2) /\ Taking(q2, t[3], FMDecrypt(c, r))
<1> DEFINE t == fractionated_table(Place(c))
           q1 == TakeCode(r, t[1])
           q2 == TakeCode(q1, t[2])
           q3 == TakeCode(q2, t[3])
<1>1. c \in Range(table)
  <2>1. CASE fm
    BY <2>1 DEF Keyed
  <2>2. CASE ~ fm
    <3>1. c \in 33 .. 126
      OBVIOUS
    <3>2. Range(table) = 33 .. 126
      BY <2>2 DEF Keyed
    <3> QED BY <3>1, <3>2
  <2> QED BY <2>1, <2>2
<1>2. Place(c) \in Nat
  BY <1>1, PlaceIs
<1>3. t[1] \in Int /\ t[2] \in Int /\ t[3] \in Int
  <2> DEFINE i == Place(c)
  <2>1. i \in Nat
    BY <1>2
  <2> HIDE DEF i
  <2>2. i \div 9 \in Int /\ (i \div 3) % 3 \in Int /\ i % 3 \in Int
    BY <2>1
  <2>3. t = <<i \div 9, (i \div 3) % 3, i % 3>>
    BY DEF fractionated_table, i
  <2> QED BY <2>2, <2>3
<1>4. FMDecrypt(c, r) = q3
  BY DEF FMDecrypt
<1> HIDE DEF t
<1>5. Taking(r, t[1], q1)
  BY <1>3, TakeIs
<1> HIDE DEF q1
<1>6. Taking(q1, t[2], q2)
  BY <1>3, <1>5, TakeIs DEF Taking
<1> HIDE DEF q2
<1>7. Taking(q2, t[3], q3)
  BY <1>3, <1>6, TakeIs DEF Taking
<1> QED BY <1>4, <1>5, <1>6, <1>7 DEF t, q1, q2, q3

LEMMA DecryptedTyped ==
  ASSUME Keyed, NEW r \in Machines, NEW c \in Int
  PROVE  Decrypted(c, r) \in Machines
<1>1. \A e \in 65 .. 90 : FMDecrypt(e, r) \in Machines
  BY FMDecryptIs DEF Taking
<1>2. CASE c = Newline
  <2> DEFINE f == IF r.anti > 1 THEN FMDecrypt(90, r) ELSE r
             q == Decrypted(c, r)
  <2>1. q = [Printed(f, Newline) EXCEPT !.anti = 1, !.xIsDetected = FALSE, !.inputRow = -1]
    BY <1>2 DEF Decrypted, DecryptNewline
  <2>2. f \in Machines
    <3>1. 90 \in 65 .. 90
      OBVIOUS
    <3> QED BY <3>1, <1>1
  <2> DEFINE e == Printed(f, Newline)
             e1 == [e EXCEPT !.anti = 1]
             e2 == [e1 EXCEPT !.xIsDetected = FALSE]
  <2> HIDE DEF f
  <2>3. e \in Machines /\ 1 \in Int
    BY <2>2, PrintedIs DEF Newline
  <2> HIDE DEF e
  <2>4. e1 \in Machines
    BY <2>3, NumbersSet
  <2> HIDE DEF e1
  <2>5. e2 \in Machines
    BY <2>4 DEF Machines
  <2> HIDE DEF e2
  <2>6. [e2 EXCEPT !.inputRow = -1] \in Machines
    BY <2>5, RowSet
  <2> QED BY <2>1, <2>6 DEF e, e1, e2
<1>3. CASE c # Newline /\ fm
  <2>1. Decrypted(c, r) = FMDecrypt(c, r)
    BY <1>3 DEF Decrypted
  <2>2. CASE c \in 65 .. 90
    BY <2>1, <2>2, <1>1
  <2>3. CASE c \notin 65 .. 90
    BY <2>1, <2>3, StatusSet DEF FMDecrypt
  <2> QED BY <2>2, <2>3
<1>4. CASE c # Newline /\ ~ fm
  <2>1. Decrypted(c, r) = PolybiusDecrypt(c, r)
    BY <1>4 DEF Decrypted
  <2> DEFINE n == strtol(c)
  <2>2. n \in Nat
    <3>1. c \in HexDigits => HexVal(c) \in Nat
      BY DEF HexDigits, HexVal
    <3> QED BY <3>1 DEF strtol
  <2>3. CASE c = Space
    <3>1. Decrypted(c, r) = Printed(r, Space) /\ Space \in Int
      BY <2>1, <2>3 DEF PolybiusDecrypt, Space
    <3> QED BY <3>1, PrintedIs
  <2>4. CASE c # Space /\ r.inputRow = -1
    <3>1. Decrypted(c, r) = IF n > 15 THEN Failed(r) ELSE [r EXCEPT !.inputRow = n]
      BY <2>1, <2>4 DEF PolybiusDecrypt
    <3> HIDE DEF n
    <3>2. [r EXCEPT !.inputRow = n] \in Machines
      <4>1. n \in Int /\ n \in Nat \union {-1}
        BY <2>2
      <4> QED BY <4>1, NumbersSet
    <3> QED BY <3>1, <3>2, StatusSet
  <2>5. CASE c # Space /\ r.inputRow # -1
    <3> DEFINE ptr == r.inputRow * col + n
               x == IF ptr < 94 THEN table[ptr + 1] ELSE 0
               e == Printed(r, x)
    <3>1. Decrypted(c, r) = [e EXCEPT !.inputRow = -1]
      BY <2>1, <2>5 DEF PolybiusDecrypt
    <3>2. ptr \in Nat
      <4>1. r.inputRow \in Nat /\ col \in Nat
        BY <2>5, <1>4 DEF Machines, Keyed
      <4> DEFINE a == r.inputRow
                 b == col
      <4>2. a \in Nat /\ b \in Nat
        BY <4>1
      <4> HIDE DEF a, b, n
      <4>3. a * b \in Nat
        BY <4>2
      <4>4. a * b + n \in Nat
        BY <4>3, <2>2
      <4> QED BY <4>4 DEF a, b
    <3> HIDE DEF ptr
    <3>3. x \in Int
      <4>1. ptr < 94 => ptr + 1 \in 1 .. 94
        BY <3>2
      <4>2. Len(table) = 94 /\ table \in Seq(Int)
        BY <1>4 DEF Keyed
      <4>3. \A i \in 1 .. Len(table) : table[i] \in Int
        <5>1. table \in Seq(Int)
          BY <4>2
        <5> QED BY <5>1
      <4>4. ptr < 94 => ptr + 1 \in 1 .. Len(table)
        BY <4>1, <4>2
      <4>5. ptr < 94 => table[ptr + 1] \in Int
        BY <4>3, <4>4
      <4>6. 0 \in Int
        OBVIOUS
      <4> QED BY <4>5, <4>6
    <3> HIDE DEF x
    <3>4. e \in Machines
      BY <3>3, PrintedIs
    <3> QED BY <3>1, <3>4, RowSet
  <2> QED BY <2>3, <2>4, <2>5
<1> QED BY <1>2, <1>3, <1>4

-----------------------------------------------------------------------------
(* What is known of every state, whatever the cipher                       *)

Begun ==
    /\ text \in Seq(Int)
    /\ stage \in {"args", "ready"} => m = Static /\ text = <<>> /\ stale = FALSE
    /\ stage = "args" => Honest
    /\ stage = "ready" => Prepared
    /\ stage \in {"encrypt", "decrypt", "decode"} => Keyed /\ m \in Machines /\ m.status = "ok"
    /\ stage = "encrypt" => ~ dec /\ stale = FALSE /\ (~ fm => m.curPosit = 0)
    /\ stage = "decode" => pipe \in Seq(Int)

LEMMA BegunInit ==
  ASSUME Init
  PROVE  Begun
<1>1. Honest
  BY HonestInit
<1>2. <<>> \in Seq(Int)
  OBVIOUS
<1> QED BY <1>1, <1>2 DEF Init, Begun

LEMMA KeyedKept ==
  ASSUME table' = table, mode' = mode
  PROVE  (Keyed' <=> Keyed) /\ (fm' <=> fm) /\ (dec' <=> dec)
<1> QED BY DEF Keyed, fm, dec, row, col

LEMMA BegunWord ==
  ASSUME Begun, NEW w \in Flags, NEW v \in Operands(w), Word(w, v)
  PROVE  Begun'
<1>1. stage = "args" /\ UNCHANGED <<mode, table, m, text, pipe, stale>>
  BY DEF Word
<1>2. stage' \in {"args", "help", "usage", "crashed"}
  BY <1>1 DEF Word
<1>3. stage' = "args" => Honest'
  BY <1>1, HonestWord DEF Begun
<1> QED BY <1>1, <1>2, <1>3 DEF Begun

LEMMA BegunEndOfWords ==
  ASSUME Begun, EndOfWords
  PROVE  Begun'
<1>1. stage = "args" /\ UNCHANGED <<args, asked, m, text, pipe, stale>> /\ Honest
  BY DEF EndOfWords, Begun
<1>2. CASE asked = <<>> \/ ~ validateRowAndCol(args.row, args.col)
  <2>1. stage' = "usage"
    BY <1>2 DEF EndOfWords
  <2> QED BY <2>1, <1>1 DEF Begun
<1>3. CASE ~ (asked = <<>> \/ ~ validateRowAndCol(args.row, args.col))
  <2>1. stage' = "ready" /\ mode' = usageCode(args) /\ table' = initCipherTable(args.key, args.pf)
    BY <1>3 DEF EndOfWords
  <2>2. Honest'
    BY <1>1 DEF Honest
  <2>3. Prepared'
    BY <1>1, <1>3, <2>1, <2>2 DEF Prepared
  <2> QED BY <2>1, <2>3, <1>1 DEF Begun
<1> QED BY <1>2, <1>3

LEMMA BegunActivate ==
  ASSUME Begun, activateCrypto
  PROVE  Begun'
<1>1. stage = "ready" /\ UNCHANGED <<mode, table, m, text, pipe>> /\ Prepared
      /\ m = Static /\ text = <<>> /\ stale = FALSE
  BY DEF activateCrypto, Begun
<1>2. stage' = IF dec THEN "decrypt" ELSE "encrypt"
  BY DEF activateCrypto
<1>3. stale' \in {FALSE, dec /\ ~ fm}
  BY DEF activateCrypto
<1>4. Keyed'
  BY <1>1, PreparedKeyed, KeyedKept
<1>5. m' \in Machines /\ m'.status = "ok"
  BY <1>1, StaticIdle DEF Idle
<1>6. m'.curPosit = 0
  BY <1>1 DEF Static
<1>7. stage' = "encrypt" => ~ dec' /\ stale' = FALSE
  BY <1>1, <1>2, <1>3, KeyedKept
<1>8. text' \in Seq(Int)
  BY <1>1 DEF Begun
<1> QED BY <1>2, <1>4, <1>5, <1>6, <1>7, <1>8 DEF Begun

LEMMA TypedText ==
  ASSUME Begun, NEW c \in Chars, Typed(c)
  PROVE  c \in Int /\ text' \in Seq(Int) /\ text' = Append(text, c)
         /\ UNCHANGED <<args, asked, mode, table, pipe, stale>>
<1>1. c \in Int
  BY CipherAssumption
<1>2. text \in Seq(Int)
  BY DEF Begun
<1> QED BY <1>1, <1>2 DEF Typed

LEMMA BegunEncrypt ==
  ASSUME Begun, NEW c \in Chars, Encrypt(c)
  PROVE  Begun'
<1>1. stage = "encrypt" /\ c \in Int /\ text' \in Seq(Int)
      /\ UNCHANGED <<args, asked, mode, table, pipe, stale>>
  BY TypedText DEF Encrypt
<1>2. PICK q \in Encrypted(c, m) : Advance(q)
  BY DEF Encrypt
<1>3. Keyed /\ ~ dec /\ stale = FALSE /\ m \in Machines /\ m.status = "ok" /\ (~ fm => m.curPosit = 0)
  BY <1>1 DEF Begun
<1>4. q \in Machines /\ (~ fm => q.curPosit = 0)
  BY <1>1, <1>3, EncryptedTyped
<1>5. m' = q /\ stage' = IF q.status = "ok" THEN "encrypt" ELSE q.status
  BY <1>1, <1>2 DEF Advance
<1>6. stage' \in {"encrypt", "failed", "crashed"} /\ (stage' = "encrypt" => q.status = "ok")
  <2>1. q.status \in {"ok", "failed", "crashed"}
    BY <1>4 DEF Machines
  <2> QED BY <1>5, <2>1
<1>7. Keyed' /\ (fm' <=> fm) /\ (dec' <=> dec)
  BY <1>1, <1>3, KeyedKept
<1> QED BY <1>1, <1>3, <1>4, <1>5, <1>6, <1>7 DEF Begun

LEMMA BegunDecrypt ==
  ASSUME Begun, NEW c \in Chars, Decrypt(c)
  PROVE  Begun'
<1>1. stage = "decrypt" /\ c \in Int /\ text' \in Seq(Int)
      /\ UNCHANGED <<args, asked, mode, table, pipe, stale>>
  BY TypedText DEF Decrypt
<1> DEFINE q == Decrypted(c, m)
<1>2. Advance(q)
  BY DEF Decrypt
<1>3. Keyed /\ m \in Machines
  BY <1>1 DEF Begun
<1>4. q \in Machines
  BY <1>1, <1>3, DecryptedTyped
<1> HIDE DEF q
<1>5. m' = q /\ stage' = IF q.status = "ok" THEN "decrypt" ELSE q.status
  BY <1>1, <1>2 DEF Advance
<1>6. stage' \in {"decrypt", "failed", "crashed"} /\ (stage' = "decrypt" => q.status = "ok")
  <2>1. q.status \in {"ok", "failed", "crashed"}
    BY <1>4 DEF Machines
  <2> QED BY <1>5, <2>1
<1>7. Keyed'
  BY <1>1, <1>3, KeyedKept
<1> QED BY <1>1, <1>4, <1>5, <1>6, <1>7 DEF Begun

LEMMA BegunDecode ==
  ASSUME Begun, Decode
  PROVE  Begun'
<1>1. stage = "decode" /\ pipe \in Seq(Int) /\ pipe # <<>> /\ pipe' = Tail(pipe)
      /\ UNCHANGED <<args, asked, mode, table, text, stale>>
  BY DEF Decode, Begun
<1>2. Head(pipe) \in Int /\ Tail(pipe) \in Seq(Int)
  BY <1>1
<1> DEFINE q == Decrypted(Head(pipe), m)
<1>3. Advance(q)
  BY DEF Decode
<1>4. Keyed /\ m \in Machines
  BY <1>1 DEF Begun
<1>5. q \in Machines
  BY <1>2, <1>4, DecryptedTyped
<1> HIDE DEF q
<1>6. m' = q /\ stage' = IF q.status = "ok" THEN "decode" ELSE "undecoded"
  BY <1>1, <1>3 DEF Advance
<1>7. Keyed'
  BY <1>1, <1>4, KeyedKept
<1> QED BY <1>1, <1>2, <1>5, <1>6, <1>7 DEF Begun

LEMMA BegunEndOfInput ==
  ASSUME Begun, EndOfInput
  PROVE  Begun'
<1>1. UNCHANGED <<args, asked, mode, table, text>>
  BY DEF EndOfInput
<1>2. stage' \in {"done", "decoded"} => Begun'
  BY <1>1 DEF Begun
<1>3. CASE stage = "encrypt" /\ stage' = "decode" /\ pipe' = m.out /\ m' = Static
  <2>1. Keyed /\ m \in Machines
    BY <1>3 DEF Begun
  <2>2. Keyed'
    BY <2>1, <1>1, KeyedKept
  <2>3. pipe' \in Seq(Int)
    BY <2>1, <1>3 DEF Machines
  <2>4. m' \in Machines /\ m'.status = "ok"
    BY <1>3, StaticIdle DEF Idle
  <2> QED BY <1>1, <1>3, <2>2, <2>3, <2>4 DEF Begun
<1> QED BY <1>2, <1>3 DEF EndOfInput

LEMMA BegunNext ==
  ASSUME Begun, [Next]_vars
  PROVE  Begun'
<1>1. CASE UNCHANGED vars
  <2>1. UNCHANGED <<stage, args, asked, mode, table, m, text, pipe, stale>>
    BY <1>1 DEF vars
  <2>2. (Keyed' <=> Keyed) /\ (fm' <=> fm) /\ (dec' <=> dec)
    BY <2>1, KeyedKept
  <2>3. (Honest' <=> Honest)
    BY <2>1 DEF Honest
  <2>4. Prepared' <=> Prepared
    BY <2>1, <2>3 DEF Prepared
  <2> QED BY <2>1, <2>2, <2>3, <2>4 DEF Begun
<1>2. ASSUME NEW w \in Flags, NEW v \in Operands(w), Word(w, v) PROVE Begun'
  BY <1>2, BegunWord
<1>3. CASE EndOfWords
  BY <1>3, BegunEndOfWords
<1>4. CASE activateCrypto
  BY <1>4, BegunActivate
<1>5. ASSUME NEW c \in Chars, Encrypt(c) PROVE Begun'
  BY <1>5, BegunEncrypt
<1>6. ASSUME NEW c \in Chars, Decrypt(c) PROVE Begun'
  BY <1>6, BegunDecrypt
<1>7. CASE Decode
  BY <1>7, BegunDecode
<1>8. CASE EndOfInput
  BY <1>8, BegunEndOfInput
<1> QED BY <1>1, <1>2, <1>3, <1>4, <1>5, <1>6, <1>7, <1>8 DEF Next

\* What is known of every state, in every run of the program and of the one that
\* decodes its output.
THEOREM AlwaysBegun == Spec => []Begun
<1>1. Init => Begun
  BY BegunInit
<1>2. Begun /\ [Next]_vars => Begun'
  BY BegunNext
<1> QED BY <1>1, <1>2, PTL DEF Spec

\* A cipher that starts is the one the words asked for, whatever their order and
\* number and whatever the keys and counts given (validargs, initCipherTable).
THEOREM CommandIsHonoured == Spec => []CommandHonoured
<1>1. Begun => CommandHonoured
  <2>1. stage = "ready" /\ Begun => CommandHonoured
    BY PreparedHonoured DEF Begun
  <2>2. stage # "ready" => CommandHonoured
    BY DEF CommandHonoured
  <2> QED BY <2>1, <2>2
<1> QED BY <1>1, AlwaysBegun, PTL

-----------------------------------------------------------------------------
(* The square: what it prints decrypts                                     *)

LEMMA SquareQuiet ==
  ASSUME stage' \notin {"encrypt", "decode", "undecoded", "decoded"}
  PROVE  Square'
BY DEF Square

LEMMA SquareActivate ==
  ASSUME Begun, activateCrypto
  PROVE  Square'
<1>1. /\ stage = "ready" /\ UNCHANGED <<mode, table, m, text, pipe>>
      /\ m = Static /\ text = <<>> /\ stale = FALSE
      /\ stage' = IF dec THEN "decrypt" ELSE "encrypt"
      /\ stale' \in {FALSE, dec /\ ~ fm}
  BY DEF activateCrypto, Begun
<1>2. CASE dec
  <2>1. stage' = "decrypt"
    BY <1>1, <1>2
  <2> QED BY <2>1, SquareQuiet
<1>3. CASE ~ dec
  <2>1. stage' = "encrypt" /\ stale' = stale
    BY <1>1, <1>3
  <2>2. Readable(<<>>, <<>>)'
    BY <1>1, <2>1, ReadableNone, ReadableKept
  <2>3. m'.out = <<>>
    BY <1>1 DEF Static
  <2>4. Kept(text') = <<>>
    <3>1. Kept(<<>>) = <<>>
      <4>1. <<>> \in Seq(Int) /\ 0 \in Int
        OBVIOUS
      <4> QED BY <4>1, KeptIs
    <3> QED BY <3>1, <1>1
  <2>5. \E o, k : o = m'.out /\ k = Kept(text') /\ Readable(o, k)'
    BY <2>2, <2>3, <2>4
  <2> QED BY <2>1, <2>5 DEF Square
<1> QED BY <1>2, <1>3

\* What a character prints decrypts to what is kept of it.
LEMMA SquarePrints ==
  ASSUME Keyed, ~ fm, ~ stale, NEW c \in Int, NEW r \in Machines, r.status = "ok", r.curPosit = 0,
         NEW q \in Encrypted(c, r), NEW s \in Seq(Int), Readable(r.out, Kept(s))
  PROVE  Readable(q.out, Kept(Append(s, c)))
<1> DEFINE o == r.out
           k == Kept(s)
<1>1. Readable(o, k)
  OBVIOUS
<1>2. Kept(Append(s, c)) = IF c \in InSquare THEN Append(k, c) ELSE k
  BY KeptIs
<1>3. CASE c = Newline
  <2>1. q = EncryptNewline(r)
    BY <1>3 DEF Encrypted
  <2>2. q.out = Append(o, Newline)
    <3>1. ~ (r.curPosit = 2 /\ r.posit[2] = 2)
      OBVIOUS
    <3> QED BY <2>1, <3>1, EncryptNewlineIs
  <2> HIDE DEF o, k
  <2>3. Readable(Append(o, c), Append(k, c))
    BY <1>1, <1>3, ReadableOne
  <2> QED BY <1>2, <1>3, <2>2, <2>3 DEF InSquare
<1>4. CASE c # Newline
  <2>1. q = PolybiusEncrypt(c, r)
    BY <1>4 DEF Encrypted
  <2>2. CASE c = Space
    <3>1. q = Printed(r, Space) /\ Space \in Int
      BY <2>1, <2>2 DEF PolybiusEncrypt, Space
    <3>2. q.out = Append(o, c)
      BY <3>1, <2>2, PrintedIs
    <3> HIDE DEF o, k
    <3>3. Readable(Append(o, c), Append(k, c))
      BY <1>1, <2>2, ReadableOne
    <3> QED BY <1>2, <2>2, <3>2, <3>3 DEF InSquare
  <2>3. CASE c # Space /\ c \notin Range(table)
    <3>1. q = r
      BY <2>1, <2>3 DEF PolybiusEncrypt
    <3>2. c \notin InSquare
      BY <1>4, <2>3 DEF InSquare, Keyed
    <3> QED BY <3>1, <3>2, <1>1, <1>2
  <2>4. CASE c # Space /\ c \in Range(table)
    <3>1. c \in 33 .. 126 /\ c \in InSquare
      BY <2>4, ZenonT(30) DEF InSquare, Keyed
    <3> DEFINE h1 == Hex(Place(c) \div col)
               h2 == Hex(Place(c) % col)
    <3>2. q = Printed(Printed(r, h1), h2)
      BY <2>1, <2>4 DEF PolybiusEncrypt
    <3> HIDE DEF o, k
    <3>3. Readable(Append(Append(o, h1), h2), Append(k, c))
      BY <1>1, <3>1, ReadableTwo
    <3>4. h1 \in Int /\ h2 \in Int
      BY <2>4, DigitsTyped
    <3> HIDE DEF h1, h2
    <3>5. Printed(r, h1) \in Machines /\ Printed(r, h1).out = Append(r.out, h1)
      BY <3>4, PrintedIs
    <3>6. q.out = Append(Append(o, h1), h2)
      <4>1. Printed(Printed(r, h1), h2).out = Append(Printed(r, h1).out, h2)
        BY <3>4, <3>5, PrintedIs
      <4> QED BY <4>1, <3>2, <3>5 DEF o
    <3> QED BY <3>1, <3>3, <3>6, <1>2
  <2> QED BY <2>2, <2>3, <2>4
<1> QED BY <1>3, <1>4

LEMMA SquareEncrypt ==
  ASSUME Begun, Square, NEW c \in Chars, Encrypt(c)
  PROVE  Square'
<1>1. stage = "encrypt" /\ c \in Int /\ text' = Append(text, c) /\ text \in Seq(Int)
      /\ UNCHANGED <<args, asked, mode, table, pipe, stale>>
  BY TypedText DEF Encrypt, Begun
<1>2. PICK q \in Encrypted(c, m) : Advance(q)
  BY DEF Encrypt
<1>3. Keyed /\ ~ stale /\ m \in Machines /\ m.status = "ok" /\ (~ fm => m.curPosit = 0)
  BY <1>1 DEF Begun
<1>4. CASE fm
  <2>1. fm'
    BY <1>1, <1>4, KeyedKept
  <2> QED BY <2>1 DEF Square
<1>5. CASE ~ fm
  <2>1. Readable(m.out, Kept(text))
    BY <1>1, <1>5 DEF Square
  <2>2. Readable(q.out, Kept(Append(text, c)))
    BY <1>1, <1>3, <1>5, <2>1, SquarePrints
  <2>3. q.status = "ok"
    BY <1>1, <1>3, <1>5, EncryptedTyped
  <2>4. m' = q /\ stage' = "encrypt"
    BY <1>1, <1>2, <2>3 DEF Advance
  <2>5. PICK o, k : o = q.out /\ k = Kept(Append(text, c))
    OBVIOUS
  <2>6. Readable(o, k)'
    BY <1>1, <2>2, <2>5, ReadableKept
  <2>7. o = m'.out /\ k = Kept(text')
    BY <1>1, <2>4, <2>5
  <2> QED BY <2>4, <2>6, <2>7 DEF Square
<1> QED BY <1>4, <1>5

LEMMA SquareDecode ==
  ASSUME Begun, Square, Decode
  PROVE  Square'
<1>1. stage = "decode" /\ pipe \in Seq(Int) /\ pipe # <<>> /\ pipe' = Tail(pipe)
      /\ UNCHANGED <<args, asked, mode, table, text, stale>> /\ Advance(Decrypted(Head(pipe), m))
  BY DEF Decode, Begun
<1>2. CASE fm \/ stale
  <2>1. fm' \/ stale'
    BY <1>1, <1>2, KeyedKept
  <2>2. stage' \in {"decode", "undecoded"}
    <3>1. m \in Machines /\ Keyed
      BY <1>1 DEF Begun
    <3> QED BY <1>1 DEF Advance
  <2> QED BY <2>1, <2>2 DEF Square
<1>3. CASE ~ fm /\ ~ stale
  <2>1. PICK r, s, k : r = m /\ s = pipe /\ k = Kept(text) /\ Resumes(r, s, k)
    BY <1>1, <1>3 DEF Square
  <2>2. PICK d : Runs(r, s, d) /\ Idle(d, k)
    BY <2>1 DEF Resumes
  <2>3. PICK q, e : q = Decrypted(Head(s), r) /\ e = Tail(s)
    OBVIOUS
  <2>4. q \in Machines /\ q.status = "ok" /\ Runs(q, e, d)
    BY <1>1, <2>1, <2>2, <2>3, RunsHead
  <2>5. e \in Seq(Int)
    BY <1>1, <2>1, <2>3
  <2>6. Resumes(q, e, k)
    BY <2>2, <2>4, <2>5 DEF Resumes
  <2>7. Resumes(q, e, k)'
    BY <1>1, <2>6, ResumesKept
  <2>8. m' = q /\ pipe' = e /\ k = Kept(text') /\ stage' = "decode"
    BY <1>1, <2>1, <2>3, <2>4 DEF Advance
  <2> QED BY <2>7, <2>8 DEF Square
<1> QED BY <1>2, <1>3

LEMMA SquareEndOfInput ==
  ASSUME Begun, Square, EndOfInput
  PROVE  Square'
<1>1. UNCHANGED <<args, asked, mode, table, text>>
  BY DEF EndOfInput
<1>2. stage' = "done" => Square'
  BY SquareQuiet
<1>3. CASE stage = "encrypt" /\ stage' = "decode" /\ pipe' = m.out /\ m' = Static
           /\ stale' \in {FALSE, ~ fm}
  <2>1. fm' <=> fm
    BY <1>1, KeyedKept
  <2>2. stale = FALSE
    BY <1>3 DEF Begun
  <2>3. CASE fm \/ stale'
    BY <1>3, <2>1, <2>3 DEF Square
  <2>4. CASE ~ fm /\ ~ stale'
    <3>1. stale' = stale
      BY <1>3, <2>2, <2>4
    <3>2. PICK o, k : o = m.out /\ k = Kept(text) /\ Readable(o, k)
      BY <1>3, <2>4 DEF Square
    <3>3. Resumes(Static, o, k)
      BY <3>2 DEF Readable, Resumes
    <3>4. Resumes(Static, o, k)'
      BY <1>1, <3>1, <3>3, ResumesKept
    <3>5. m' = Static /\ pipe' = o /\ k = Kept(text')
      BY <1>1, <1>3, <3>2
    <3> QED BY <1>3, <3>4, <3>5 DEF Square
  <2> QED BY <2>3, <2>4
<1>4. CASE stage = "decode" /\ pipe = <<>> /\ stage' = "decoded" /\ UNCHANGED <<m, pipe, stale>>
  <2>1. fm' <=> fm
    BY <1>1, KeyedKept
  <2>2. CASE fm \/ stale
    BY <1>4, <2>1, <2>2 DEF Square
  <2>3. CASE ~ fm /\ ~ stale
    <3>1. PICK r, s, k : r = m /\ s = pipe /\ k = Kept(text) /\ Resumes(r, s, k)
      BY <1>4, <2>3 DEF Square
    <3>2. PICK d : Runs(r, s, d) /\ Idle(d, k)
      BY <3>1 DEF Resumes
    <3>3. d = r
      BY <1>4, <3>1, <3>2, RunsEnd
    <3>4. m.out = Kept(text)
      BY <3>1, <3>2, <3>3 DEF Idle
    <3> QED BY <1>1, <1>4, <3>4 DEF Square
  <2> QED BY <2>2, <2>3
<1> QED BY <1>2, <1>3, <1>4 DEF EndOfInput

LEMMA SquareNext ==
  ASSUME Begun, Square, [Next]_vars
  PROVE  Square'
<1>1. CASE UNCHANGED vars
  <2>1. UNCHANGED <<stage, args, asked, mode, table, m, text, pipe, stale>>
    BY <1>1 DEF vars
  <2>2. fm' <=> fm
    BY <2>1, KeyedKept
  <2>3. \A o, k : Readable(o, k)' <=> Readable(o, k)
    <3> SUFFICES ASSUME NEW o, NEW k PROVE Readable(o, k)' <=> Readable(o, k)
      OBVIOUS
    <3> QED BY <2>1, ReadableKept
  <2>4. \A r, s, k : Resumes(r, s, k)' <=> Resumes(r, s, k)
    <3> SUFFICES ASSUME NEW r, NEW s, NEW k PROVE Resumes(r, s, k)' <=> Resumes(r, s, k)
      OBVIOUS
    <3> QED BY <2>1, ResumesKept
  <2> QED BY <2>1, <2>2, <2>3, <2>4 DEF Square
<1>2. ASSUME NEW w \in Flags, NEW v \in Operands(w), Word(w, v) PROVE Square'
  <2>1. stage' \in {"args", "help", "usage", "crashed"}
    BY <1>2 DEF Word
  <2> QED BY <2>1, SquareQuiet
<1>3. CASE EndOfWords
  <2>1. stage' \in {"usage", "ready"}
    BY <1>3 DEF EndOfWords
  <2> QED BY <2>1, SquareQuiet
<1>4. CASE activateCrypto
  BY <1>4, SquareActivate
<1>5. ASSUME NEW c \in Chars, Encrypt(c) PROVE Square'
  BY <1>5, SquareEncrypt
<1>6. ASSUME NEW c \in Chars, Decrypt(c) PROVE Square'
  <2>1. stage = "decrypt" /\ Keyed /\ m \in Machines /\ Advance(Decrypted(c, m)) /\ c \in Int
    BY <1>6, TypedText DEF Decrypt, Begun
  <2>2. Decrypted(c, m) \in Machines
    BY <2>1, DecryptedTyped
  <2>3. Decrypted(c, m).status \in {"ok", "failed", "crashed"}
    BY <2>2 DEF Machines
  <2>4. stage' \in {"decrypt", "failed", "crashed"}
    BY <2>1, <2>3 DEF Advance
  <2> QED BY <2>4, SquareQuiet
<1>7. CASE Decode
  BY <1>7, SquareDecode
<1>8. CASE EndOfInput
  BY <1>8, SquareEndOfInput
<1> QED BY <1>1, <1>2, <1>3, <1>4, <1>5, <1>6, <1>7, <1>8 DEF Next

LEMMA SquareInit ==
  ASSUME Init
  PROVE  Square
BY DEF Init, Square

\* A text that the square encrypted comes back from a run with the same words:
\* every character that has a place in it, every space and every line, whatever
\* the key, the rows, the columns and the text (doPolybiusCipher).  The proof is
\* that the others are missing (Square); the property would allow them to stay.
THEOREM SquareRoundTrip == Spec => []PolybiusRoundTrip
<1>1. Init => Square
  BY SquareInit
<1>2. Begun /\ Square /\ [Next]_vars => Square'
  BY SquareNext
<1>3. Square => PolybiusRoundTrip
  BY DEF Square, PolybiusRoundTrip
<1> QED BY <1>1, <1>2, <1>3, AlwaysBegun, PTL DEF Spec

-----------------------------------------------------------------------------
(* Texts, lines and codes, a character at a time                           *)

LEMMA FlattenMore ==
  ASSUME NEW T, NEW ss \in Seq(Seq(T)), NEW tt \in Seq(Seq(T)), Len(tt) = Len(ss) + 1,
         \A i \in 1 .. Len(ss) : tt[i] = ss[i]
  PROVE  FlattenSeq(tt) = FlattenSeq(ss) \o tt[Len(ss) + 1]
<1> DEFINE x == tt[Len(ss) + 1]
<1>1. tt = Append(ss, x)
  BY OneMore
<1>2. x \in Seq(T)
  OBVIOUS
<1> HIDE DEF x
<1>3. FlattenSeq(Append(ss, x)) = FlattenSeq(ss) \o x
  BY <1>2, FlattenAppend
<1> QED BY <1>1, <1>3 DEF x

\* What the last character was: a letter, a space, or none in its line.
KindOf(c) == IF c = Newline THEN "none" ELSE IF c = Space THEN "space" ELSE "letter"
Kind(s) == IF s = <<>> THEN "none" ELSE KindOf(s[Len(s)])

LEMMA KindIs ==
  ASSUME NEW s \in Seq(Int), NEW c \in Int
  PROVE  Kind(Append(s, c)) = KindOf(c)
<1> DEFINE t == Append(s, c)
<1>1. Len(t) = Len(s) + 1 /\ t[Len(s) + 1] = c /\ Len(s) \in Nat
  BY AppendIs
<1> HIDE DEF t
<1>2. t # <<>>
  BY <1>1
<1> QED BY <1>1, <1>2 DEF Kind, t

Ends(s) == {i \in DOMAIN s : s[i] = Newline} \union {0}

LEMMA EndsIs ==
  ASSUME NEW s \in Seq(Int)
  PROVE  /\ Max(Ends(s)) \in 0 .. Len(s) /\ Line(s) = SubSeq(s, Max(Ends(s)) + 1, Len(s))
         /\ Line(s) \in Seq(Int)
<1>1. Ends(s) \subseteq 0 .. Len(s) /\ Ends(s) # {} /\ Len(s) \in Nat
  BY DEF Ends
<1>2. Max(Ends(s)) \in 0 .. Len(s)
  BY <1>1, MaxExists
<1>3. Line(s) = SubSeq(s, Max(Ends(s)) + 1, Len(s))
  BY DEF Line, Ends
<1> DEFINE n == Max(Ends(s))
<1>4. n \in Nat
  BY <1>2
<1> HIDE DEF n
<1>5. SubSeq(s, n + 1, Len(s)) \in Seq(Int)
  BY <1>4
<1> QED BY <1>2, <1>3, <1>5 DEF n

LEMMA LineNone == Line(<<>>) = <<>>
<1>1. Ends(<<>>) = {0}
  BY DEF Ends
<1>2. Max({0}) = 0
  <2>1. {0} \subseteq Int /\ 0 \in {0} /\ \A y \in {0} : 0 >= y
    OBVIOUS
  <2> QED BY <2>1, MaxIs
<1>3. Line(<<>>) = SubSeq(<<>>, 0 + 1, Len(<<>>))
  BY <1>1, <1>2 DEF Line, Ends
<1> QED BY <1>3

LEMMA LineIs ==
  ASSUME NEW s \in Seq(Int), NEW c \in Int
  PROVE  /\ c = Newline => Line(Append(s, c)) = <<>>
         /\ c # Newline => Line(Append(s, c)) = Append(Line(s), c)
<1> DEFINE t == Append(s, c)
           N == Len(s)
<1>1. t \in Seq(Int) /\ Len(t) = N + 1 /\ (\A i \in 1 .. N : t[i] = s[i]) /\ t[N + 1] = c /\ N \in Nat
  BY AppendIs
<1> HIDE DEF t
<1>2. CASE c = Newline
  <2>1. Max(Ends(t)) = N + 1
    <3>1. Ends(t) \subseteq 0 .. N + 1
      BY <1>1 DEF Ends
    <3>2. N + 1 \in Ends(t)
      BY <1>1, <1>2 DEF Ends
    <3> HIDE DEF N
    <3>3. N \in Nat
      BY <1>1
    <3>4. Ends(t) \subseteq Int /\ \A y \in Ends(t) : N + 1 >= y
      BY <3>1, <3>3
    <3> QED BY <3>2, <3>4, MaxIs
  <2>2. Line(t) = SubSeq(t, N + 2, N + 1)
    <3>1. Line(t) = SubSeq(t, Max(Ends(t)) + 1, Len(t))
      BY <1>1, EndsIs
    <3>2. (N + 1) + 1 = N + 2
      BY <1>1
    <3> QED BY <2>1, <3>1, <3>2, <1>1
  <2>3. SubSeq(t, N + 2, N + 1) = <<>>
    <3> HIDE DEF N
    <3> QED BY <1>1
  <2> QED BY <1>2, <2>2, <2>3 DEF t
<1>3. CASE c # Newline
  <2>1. Ends(t) = Ends(s)
    <3>1. DOMAIN t = 1 .. N + 1 /\ DOMAIN s = 1 .. N
      BY <1>1
    <3>2. \A i \in 1 .. N + 1 : i \in 1 .. N \/ i = N + 1
      BY <1>1
    <3>3. \A i : (i \in DOMAIN t /\ t[i] = Newline) <=> (i \in DOMAIN s /\ s[i] = Newline)
      <4>1. \A i \in 1 .. N : i \in 1 .. N + 1
        BY <1>1
      <4> QED BY <1>1, <1>3, <3>1, <3>2, <4>1
    <3> QED BY <3>3 DEF Ends
  <2> DEFINE M == Max(Ends(s))
  <2>2. M \in 0 .. N
    BY EndsIs
  <2>3. Line(t) = SubSeq(t, M + 1, N + 1) /\ Line(s) = SubSeq(s, M + 1, N)
    BY <1>1, <2>1, EndsIs
  <2> HIDE DEF M, N
  <2> DEFINE a == SubSeq(s, M + 1, N)
             b == SubSeq(t, M + 1, N + 1)
  <2>4. a \in Seq(Int) /\ Len(a) = N - M /\ \A i \in 1 .. N - M : a[i] = s[M + i]
    <3>1. N = Len(s)
      BY DEF N
    <3>2. M \in Nat /\ N \in Nat /\ M <= N
      BY <1>1, <2>2
    <3> QED BY <3>1, <3>2
  <2>5. b \in Seq(Int) /\ Len(b) = N + 1 - M /\ \A i \in 1 .. N + 1 - M : b[i] = t[M + i]
    <3>2. M \in Nat /\ N \in Nat /\ M <= N
      BY <1>1, <2>2
    <3> QED BY <1>1, <3>2
  <2> HIDE DEF a, b
  <2>6. Len(b) = Len(a) + 1 /\ \A i \in 1 .. Len(a) : b[i] = a[i]
    <3>1. Len(b) = Len(a) + 1
      BY <2>2, <2>4, <2>5, <1>1
    <3>2. \A i \in 1 .. N - M : M + i \in 1 .. N /\ i \in 1 .. N + 1 - M
      BY <2>2, <1>1
    <3>3. \A i \in 1 .. N - M : b[i] = a[i]
      BY <3>2, <2>4, <2>5, <1>1
    <3> QED BY <3>1, <3>3, <2>4
  <2>7. b[Len(a) + 1] = c
    <3> DEFINE j == N - M + 1
    <3>1. j \in 1 .. N + 1 - M /\ M + j = N + 1 /\ Len(a) + 1 = j
      BY <2>2, <2>4, <1>1
    <3> HIDE DEF j
    <3>2. b[j] = t[M + j]
      BY <3>1, <2>5
    <3> QED BY <3>1, <3>2, <1>1
  <2>8. b = Append(a, b[Len(a) + 1])
    BY <2>4, <2>5, <2>6, OneMore
  <2> QED BY <1>3, <2>3, <2>7, <2>8 DEF a, b, t
<1> QED BY <1>2, <1>3

\* A line has no character of its own kind "none", and those of its text.
LEMMA LineKind ==
  ASSUME NEW s \in Seq(Int)
  PROVE  /\ Kind(Line(s)) = Kind(s)
         /\ \A i \in DOMAIN Line(s) : Line(s)[i] # Newline /\ \E j \in DOMAIN s : Line(s)[i] = s[j]
<1> DEFINE M == Max(Ends(s))
           N == Len(s)
           a == Line(s)
<1>1. M \in 0 .. N /\ a = SubSeq(s, M + 1, N) /\ N \in Nat
  <2>1. M \in 0 .. N
    BY EndsIs
  <2>2. a = SubSeq(s, M + 1, N)
    BY EndsIs
  <2>3. N \in Nat
    OBVIOUS
  <2> QED BY <2>1, <2>2, <2>3
<1>2. M \in Ends(s) /\ \A y \in Ends(s) : M >= y
  <2>1. Ends(s) \subseteq 0 .. Len(s) /\ Ends(s) # {} /\ Len(s) \in Nat
    BY DEF Ends
  <2> QED BY <2>1, MaxExists
<1> HIDE DEF M, a
<1>3. a \in Seq(Int) /\ Len(a) = N - M /\ \A i \in 1 .. N - M : a[i] = s[M + i]
  <2>1. M \in Nat /\ M <= N
    BY <1>1
  <2> QED BY <1>1, <2>1
<1> HIDE DEF N
<1>4. \A i \in 1 .. N - M : M + i \in 1 .. N /\ M + i > M
  BY <1>1
<1>5. \A j \in 1 .. N : s[j] = Newline => j <= M
  <2>1. \A j \in 1 .. N : s[j] = Newline => j \in Ends(s)
    BY DEF Ends, N
  <2> QED BY <1>1, <1>2, <2>1
<1>6. \A i \in 1 .. N - M : a[i] # Newline /\ \E j \in 1 .. N : a[i] = s[j]
  <2> SUFFICES ASSUME NEW i \in 1 .. N - M PROVE a[i] # Newline /\ \E j \in 1 .. N : a[i] = s[j]
    OBVIOUS
  <2> DEFINE j == M + i
  <2>1. j \in 1 .. N /\ j > M /\ a[i] = s[j]
    BY <1>3, <1>4
  <2>2. ~ (j <= M)
    BY <2>1, <1>1
  <2> HIDE DEF j
  <2> QED BY <2>1, <2>2, <1>5
<1>7. Kind(a) = Kind(s)
  <2>1. CASE M = N /\ N = 0
    <3>1. a = <<>> /\ s = <<>>
      BY <1>3, <2>1 DEF N
    <3> QED BY <3>1
  <2>2. CASE M = N /\ N # 0
    <3>1. a = <<>>
      BY <1>1, <1>3, <2>2
    <3>2. s[N] = Newline /\ s # <<>>
      BY <1>1, <1>2, <2>2 DEF Ends, N
    <3> QED BY <3>1, <3>2 DEF Kind, KindOf, N
  <2>3. CASE M # N
    <3>1. N - M \in 1 .. N - M /\ M + (N - M) = N
      BY <1>1, <2>3
    <3>2. a[Len(a)] = s[N] /\ a # <<>> /\ s # <<>>
      <4>1. a[Len(a)] = s[N]
        BY <1>3, <3>1
      <4>2. Len(a) # 0 /\ Len(s) # 0
        BY <1>1, <1>3, <2>3 DEF N
      <4> QED BY <4>1, <4>2
    <3> QED BY <3>2 DEF Kind, N
  <2> QED BY <2>1, <2>2, <2>3
<1>8. DOMAIN a = 1 .. N - M /\ DOMAIN s = 1 .. N
  BY <1>3, <1>1 DEF N
<1> QED BY <1>6, <1>7, <1>8 DEF a

\* What a character adds to a text whose gaps are made one.
Tight(k, c) == IF c = Space THEN <<>> ELSE IF c # Newline /\ k = "space" THEN <<Space, c>> ELSE <<c>>

LEMMA SqueezedNone == Squeezed(<<>>) = <<>>
<1> DEFINE P(u, i) == IF u[i] = Space THEN <<>>
                      ELSE IF u[i] # Newline /\ i > 1 /\ u[i - 1] = Space THEN <<Space, u[i]>>
                      ELSE <<u[i]>>
           ss == [i \in DOMAIN <<>> |-> P(<<>>, i)]
<1>1. Squeezed(<<>>) = FlattenSeq(ss)
  BY DEF Squeezed
<1>2. ss = <<>>
  OBVIOUS
<1> HIDE DEF ss
<1> QED BY <1>1, <1>2, FlattenNone

LEMMA SqueezedIs ==
  ASSUME NEW s \in Seq(Int), NEW c \in Int
  PROVE  /\ Squeezed(s) \in Seq(Int)
         /\ Squeezed(Append(s, c)) = Squeezed(s) \o Tight(Kind(s), c)
<1> DEFINE P(u, i) == IF u[i] = Space THEN <<>>
                      ELSE IF u[i] # Newline /\ i > 1 /\ u[i - 1] = Space THEN <<Space, u[i]>>
                      ELSE <<u[i]>>
           ss(u) == [i \in DOMAIN u |-> P(u, i)]
           t == Append(s, c)
           N == Len(s)
<1>1. \A u : Squeezed(u) = FlattenSeq(ss(u))
  BY DEF Squeezed
<1>2. t \in Seq(Int) /\ Len(t) = N + 1 /\ (\A i \in 1 .. N : t[i] = s[i]) /\ t[N + 1] = c /\ N \in Nat
  BY AppendIs
<1> HIDE DEF t, N
<1>3. ASSUME NEW u \in Seq(Int), NEW i \in 1 .. Len(u) PROVE P(u, i) \in Seq(Int)
  <2>1. u[i] \in Int /\ Space \in Int
    BY DEF Space
  <2> DEFINE x == u[i]
  <2>2. x \in Int
    BY <2>1
  <2> HIDE DEF x
  <2>3. <<>> \in Seq(Int) /\ <<Space, x>> \in Seq(Int) /\ <<x>> \in Seq(Int)
    BY <2>1, <2>2
  <2> QED BY <2>3 DEF x
<1>4. ASSUME NEW u \in Seq(Int)
      PROVE  ss(u) \in Seq(Seq(Int)) /\ Len(ss(u)) = Len(u) /\ \A i \in 1 .. Len(u) : ss(u)[i] = P(u, i)
  <2>1. \A i \in 1 .. Len(u) : P(u, i) \in Seq(Int)
    BY <1>3
  <2> HIDE DEF P
  <2>2. DOMAIN u = 1 .. Len(u) /\ Len(u) \in Nat
    OBVIOUS
  <2> DEFINE f == ss(u)
  <2>3. f = [i \in 1 .. Len(u) |-> f[i]] /\ \A i \in 1 .. Len(u) : f[i] = P(u, i)
    BY <2>2
  <2> HIDE DEF f
  <2>4. f \in Seq(Seq(Int)) /\ Len(f) = Len(u)
    BY <2>1, <2>2, <2>3, ListIs
  <2> QED BY <2>3, <2>4 DEF f
<1>5. ss(s) \in Seq(Seq(Int)) /\ Len(ss(s)) = N /\ \A i \in 1 .. N : ss(s)[i] = P(s, i)
  BY <1>4 DEF N
<1>6. ss(t) \in Seq(Seq(Int)) /\ Len(ss(t)) = N + 1 /\ \A i \in 1 .. N + 1 : ss(t)[i] = P(t, i)
  BY <1>2, <1>4
<1>7. \A i \in 1 .. N : P(t, i) = P(s, i)
  <2> SUFFICES ASSUME NEW i \in 1 .. N PROVE P(t, i) = P(s, i)
    OBVIOUS
  <2>1. t[i] = s[i]
    BY <1>2
  <2>2. i > 1 => i - 1 \in 1 .. N
    BY <1>2
  <2>3. i > 1 => t[i - 1] = s[i - 1]
    BY <1>2, <2>2
  <2> QED BY <2>1, <2>3
<1>8. P(t, N + 1) = Tight(Kind(s), c)
  <2>1. t[N + 1] = c
    BY <1>2
  <2>2. (N + 1 > 1 /\ t[(N + 1) - 1] = Space) <=> Kind(s) = "space"
    <3>1. CASE N = 0
      <4>1. Kind(s) = "none"
        BY <3>1 DEF Kind, N
      <4> QED BY <3>1, <4>1
    <3>2. CASE N # 0
      <4>1. s # <<>> /\ N \in 1 .. N /\ (N + 1) - 1 = N /\ N + 1 > 1
        BY <1>2, <3>2 DEF N
      <4>2. t[(N + 1) - 1] = s[N]
        BY <1>2, <4>1
      <4>3. Kind(s) = KindOf(s[N])
        BY <4>1 DEF Kind, N
      <4>4. KindOf(s[N]) = "space" <=> s[N] = Space
        BY DEF KindOf, Space, Newline
      <4> QED BY <4>1, <4>2, <4>3, <4>4
    <3> QED BY <3>1, <3>2
  <2> QED BY <2>1, <2>2 DEF Tight
<1> HIDE DEF P, ss
<1>9. N + 1 \in 1 .. N + 1 /\ \A i \in 1 .. N : i \in 1 .. N + 1
  BY <1>2
<1>10. FlattenSeq(ss(t)) = FlattenSeq(ss(s)) \o ss(t)[N + 1]
  <2> DEFINE a == ss(s)
             b == ss(t)
  <2>1. a \in Seq(Seq(Int)) /\ b \in Seq(Seq(Int)) /\ Len(b) = Len(a) + 1 /\ Len(a) = N
        /\ \A i \in 1 .. Len(a) : b[i] = a[i]
    BY <1>5, <1>6, <1>7, <1>9
  <2> HIDE DEF a, b
  <2>2. FlattenSeq(b) = FlattenSeq(a) \o b[Len(a) + 1]
    BY <2>1, FlattenMore
  <2> QED BY <2>1, <2>2 DEF a, b
<1>11. ss(t)[N + 1] = Tight(Kind(s), c)
  BY <1>6, <1>8, <1>9
<1>12. Squeezed(s) \in Seq(Int)
  BY <1>1, <1>5, FlattenTyped
<1> QED BY <1>1, <1>10, <1>11, <1>12 DEF t

\* The codes a character adds to its line.
Coded == {c \in Int : HasMorse(c)} \union {Space}
Piece(k, c) ==
    IF c # Space THEN CodesOf(morse_table[c - 32]) \o <<2>>
    ELSE IF k = "none" THEN <<2, 2>> ELSE IF k = "space" THEN <<>> ELSE <<2>>

LEMMA MorseIs ==
  ASSUME NEW c \in Int, HasMorse(c)
  PROVE  /\ c \in 33 .. 122 /\ c - 32 \in 1 .. 90 /\ morse_table[c - 32] \in 2 .. 120
         /\ CodesOf(morse_table[c - 32]) \in Seq({0, 1}) /\ CodesOf(morse_table[c - 32]) # <<>>
         /\ c # Space /\ c # Newline /\ KindOf(c) = "letter"
<1>1. c \in 33 .. 122 /\ morse_table[c - 32] > 1
  BY DEF HasMorse
<1>2. c - 32 \in 1 .. 90
  BY <1>1
<1> DEFINE n == morse_table[c - 32]
<1>3. n \in 1 .. 120
  BY <1>2, MorseEntries
<1>4. n > 1
  BY <1>1
<1> HIDE DEF n
<1>5. n \in 2 .. 120 /\ n \in 0 .. 127
  BY <1>3, <1>4
<1>6. CodesOf(n) \in Seq({0, 1}) /\ CodesOf(n) # <<>>
  BY <1>4, <1>5, CodesTyped
<1>7. c # Space /\ c # Newline
  BY <1>1 DEF Space, Newline
<1> QED BY <1>1, <1>2, <1>5, <1>6, <1>7 DEF KindOf, n

LEMMA BitsAreCodes ==
  ASSUME NEW s \in Seq({0, 1})
  PROVE  s \in Seq(Int) /\ s \o <<2>> \in Seq(Int) /\ s \o <<2>> = Append(s, 2)
<1>1. s \in Seq(Int)
  OBVIOUS
<1>2. 2 \in Int
  OBVIOUS
<1>3. Append(s, 2) = s \o <<2>> /\ Append(s, 2) \in Seq(Int)
  BY <1>1, <1>2, AppendIs
<1> QED BY <1>1, <1>3

LEMMA PieceTyped ==
  ASSUME NEW k, NEW c \in Coded
  PROVE  Piece(k, c) \in Seq(Int)
<1>1. CASE c # Space
  <2>1. CodesOf(morse_table[c - 32]) \in Seq({0, 1})
    BY <1>1, MorseIs DEF Coded
  <2> QED BY <2>1, <1>1, BitsAreCodes DEF Piece
<1>2. CASE c = Space
  <2>1. <<2, 2>> \in Seq(Int) /\ <<>> \in Seq(Int) /\ <<2>> \in Seq(Int)
    OBVIOUS
  <2> QED BY <1>2, <2>1 DEF Piece
<1> QED BY <1>1, <1>2

LEMMA StreamNone == Stream(<<>>) = <<>>
<1> DEFINE P(s, i) == IF s[i] # Space THEN CodesOf(morse_table[s[i] - 32]) \o <<2>>
                      ELSE IF i = 1 THEN <<2, 2>> ELSE IF s[i - 1] = Space THEN <<>> ELSE <<2>>
           ss == [i \in DOMAIN <<>> |-> P(<<>>, i)]
<1>1. Stream(<<>>) = FlattenSeq(ss)
  BY DEF Stream
<1>2. ss = <<>>
  OBVIOUS
<1> HIDE DEF ss
<1> QED BY <1>1, <1>2, FlattenNone

LEMMA StreamIs ==
  ASSUME NEW s \in Seq(Coded), NEW c \in Coded
  PROVE  /\ Stream(s) \in Seq(Int)
         /\ Stream(Append(s, c)) = Stream(s) \o Piece(Kind(s), c)
<1> DEFINE P(u, i) == IF u[i] # Space THEN CodesOf(morse_table[u[i] - 32]) \o <<2>>
                      ELSE IF i = 1 THEN <<2, 2>> ELSE IF u[i - 1] = Space THEN <<>> ELSE <<2>>
           ss(u) == [i \in DOMAIN u |-> P(u, i)]
           t == Append(s, c)
           N == Len(s)
<1>1. \A u : Stream(u) = FlattenSeq(ss(u))
  BY DEF Stream
<1>2. t \in Seq(Coded) /\ Len(t) = N + 1 /\ (\A i \in 1 .. N : t[i] = s[i]) /\ t[N + 1] = c /\ N \in Nat
  BY AppendIs
<1> HIDE DEF t, N
<1>3. ASSUME NEW u \in Seq(Coded), NEW i \in 1 .. Len(u) PROVE P(u, i) \in Seq(Int)
  <2>1. u[i] \in Coded
    OBVIOUS
  <2>2. \A k : Piece(k, u[i]) \in Seq(Int)
    BY <2>1, PieceTyped
  <2>3. \E k : P(u, i) = Piece(k, u[i])
    <3>1. P(u, i) = Piece(IF i = 1 THEN "none" ELSE IF u[i - 1] = Space THEN "space" ELSE "letter", u[i])
      BY DEF Piece
    <3> QED BY <3>1
  <2> QED BY <2>2, <2>3
<1>4. ASSUME NEW u \in Seq(Coded)
      PROVE  ss(u) \in Seq(Seq(Int)) /\ Len(ss(u)) = Len(u) /\ \A i \in 1 .. Len(u) : ss(u)[i] = P(u, i)
  <2>1. \A i \in 1 .. Len(u) : P(u, i) \in Seq(Int)
    BY <1>3
  <2> HIDE DEF P
  <2>2. DOMAIN u = 1 .. Len(u) /\ Len(u) \in Nat
    OBVIOUS
  <2> DEFINE f == ss(u)
  <2>3. f = [i \in 1 .. Len(u) |-> f[i]] /\ \A i \in 1 .. Len(u) : f[i] = P(u, i)
    BY <2>2
  <2> HIDE DEF f
  <2>4. f \in Seq(Seq(Int)) /\ Len(f) = Len(u)
    BY <2>1, <2>2, <2>3, ListIs
  <2> QED BY <2>3, <2>4 DEF f
<1>5. ss(s) \in Seq(Seq(Int)) /\ Len(ss(s)) = N /\ \A i \in 1 .. N : ss(s)[i] = P(s, i)
  BY <1>4 DEF N
<1>6. ss(t) \in Seq(Seq(Int)) /\ Len(ss(t)) = N + 1 /\ \A i \in 1 .. N + 1 : ss(t)[i] = P(t, i)
  BY <1>2, <1>4
<1>7. \A i \in 1 .. N : P(t, i) = P(s, i)
  <2> SUFFICES ASSUME NEW i \in 1 .. N PROVE P(t, i) = P(s, i)
    OBVIOUS
  <2>1. t[i] = s[i]
    BY <1>2
  <2>2. i # 1 => i - 1 \in 1 .. N
    BY <1>2
  <2>3. i # 1 => t[i - 1] = s[i - 1]
    BY <1>2, <2>2
  <2> QED BY <2>1, <2>3
<1>8. P(t, N + 1) = Piece(Kind(s), c)
  <2>1. t[N + 1] = c
    BY <1>2
  <2>2. (N + 1 = 1 <=> Kind(s) = "none") /\ (N + 1 # 1 => (t[(N + 1) - 1] = Space <=> Kind(s) = "space"))
    <3>1. CASE N = 0
      <4>1. Kind(s) = "none"
        BY <3>1 DEF Kind, N
      <4> QED BY <3>1, <4>1
    <3>2. CASE N # 0
      <4>1. s # <<>> /\ N \in 1 .. N /\ (N + 1) - 1 = N /\ N + 1 # 1
        BY <1>2, <3>2 DEF N
      <4>2. t[(N + 1) - 1] = s[N] /\ s[N] \in Coded
        BY <1>2, <4>1 DEF N
      <4>3. Kind(s) = KindOf(s[N])
        BY <4>1 DEF Kind, N
      <4>4. (KindOf(s[N]) = "space" <=> s[N] = Space) /\ KindOf(s[N]) # "none"
        <5>1. CASE s[N] = Space
          BY <5>1 DEF KindOf, Space, Newline
        <5>2. CASE s[N] # Space
          <6>1. KindOf(s[N]) = "letter"
            BY <5>2, <4>2, MorseIs DEF Coded
          <6> QED BY <5>2, <6>1
        <5> QED BY <5>1, <5>2
      <4> QED BY <4>1, <4>2, <4>3, <4>4
    <3> QED BY <3>1, <3>2
  <2> QED BY <2>1, <2>2 DEF Piece
<1> HIDE DEF P, ss
<1>9. N + 1 \in 1 .. N + 1 /\ \A i \in 1 .. N : i \in 1 .. N + 1
  BY <1>2
<1>10. FlattenSeq(ss(t)) = FlattenSeq(ss(s)) \o ss(t)[N + 1]
  <2> DEFINE a == ss(s)
             b == ss(t)
  <2>1. a \in Seq(Seq(Int)) /\ b \in Seq(Seq(Int)) /\ Len(b) = Len(a) + 1 /\ Len(a) = N
        /\ \A i \in 1 .. Len(a) : b[i] = a[i]
    BY <1>5, <1>6, <1>7, <1>9
  <2> HIDE DEF a, b
  <2>2. FlattenSeq(b) = FlattenSeq(a) \o b[Len(a) + 1]
    BY <2>1, FlattenMore
  <2> QED BY <2>1, <2>2 DEF a, b
<1>11. ss(t)[N + 1] = Piece(Kind(s), c)
  BY <1>6, <1>8, <1>9
<1>12. Stream(s) \in Seq(Int)
  BY <1>1, <1>5, FlattenTyped
<1> QED BY <1>1, <1>10, <1>11, <1>12 DEF t

\* The codes of printed letters.
Triples(p) == FlattenSeq([i \in DOMAIN p |-> fractionated_table(Place(p[i]))])

LEMMA TriplesIs ==
  ASSUME Keyed, NEW s \in Seq(Range(table)), NEW c \in Range(table)
  PROVE  /\ Triples(s) \in Seq(Int) /\ Triples(<<>>) = <<>>
         /\ Triples(Append(s, c)) = Triples(s) \o fractionated_table(Place(c))
<1> DEFINE P(x) == fractionated_table(Place(x))
           ss(u) == [i \in DOMAIN u |-> P(u[i])]
           t == Append(s, c)
           N == Len(s)
           R == Range(table)
<1>1. \A u : Triples(u) = FlattenSeq(ss(u))
  BY DEF Triples
<1>3. ASSUME NEW x \in R PROVE P(x) \in Seq(Int)
  <2> DEFINE i == Place(x)
  <2>1. i \in Nat
    BY PlaceIs
  <2> HIDE DEF i
  <2>2. i \div 9 \in Int /\ (i \div 3) % 3 \in Int /\ i % 3 \in Int
    BY <2>1
  <2>3. P(x) = <<i \div 9, (i \div 3) % 3, i % 3>>
    BY DEF fractionated_table, i
  <2> DEFINE a == i \div 9
             b == (i \div 3) % 3
             d == i % 3
  <2>4. a \in Int /\ b \in Int /\ d \in Int /\ P(x) = <<a, b, d>>
    BY <2>2, <2>3
  <2> HIDE DEF a, b, d
  <2>5. <<a, b, d>> \in Seq(Int)
    BY <2>4
  <2> QED BY <2>4, <2>5
<1> HIDE DEF P, R
<1>2. t \in Seq(R) /\ Len(t) = N + 1 /\ (\A i \in 1 .. N : t[i] = s[i]) /\ t[N + 1] = c /\ N \in Nat
      /\ s \in Seq(R) /\ c \in R
  BY AppendIs DEF R
<1> HIDE DEF t, N
<1>4. ASSUME NEW u \in Seq(R)
      PROVE  ss(u) \in Seq(Seq(Int)) /\ Len(ss(u)) = Len(u) /\ \A i \in 1 .. Len(u) : ss(u)[i] = P(u[i])
  <2>0. \A i \in 1 .. Len(u) : u[i] \in R
    OBVIOUS
  <2>1. \A i \in 1 .. Len(u) : P(u[i]) \in Seq(Int)
    BY <2>0, <1>3
  <2>2. DOMAIN u = 1 .. Len(u) /\ Len(u) \in Nat
    OBVIOUS
  <2> DEFINE f == ss(u)
  <2>3. f = [i \in 1 .. Len(u) |-> f[i]] /\ \A i \in 1 .. Len(u) : f[i] = P(u[i])
    BY <2>2
  <2> HIDE DEF f
  <2>4. f \in Seq(Seq(Int)) /\ Len(f) = Len(u)
    BY <2>1, <2>2, <2>3, ListIs
  <2> QED BY <2>3, <2>4 DEF f
<1>5. ss(s) \in Seq(Seq(Int)) /\ Len(ss(s)) = N /\ \A i \in 1 .. N : ss(s)[i] = P(s[i])
  BY <1>2, <1>4 DEF N
<1>6. ss(t) \in Seq(Seq(Int)) /\ Len(ss(t)) = N + 1 /\ \A i \in 1 .. N + 1 : ss(t)[i] = P(t[i])
  BY <1>2, <1>4
<1>13. Triples(<<>>) = <<>>
  <2>1. ss(<<>>) = <<>>
    OBVIOUS
  <2> HIDE DEF ss
  <2> QED BY <1>1, <2>1, FlattenNone
<1> HIDE DEF ss
<1>9. N + 1 \in 1 .. N + 1 /\ \A i \in 1 .. N : i \in 1 .. N + 1
  BY <1>2
<1>10. FlattenSeq(ss(t)) = FlattenSeq(ss(s)) \o ss(t)[N + 1]
  <2> DEFINE a == ss(s)
             b == ss(t)
  <2>1. a \in Seq(Seq(Int)) /\ b \in Seq(Seq(Int)) /\ Len(b) = Len(a) + 1 /\ Len(a) = N
        /\ \A i \in 1 .. Len(a) : b[i] = a[i]
    BY <1>2, <1>5, <1>6, <1>9
  <2> HIDE DEF a, b
  <2>2. FlattenSeq(b) = FlattenSeq(a) \o b[Len(a) + 1]
    BY <2>1, FlattenMore
  <2> QED BY <2>1, <2>2 DEF a, b
<1>11. ss(t)[N + 1] = P(c)
  BY <1>2, <1>6, <1>9
<1>12. Triples(s) \in Seq(Int)
  BY <1>1, <1>5, FlattenTyped
<1> QED BY <1>1, <1>10, <1>11, <1>12, <1>13 DEF t, P

-----------------------------------------------------------------------------
(* The three slots                                                         *)

\* What the slots hold after a character of kind k.  The last code given is an x;
\* when two wait, the first of them is one as well only after a space.
Filled(r) == \A i \in 1 .. r.curPosit : r.posit[i] \in 0 .. 2

Slots(r, k) ==
    /\ Filled(r)
    /\ r.checkAlreadySpace <=> k = "space"
    /\ k = "none" => r.posit = <<3, 3, 3>> /\ r.curPosit = 0
    /\ k # "none" => /\ r.posit[1] # 3
                     /\ r.curPosit = 1 => r.posit[1] = 2
                     /\ r.curPosit = 2 => r.posit[2] = 2 /\ (r.posit[1] = 2 <=> k = "space")

Alike(a, b) == a.posit = b.posit /\ a.curPosit = b.curPosit /\ a.out = b.out

\* A code that is given to slots none of which is empty, and no third x.
Full(r, code, q) ==
    /\ r \in Machines /\ Gives(r, code, q) /\ code \in 0 .. 2 /\ Filled(r)
    /\ r.curPosit = 2 => ~ (r.posit[1] = 2 /\ r.posit[2] = 2 /\ code = 2)

Given(r, codes, q) ==
    \E g \in [0 .. Len(codes) -> Machines] :
       /\ Alike(g[0], r) /\ Alike(q, g[Len(codes)])
       /\ \A n \in 1 .. Len(codes) : Full(g[n - 1], codes[n], g[n])

LEMMA FullIs ==
  ASSUME NEW r, NEW code, NEW q, Full(r, code, q)
  PROVE  /\ q \in Machines /\ q.status = r.status /\ q.checkAlreadySpace = r.checkAlreadySpace
         /\ r.curPosit = 0 => q.curPosit = 1 /\ q.posit[1] = code
         /\ r.curPosit = 1 => q.curPosit = 2 /\ q.posit[1] = r.posit[1] /\ q.posit[2] = code
         /\ r.curPosit = 2 => q.curPosit = 0 /\ q.posit[1] = r.posit[1] /\ q.posit[2] = r.posit[2]
                              /\ q.posit[3] = code
         /\ Filled(q) /\ q.posit[1] # 3 /\ r.curPosit \in 0 .. 2
<1>1. q \in Machines /\ q.status = r.status /\ q.checkAlreadySpace = r.checkAlreadySpace
      /\ q.posit = [r.posit EXCEPT ![r.curPosit + 1] = code] /\ q.curPosit = (r.curPosit + 1) % 3
      /\ code \in 0 .. 2 /\ Filled(r)
  BY DEF Full, Gives, Stored
<1>2. r.posit \in [1 .. 3 -> 0 .. 3] /\ r.curPosit \in 0 .. 2
  BY DEF Full, Machines
<1> DEFINE p == r.posit
           p2 == q.posit
           k == r.curPosit
           k2 == q.curPosit
<1>3. p \in [1 .. 3 -> 0 .. 3] /\ k \in 0 .. 2 /\ p2 = [p EXCEPT ![k + 1] = code] /\ k2 = (k + 1) % 3
      /\ \A i \in 1 .. k : p[i] \in 0 .. 2
  BY <1>1, <1>2 DEF Filled
<1> HIDE DEF p, p2, k, k2
<1>4. CASE k = 0
  <2>1. k2 = 1 /\ p2[1] = code
    BY <1>3, <1>4
  <2>2. \A i \in 1 .. k2 : i = 1
    BY <2>1
  <2>3. \A i \in 1 .. k2 : p2[i] \in 0 .. 2
    BY <1>1, <2>1, <2>2
  <2>4. p2[1] # 3
    BY <2>1, <1>1
  <2> QED BY <1>1, <1>3, <1>4, <2>1, <2>3, <2>4 DEF Filled, p, p2, k, k2
<1>5. CASE k = 1
  <2>1. k2 = 2 /\ p2[2] = code /\ p2[1] = p[1]
    BY <1>3, <1>5
  <2>2. \A i \in 1 .. k2 : i = 1 \/ i = 2
    BY <2>1
  <2>5. p[1] \in 0 .. 2
    BY <1>3, <1>5
  <2>3. \A i \in 1 .. k2 : p2[i] \in 0 .. 2
    BY <1>1, <2>1, <2>2, <2>5
  <2>4. p2[1] # 3
    BY <2>1, <2>5
  <2> QED BY <1>1, <1>3, <1>5, <2>1, <2>3, <2>4 DEF Filled, p, p2, k, k2
<1>6. CASE k = 2
  <2>1. k2 = 0 /\ p2[2] = p[2] /\ p2[1] = p[1] /\ p2[3] = code
    BY <1>3, <1>6
  <2>2. \A i \in 1 .. k2 : p2[i] \in 0 .. 2
    BY <2>1
  <2>5. p[1] \in 0 .. 2
    BY <1>3, <1>6
  <2>4. p2[1] # 3
    BY <2>1, <2>5
  <2> QED BY <1>1, <1>3, <1>6, <2>1, <2>2, <2>4 DEF Filled, p, p2, k, k2
<1> QED BY <1>3, <1>4, <1>5, <1>6

LEMMA GivenMore ==
  ASSUME NEW r, NEW codes \in Seq(Int), NEW g \in [0 .. Len(codes) -> Machines], Alike(g[0], r),
         \A n \in 1 .. Len(codes) : Full(g[n - 1], codes[n], g[n]),
         NEW x \in Int, NEW p, Full(g[Len(codes)], x, p), NEW q, Alike(q, p)
  PROVE  Given(r, Append(codes, x), q)
<1> DEFINE L == Len(codes)
           t == Append(codes, x)
           h == [n \in 0 .. L + 1 |-> IF n <= L THEN g[n] ELSE p]
<1>1. t \in Seq(Int) /\ Len(t) = L + 1 /\ (\A i \in 1 .. L : t[i] = codes[i]) /\ t[L + 1] = x /\ L \in Nat
  BY AppendIs
<1>2. p \in Machines
  BY FullIs
<1> HIDE DEF t, L
<1>3. h \in [0 .. L + 1 -> Machines]
  <2>1. \A n \in 0 .. L + 1 : n <= L => n \in 0 .. L
    BY <1>1
  <2>2. \A n \in 0 .. L : g[n] \in Machines
    BY DEF L
  <2> QED BY <1>2, <2>1, <2>2
<1>4. \A n \in 0 .. L : h[n] = g[n]
  BY <1>1
<1>5. h[L + 1] = p
  BY <1>1
<1> HIDE DEF h
<1>6. \A n \in 1 .. L + 1 : Full(h[n - 1], t[n], h[n])
  <2> SUFFICES ASSUME NEW n \in 1 .. L + 1 PROVE Full(h[n - 1], t[n], h[n])
    OBVIOUS
  <2>1. CASE n = L + 1
    <3>1. n - 1 = L /\ L \in 0 .. L
      BY <1>1, <2>1
    <3>2. h[n - 1] = g[L] /\ t[n] = x /\ h[n] = p
      BY <1>1, <1>4, <1>5, <2>1, <3>1
    <3> QED BY <3>2 DEF L
  <2>2. CASE n # L + 1
    <3>1. n \in 1 .. L /\ n - 1 \in 0 .. L /\ n \in 0 .. L
      BY <1>1, <2>2
    <3>2. h[n - 1] = g[n - 1] /\ t[n] = codes[n] /\ h[n] = g[n]
      BY <1>1, <1>4, <3>1
    <3>3. Full(g[n - 1], codes[n], g[n])
      BY <3>1 DEF L
    <3> QED BY <3>2, <3>3
  <2> QED BY <2>1, <2>2
<1>7. 0 \in 0 .. L
  BY <1>1
<1>8. Alike(h[0], r)
  BY <1>4, <1>7
<1>9. Given(r, t, q)
  BY <1>1, <1>3, <1>5, <1>6, <1>8 DEF Given
<1> QED BY <1>9 DEF t

\* A letter fills the slots with the codes of its entry and an x.
LEMMA LetterGiven ==
  ASSUME NEW r \in Machines, NEW k, Slots(r, k), NEW n, CodesOf(n) \in Seq({0, 1}), CodesOf(n) # <<>>,
         NEW q, Lettered(r, n, q)
  PROVE  q \in Machines /\ q.status = r.status /\ Given(r, CodesOf(n) \o <<2>>, q) /\ Slots(q, "letter")
<1> DEFINE codes == CodesOf(n)
           L == Len(codes)
<1>1. PICK a, g :
        /\ a \in Machines /\ a.status = r.status /\ a.checkAlreadySpace = FALSE
        /\ a.posit = r.posit /\ a.curPosit = r.curPosit /\ a.out = r.out
        /\ g \in [0 .. L -> Machines] /\ g[0] = a
        /\ \A i \in 1 .. L : Gives(g[i - 1], codes[i], g[i])
        /\ Gives(g[L], 2, q)
  BY DEF Lettered
<1> HIDE DEF codes
<1>2. codes \in Seq({0, 1}) /\ codes # <<>>
  BY DEF codes
<1>3. L \in Nat /\ L # 0 /\ \A i \in 1 .. L : codes[i] \in {0, 1}
  BY <1>2
<1> DEFINE Fine(p) == /\ p.status = r.status /\ p.checkAlreadySpace = FALSE /\ Filled(p)
           Bit(p) == /\ p.posit[1] # 3
                     /\ p.curPosit = 1 => p.posit[1] # 2
                     /\ p.curPosit = 2 => p.posit[2] # 2
           D == {i \in 0 .. L : Fine(g[i]) /\ (i > 0 => Bit(g[i]) /\ Full(g[i - 1], codes[i], g[i]))}
<1> HIDE DEF L
<1>4. 0 \in D
  <2>1. Fine(g[0])
    BY <1>1 DEF Slots, Filled
  <2>2. 0 \in 0 .. L /\ ~ (0 > 0)
    BY <1>3
  <2> HIDE DEF Fine, Bit
  <2> QED BY <2>1, <2>2
<1>5. ASSUME NEW i \in 0 .. L, i \in D, i < L PROVE i + 1 \in D
  <2> DEFINE p == g[i]
             s == g[i + 1]
             b == codes[i + 1]
  <2>1. i + 1 \in 1 .. L /\ i + 1 \in 0 .. L /\ (i + 1) - 1 = i /\ i + 1 > 0
    BY <1>3, <1>5
  <2>2. Gives(p, b, s) /\ b \in {0, 1} /\ p \in Machines /\ Fine(p)
    <3>1. Gives(g[(i + 1) - 1], codes[i + 1], g[i + 1])
      BY <1>1, <2>1
    <3> QED BY <1>1, <1>3, <1>5, <2>1, <3>1
  <2> HIDE DEF p, s, b, D
  <2>3. Full(p, b, s)
    <3>1. b \in 0 .. 2 /\ b # 2
      BY <2>2
    <3> QED BY <2>2, <3>1 DEF Full
  <2>4. Fine(s) /\ Bit(s)
    <3>1. b # 2
      BY <2>2
    <3>2. s.status = p.status /\ s.checkAlreadySpace = p.checkAlreadySpace /\ Filled(s) /\ s.posit[1] # 3
      BY <2>3, FullIs
    <3>3. p.curPosit = 0 => s.curPosit = 1 /\ s.posit[1] = b
      BY <2>3, FullIs
    <3>4. p.curPosit = 1 => s.curPosit = 2 /\ s.posit[2] = b
      BY <2>3, FullIs
    <3>5. p.curPosit = 2 => s.curPosit = 0
      BY <2>3, FullIs
    <3>6. p.curPosit = 0 \/ p.curPosit = 1 \/ p.curPosit = 2
      BY <2>2 DEF Machines
    <3> QED BY <2>2, <3>1, <3>2, <3>3, <3>4, <3>5, <3>6
  <2>5. i + 1 > 0 => Bit(g[i + 1]) /\ Full(g[(i + 1) - 1], codes[i + 1], g[i + 1])
    BY <2>1, <2>3, <2>4 DEF p, s, b
  <2>6. Fine(g[i + 1])
    BY <2>4 DEF s
  <2> HIDE DEF Fine, Bit
  <2> QED BY <2>1, <2>5, <2>6 DEF D
<1> HIDE DEF D
<1>6. 0 .. L \subseteq D
  BY <1>3, <1>4, <1>5, UpTo
<1>7. Fine(g[L]) /\ Bit(g[L]) /\ g[L] \in Machines
  <2>1. L \in 0 .. L /\ L > 0
    BY <1>3
  <2> HIDE DEF Fine, Bit
  <2>2. L \in D
    BY <2>1, <1>6
  <2> QED BY <2>1, <2>2, <1>1 DEF D
<1>8. \A i \in 1 .. L : Full(g[i - 1], codes[i], g[i])
  <2>1. \A i \in 1 .. L : i \in 0 .. L /\ i > 0
    BY <1>3
  <2> HIDE DEF Fine, Bit
  <2> QED BY <2>1, <1>6 DEF D
<1> DEFINE p == g[L]
<1>9. Full(p, 2, q)
  <2>1. p \in Machines /\ Filled(p) /\ Gives(p, 2, q) /\ (p.curPosit = 2 => p.posit[2] # 2) /\ 2 \in 0 .. 2
    BY <1>1, <1>7
  <2> QED BY <2>1 DEF Full
<1>10. p.status = r.status /\ p.checkAlreadySpace = FALSE /\ p.posit[1] # 3
       /\ (p.curPosit = 1 => p.posit[1] # 2)
  BY <1>7
<1> HIDE DEF p
<1>11. q \in Machines /\ q.status = r.status /\ q.checkAlreadySpace = FALSE
  BY <1>9, <1>10, FullIs
<1>12. Slots(q, "letter")
  <2>1. Filled(q) /\ q.posit[1] # 3 /\ p.curPosit \in 0 .. 2
    BY <1>9, FullIs
  <2>2. p.curPosit = 0 => q.curPosit = 1 /\ q.posit[1] = 2
    BY <1>9, FullIs
  <2>3. p.curPosit = 1 => q.curPosit = 2 /\ q.posit[1] = p.posit[1] /\ q.posit[2] = 2
    BY <1>9, FullIs
  <2>4. p.curPosit = 2 => q.curPosit = 0
    BY <1>9, FullIs
  <2>5. p.curPosit = 0 \/ p.curPosit = 1 \/ p.curPosit = 2
    BY <2>1
  <2> QED BY <1>10, <1>11, <2>1, <2>2, <2>3, <2>4, <2>5 DEF Slots
<1>13. Given(r, codes \o <<2>>, q)
  <2>1. codes \in Seq(Int) /\ codes \o <<2>> = Append(codes, 2)
    BY <1>2, BitsAreCodes
  <2>2. Alike(g[0], r) /\ Alike(q, q) /\ 2 \in Int
    BY <1>1 DEF Alike
  <2>3. g \in [0 .. Len(codes) -> Machines] /\ Full(g[Len(codes)], 2, q)
        /\ \A i \in 1 .. Len(codes) : Full(g[i - 1], codes[i], g[i])
    BY <1>1, <1>8, <1>9 DEF p, L
  <2>4. Given(r, Append(codes, 2), q)
    BY <2>1, <2>2, <2>3, GivenMore
  <2> QED BY <2>1, <2>4
<1> QED BY <1>11, <1>12, <1>13 DEF codes

LEMMA GivenNone ==
  ASSUME NEW r \in Machines
  PROVE  Given(r, <<>>, r)
<1> DEFINE g == [n \in 0 .. 0 |-> r]
<1>1. g \in [0 .. 0 -> Machines] /\ g[0] = r
  OBVIOUS
<1> DEFINE e == <<>>
<1>2. Len(e) = 0
  OBVIOUS
<1>3. \A n \in 1 .. 0 : FALSE
  OBVIOUS
<1> HIDE DEF g, e
<1>4. Given(r, e, r)
  BY <1>1, <1>2, <1>3 DEF Given, Alike
<1> QED BY <1>4 DEF e

LEMMA GivenOne ==
  ASSUME NEW r, NEW x \in Int, NEW p, Full(r, x, p), NEW q, Alike(q, p)
  PROVE  Given(r, <<x>>, q)
<1> DEFINE g == [n \in 0 .. 0 |-> r]
           e == <<>>
<1>0. r \in Machines
  BY DEF Full
<1>1. g \in [0 .. 0 -> Machines] /\ g[0] = r
  BY <1>0
<1>2. e \in Seq(Int) /\ Len(e) = 0 /\ \A n \in 1 .. 0 : FALSE
  OBVIOUS
<1>3. Append(e, x) = <<x>>
  OBVIOUS
<1> HIDE DEF g, e
<1>4. Given(r, Append(e, x), q)
  <2>1. g \in [0 .. Len(e) -> Machines] /\ Alike(g[0], r) /\ Full(g[Len(e)], x, p)
    BY <1>1, <1>2 DEF Alike
  <2>2. \A n \in 1 .. Len(e) : Full(g[n - 1], e[n], g[n])
    BY <1>2
  <2> QED BY <1>2, <2>1, <2>2, GivenMore
<1> QED BY <1>3, <1>4

LEMMA GivenTwo ==
  ASSUME NEW r, NEW x \in Int, NEW y \in Int, NEW a, Full(r, x, a), NEW b, Full(a, y, b), NEW q, Alike(q, b)
  PROVE  Given(r, <<x, y>>, q)
<1> DEFINE g == [n \in 0 .. 1 |-> IF n = 0 THEN r ELSE a]
           e == <<x>>
<1>0. r \in Machines /\ a \in Machines
  BY DEF Full
<1>1. g \in [0 .. 1 -> Machines] /\ g[0] = r /\ g[1] = a
  BY <1>0
<1>2. e \in Seq(Int) /\ Len(e) = 1 /\ e[1] = x
  OBVIOUS
<1>5. \A n \in 1 .. 1 : n = 1 /\ n - 1 = 0
  OBVIOUS
<1>3. Append(e, y) = <<x, y>>
  <2> DEFINE f == <<x, y>>
             h == Append(e, y)
  <2>1. f \in Seq(Int) /\ Len(f) = 2 /\ f[1] = x /\ f[2] = y
    OBVIOUS
  <2> HIDE DEF f, e
  <2>0. e \in Seq(Int)
    BY <1>2
  <2>2. h \in Seq(Int) /\ Len(h) = Len(e) + 1 /\ (\A i \in 1 .. Len(e) : h[i] = e[i]) /\ h[Len(e) + 1] = y
    BY <2>0, AppendIs
  <2> HIDE DEF h
  <2>3. Len(h) = 2 /\ h[1] = x /\ h[2] = y
    BY <1>2, <2>2
  <2>4. \A i \in 1 .. 2 : i = 1 \/ i = 2
    OBVIOUS
  <2>5. \A i \in 1 .. Len(h) : h[i] = f[i]
    BY <2>1, <2>3, <2>4
  <2>6. h = f
    BY <2>1, <2>2, <2>3, <2>5, SeqEqual
  <2> QED BY <2>6 DEF h, f
<1> HIDE DEF g, e
<1>4. Given(r, Append(e, y), q)
  <2>1. g \in [0 .. Len(e) -> Machines] /\ Alike(g[0], r) /\ Full(g[Len(e)], y, b)
    BY <1>1, <1>2 DEF Alike
  <2>2. \A n \in 1 .. Len(e) : Full(g[n - 1], e[n], g[n])
    BY <1>1, <1>2, <1>5
  <2> QED BY <1>2, <2>1, <2>2, GivenMore
<1> QED BY <1>3, <1>4

\* A space: nothing after another, two x at the head of a line, else one.
LEMMA SpaceGiven ==
  ASSUME NEW r \in Machines, NEW k \in {"none", "space", "letter"}, Slots(r, k), NEW q, Spaced(r, q)
  PROVE  q \in Machines /\ Given(r, Piece(k, Space), q) /\ Slots(q, "space")
<1>1. PICK a, b :
        /\ a \in Machines /\ a.checkAlreadySpace = r.checkAlreadySpace /\ a.status = r.status /\ a.out = r.out
        /\ IF isSpaceAhead(r) THEN Stored(r, 2, a) ELSE a = r
        /\ IF r.checkAlreadySpace THEN q = a
           ELSE /\ Gives(a, 2, b)
                /\ q \in Machines /\ q.status = b.status /\ q.posit = b.posit /\ q.curPosit = b.curPosit
                /\ q.out = b.out /\ q.checkAlreadySpace = TRUE
  BY DEF Spaced
<1>0. 2 \in 0 .. 2 /\ 2 \in Int
  OBVIOUS
<1>2. CASE k = "space"
  <2>1. r.checkAlreadySpace /\ r.posit[1] # 3
    BY <1>2 DEF Slots
  <2>2. ~ isSpaceAhead(r)
    BY <2>1 DEF isSpaceAhead
  <2>3. q = r
    BY <1>1, <2>1, <2>2
  <2>4. Piece(k, Space) = <<>>
    BY <1>2 DEF Piece
  <2> QED BY <1>2, <2>3, <2>4, GivenNone
<1>3. CASE k = "letter"
  <2>1. ~ r.checkAlreadySpace /\ r.posit[1] # 3 /\ (r.curPosit = 2 => r.posit[1] # 2) /\ Filled(r)
        /\ (r.curPosit = 1 => r.posit[1] = 2)
    BY <1>3 DEF Slots
  <2>2. ~ isSpaceAhead(r)
    BY <2>1 DEF isSpaceAhead
  <2>3. Gives(r, 2, b) /\ Alike(q, b) /\ q \in Machines /\ q.checkAlreadySpace = TRUE
    BY <1>1, <2>1, <2>2 DEF Alike
  <2>4. Full(r, 2, b)
    BY <1>0, <2>1, <2>3 DEF Full
  <2>5. Given(r, <<2>>, q)
    BY <1>0, <2>3, <2>4, GivenOne
  <2>6. Piece(k, Space) = <<2>>
    BY <1>3 DEF Piece
  <2>7. Slots(q, "space")
    <3>1. Filled(b) /\ b.posit[1] # 3 /\ r.curPosit \in 0 .. 2
      BY <2>4, FullIs
    <3>2. r.curPosit = 0 => b.curPosit = 1 /\ b.posit[1] = 2
      BY <2>4, FullIs
    <3>3. r.curPosit = 1 => b.curPosit = 2 /\ b.posit[1] = r.posit[1] /\ b.posit[2] = 2
      BY <2>4, FullIs
    <3>4. r.curPosit = 2 => b.curPosit = 0
      BY <2>4, FullIs
    <3>5. r.curPosit = 0 \/ r.curPosit = 1 \/ r.curPosit = 2
      BY <3>1
    <3> QED BY <2>1, <2>3, <3>1, <3>2, <3>3, <3>4, <3>5 DEF Slots, Alike, Filled
  <2> QED BY <2>3, <2>5, <2>6, <2>7
<1>4. CASE k = "none"
  <2>1. ~ r.checkAlreadySpace /\ r.posit = <<3, 3, 3>> /\ r.curPosit = 0 /\ Filled(r)
    BY <1>4 DEF Slots
  <2>2. isSpaceAhead(r)
    BY <2>1 DEF isSpaceAhead
  <2>3. Stored(r, 2, a) /\ Gives(a, 2, b) /\ Alike(q, b) /\ q \in Machines /\ q.checkAlreadySpace = TRUE
    BY <1>1, <2>1, <2>2 DEF Alike
  <2>4. Full(r, 2, a)
    BY <1>0, <1>1, <2>1, <2>3 DEF Full, Gives
  <2>5. a.curPosit = 1 /\ a.posit[1] = 2 /\ Filled(a)
    BY <2>1, <2>4, FullIs
  <2>6. Full(a, 2, b)
    BY <1>0, <1>1, <2>3, <2>5 DEF Full
  <2>7. b.curPosit = 2 /\ b.posit[1] = 2 /\ b.posit[2] = 2 /\ Filled(b)
    BY <2>5, <2>6, FullIs
  <2>8. Given(r, <<2, 2>>, q)
    BY <1>0, <2>3, <2>4, <2>6, GivenTwo
  <2>9. Piece(k, Space) = <<2, 2>>
    BY <1>4 DEF Piece
  <2>10. Slots(q, "space")
    BY <2>3, <2>7 DEF Slots, Alike, Filled
  <2> QED BY <2>3, <2>8, <2>9, <2>10
<1> QED BY <1>2, <1>3, <1>4

-----------------------------------------------------------------------------
(* The letters printed for a line, and the codes that wait                 *)

Codes(r) == Triples(Line(r.out)) \o SubSeq(r.posit, 1, r.curPosit)

\* Letters of the key, and the ends of lines.
Printable(s) == s \in Seq(Int) /\ \A i \in DOMAIN s : s[i] \in Range(table) \union {Newline}

LEMMA PrintableMore ==
  ASSUME Keyed, fm, NEW s, Printable(s), NEW c \in Range(table) \union {Newline}
  PROVE  Printable(Append(s, c))
<1>1. c \in Int
  <2>1. Range(table) = 65 .. 90
    BY DEF Keyed
  <2> QED BY <2>1 DEF Newline
<1> DEFINE t == Append(s, c)
<1>2. s \in Seq(Int) /\ \A i \in DOMAIN s : s[i] \in Range(table) \union {Newline}
  BY DEF Printable
<1>3. t \in Seq(Int) /\ Len(t) = Len(s) + 1 /\ (\A i \in 1 .. Len(s) : t[i] = s[i]) /\ t[Len(s) + 1] = c
  BY <1>1, <1>2, AppendIs
<1> HIDE DEF t
<1>4. DOMAIN t = 1 .. Len(s) + 1 /\ DOMAIN s = 1 .. Len(s) /\ Len(s) \in Nat
  BY <1>2, <1>3
<1>5. \A i \in DOMAIN t : i \in DOMAIN s \/ i = Len(s) + 1
  BY <1>4
<1>6. \A i \in DOMAIN t : t[i] \in Range(table) \union {Newline}
  BY <1>2, <1>3, <1>4, <1>5
<1> QED BY <1>3, <1>6 DEF Printable, t

LEMMA PrintedLine ==
  ASSUME Keyed, fm, NEW s, Printable(s)
  PROVE  Line(s) \in Seq(Range(table))
<1>1. s \in Seq(Int) /\ \A i \in DOMAIN s : s[i] \in Range(table) \union {Newline}
  BY DEF Printable
<1>2. Line(s) \in Seq(Int)
  BY <1>1, EndsIs
<1>3. \A i \in DOMAIN Line(s) : Line(s)[i] # Newline /\ \E j \in DOMAIN s : Line(s)[i] = s[j]
  BY <1>1, LineKind
<1> DEFINE a == Line(s)
           R == Range(table)
<1>4. \A i \in DOMAIN a : a[i] \in R
  BY <1>1, <1>3
<1> HIDE DEF a, R
<1>5. a \in Seq(Int)
  BY <1>2 DEF a
<1>6. DOMAIN a = 1 .. Len(a) /\ Len(a) \in Nat
  BY <1>5
<1>7. a = [i \in 1 .. Len(a) |-> a[i]]
  BY <1>5
<1>8. a \in Seq(R)
  BY <1>4, <1>6, <1>7, ListIs
<1> QED BY <1>8 DEF a, R

LEMMA TripleBack ==
  ASSUME NEW a \in 0 .. 2, NEW b \in 0 .. 2, NEW c \in 0 .. 2
  PROVE  /\ fractionated_table(a * 9 + b * 3 + c) = <<a, b, c>>
         /\ ~ (a = 2 /\ b = 2 /\ c = 2) => a * 9 + b * 3 + c \in 0 .. 25
<1> DEFINE t == a * 9 + b * 3 + c
<1>1. t \div 9 = a /\ (t \div 3) % 3 = b /\ t % 3 = c
  <2>1. a = 0 \/ a = 1 \/ a = 2
    OBVIOUS
  <2>2. b = 0 \/ b = 1 \/ b = 2
    OBVIOUS
  <2>3. c = 0 \/ c = 1 \/ c = 2
    OBVIOUS
  <2> QED BY <2>1, <2>2, <2>3
<1>2. ~ (a = 2 /\ b = 2 /\ c = 2) => t \in 0 .. 25
  OBVIOUS
<1>3. fractionated_table(t) = <<t \div 9, (t \div 3) % 3, t % 3>>
  BY DEF fractionated_table
<1> HIDE DEF t
<1>4. fractionated_table(t) = <<a, b, c>>
  BY <1>1, <1>3
<1> QED BY <1>2, <1>4 DEF t

\* The third code prints the letter of the key at its triple.
LEMMA FullPrints ==
  ASSUME Keyed, fm, NEW r, NEW code, NEW q, Full(r, code, q)
  PROVE  /\ r.curPosit # 2 => q.out = r.out
         /\ r.curPosit = 2 =>
              \E c \in Range(table) :
                 /\ q.out = Append(r.out, c)
                 /\ fractionated_table(Place(c)) = <<r.posit[1], r.posit[2], code>>
                 /\ r.posit[1] \in 0 .. 2 /\ r.posit[2] \in 0 .. 2 /\ code \in 0 .. 2
<1>1. q.out = IF r.curPosit = 2 /\ Triple(q.posit) < 26
              THEN Append(r.out, table[Triple(q.posit) + 1]) ELSE r.out
  BY DEF Full, Gives
<1>2. r.curPosit # 2 => q.out = r.out
  BY <1>1
<1>3. ASSUME r.curPosit = 2
      PROVE  \E c \in Range(table) :
                 /\ q.out = Append(r.out, c)
                 /\ fractionated_table(Place(c)) = <<r.posit[1], r.posit[2], code>>
                 /\ r.posit[1] \in 0 .. 2 /\ r.posit[2] \in 0 .. 2 /\ code \in 0 .. 2
  <2> DEFINE x == r.posit[1]
             y == r.posit[2]
             t == x * 9 + y * 3 + code
  <2>1. q.posit[1] = x /\ q.posit[2] = y /\ q.posit[3] = code
    BY <1>3, FullIs
  <2>2. x \in 0 .. 2 /\ y \in 0 .. 2 /\ code \in 0 .. 2 /\ ~ (x = 2 /\ y = 2 /\ code = 2)
    <3>1. 1 \in 1 .. 2 /\ 2 \in 1 .. 2
      OBVIOUS
    <3> QED BY <1>3, <3>1 DEF Full, Filled
  <2> HIDE DEF x, y
  <2>3. Triple(q.posit) = t
    <3>1. Index(x) = x /\ Index(y) = y /\ Index(code) = code
      BY <2>2 DEF Index
    <3> QED BY <2>1, <3>1 DEF Triple
  <2>4. t \in 0 .. 25 /\ fractionated_table(t) = <<x, y, code>>
    BY <2>2, TripleBack
  <2> HIDE DEF t
  <2>5. q.out = Append(r.out, table[t + 1])
    <3>1. t < 26
      BY <2>4
    <3> QED BY <1>1, <1>3, <2>3, <3>1
  <2>6. t + 1 \in 1 .. Len(table)
    <3>1. Len(table) = 26
      BY DEF Keyed
    <3> QED BY <2>4, <3>1
  <2>7. Place(table[t + 1]) = t
    <3> DEFINE i == t + 1
    <3>1. i \in 1 .. Len(table) /\ i - 1 = t
      BY <2>4, <2>6
    <3> HIDE DEF i
    <3>2. Place(table[i]) = i - 1
      BY <3>1, PlaceOf
    <3> QED BY <3>1, <3>2 DEF i
  <2>8. table[t + 1] \in Range(table)
    <3>1. table \in Seq(Int)
      BY DEF Keyed
    <3>2. DOMAIN table = 1 .. Len(table)
      BY <3>1
    <3> QED BY <2>6, <3>2 DEF Range
  <2>9. fractionated_table(Place(table[t + 1])) = <<x, y, code>>
    BY <2>4, <2>7
  <2> QED BY <2>2, <2>5, <2>8, <2>9 DEF x, y
<1> QED BY <1>2, <1>3

LEMMA Waiting ==
  ASSUME NEW p \in [1 .. 3 -> 0 .. 3]
  PROVE  SubSeq(p, 1, 0) = <<>> /\ SubSeq(p, 1, 1) = <<p[1]>> /\ SubSeq(p, 1, 2) = <<p[1], p[2]>>
<1>1. p[1] \in Int /\ p[2] \in Int
  OBVIOUS
<1>2. \A i \in 1 .. 2 : p[i] \in Int
  OBVIOUS
<1> DEFINE x == p[1]
           y == p[2]
           n == 1
           k == 2
<1>3. SubSeq(p, 1, 0) = <<>>
  <2>1. 1 \in Int /\ 0 \in Int /\ 0 < 1
    OBVIOUS
  <2> QED BY <2>1, SubSeqEmpty
<1>4. SubSeq(p, 1, 1) = <<x>>
  <2> DEFINE a == SubSeq(p, 1, 1)
             b == <<x>>
  <2>1. a \in Seq(Int) /\ Len(a) = 1 /\ a[1] = x
    <3>1. 1 \in Int /\ (\A i \in 1 .. 1 : p[i] \in Int)
      BY <1>1
    <3>2. a \in Seq(Int) /\ Len(a) = (IF 1 <= 1 THEN 1 - 1 + 1 ELSE 0) /\ \A i \in 1 .. 1 - 1 + 1 : a[i] = p[1 + i - 1]
      BY <3>1, SubSeqProperties
    <3> HIDE DEF a
    <3>3. Len(a) = 1 /\ 1 \in 1 .. 1 - 1 + 1 /\ 1 + 1 - 1 = 1
      BY <3>2
    <3>4. a[1] = p[1 + 1 - 1]
      BY <3>2, <3>3
    <3> QED BY <3>2, <3>3, <3>4
  <2>2. b \in Seq(Int) /\ Len(b) = 1 /\ b[1] = x
    BY <1>1
  <2> HIDE DEF a, b, x
  <2>3. \A i \in 1 .. Len(a) : a[i] = b[i]
    BY <2>1, <2>2
  <2>4. a = b
    BY <2>1, <2>2, <2>3, SeqEqual
  <2> QED BY <2>4 DEF a, b
<1>5. SubSeq(p, 1, 2) = <<x, y>>
  <2> DEFINE a == SubSeq(p, 1, 2)
             b == <<x, y>>
  <2>1. a \in Seq(Int) /\ Len(a) = 2 /\ a[1] = x /\ a[2] = y
    <3>1. 1 \in Int /\ 2 \in Int
      OBVIOUS
    <3>2. a \in Seq(Int) /\ Len(a) = (IF 1 <= 2 THEN 2 - 1 + 1 ELSE 0) /\ \A i \in 1 .. 2 - 1 + 1 : a[i] = p[1 + i - 1]
      BY <1>2, <3>1, SubSeqProperties
    <3> HIDE DEF a
    <3>3. Len(a) = 2 /\ 1 \in 1 .. 2 - 1 + 1 /\ 2 \in 1 .. 2 - 1 + 1 /\ 1 + 1 - 1 = 1 /\ 1 + 2 - 1 = 2
      BY <3>2
    <3>4. a[1] = p[1 + 1 - 1] /\ a[2] = p[1 + 2 - 1]
      BY <3>2, <3>3
    <3> QED BY <3>2, <3>3, <3>4
  <2>2. b \in Seq(Int) /\ Len(b) = 2 /\ b[1] = x /\ b[2] = y
    BY <1>1
  <2> HIDE DEF a, b, x, y
  <2>5. \A i \in 1 .. 2 : i = 1 \/ i = 2
    OBVIOUS
  <2>3. \A i \in 1 .. Len(a) : a[i] = b[i]
    BY <2>1, <2>2, <2>5
  <2>4. a = b
    BY <2>1, <2>2, <2>3, SeqEqual
  <2> QED BY <2>4 DEF a, b
<1> QED BY <1>3, <1>4, <1>5

LEMMA AppendBehind ==
  \A c, u \in Seq(Int), x \in Int : Append(c \o u, x) = c \o Append(u, x)
<1> SUFFICES ASSUME NEW c \in Seq(Int), NEW u \in Seq(Int), NEW x \in Int
             PROVE  Append(c \o u, x) = c \o Append(u, x)
  OBVIOUS
<1> DEFINE T == Int
           e == <<x>>
           d == c \o u
<1>1. e \in Seq(T)
  OBVIOUS
<1>2. d \in Seq(T)
  OBVIOUS
<1>3. Append(d, x) = d \o e
  <2> HIDE DEF d
  <2> QED BY <1>2, AppendIs
<1>4. Append(u, x) = u \o e
  BY AppendIs
<1> HIDE DEF e
<1>5. (c \o u) \o e = c \o (u \o e)
  BY <1>1, JoinedBehind
<1> QED BY <1>3, <1>4, <1>5

LEMMA FullCodes ==
  ASSUME Keyed, fm, NEW r, NEW code, NEW q, Full(r, code, q), Printable(r.out)
  PROVE  /\ Printable(q.out) /\ Codes(r) \in Seq(Int) /\ Codes(q) = Append(Codes(r), code)
<1> DEFINE l == Triples(Line(r.out))
           x == r.posit[1]
           y == r.posit[2]
<1>0. r \in Machines /\ q \in Machines /\ code \in Int
  <2>1. code \in 0 .. 2
    BY DEF Full
  <2> QED BY <2>1, FullIs DEF Full
<1>1. r.posit \in [1 .. 3 -> 0 .. 3] /\ q.posit \in [1 .. 3 -> 0 .. 3]
      /\ (r.curPosit = 0 \/ r.curPosit = 1 \/ r.curPosit = 2)
  BY <1>0 DEF Machines
<1>2. Line(r.out) \in Seq(Range(table))
  BY PrintedLine
<1>3. l \in Seq(Int)
  <2>1. \E c : c \in Range(table)
    <3>1. Range(table) = 65 .. 90 /\ 65 \in 65 .. 90
      BY DEF Keyed
    <3> QED BY <3>1
  <2> QED BY <1>2, <2>1, TriplesIs
<1>4. x \in Int /\ y \in Int
  BY <1>1
<1>5. Codes(r) = l \o SubSeq(r.posit, 1, r.curPosit)
      /\ Codes(q) = Triples(Line(q.out)) \o SubSeq(q.posit, 1, q.curPosit)
  BY DEF Codes
<1>6. SubSeq(r.posit, 1, 0) = <<>> /\ SubSeq(r.posit, 1, 1) = <<x>> /\ SubSeq(r.posit, 1, 2) = <<x, y>>
  BY <1>1, Waiting
<1>7. SubSeq(q.posit, 1, 0) = <<>> /\ SubSeq(q.posit, 1, 1) = <<q.posit[1]>>
      /\ SubSeq(q.posit, 1, 2) = <<q.posit[1], q.posit[2]>>
  BY <1>1, Waiting
<1>8. CASE r.curPosit = 0
  <2>1. q.curPosit = 1 /\ q.posit[1] = code /\ q.out = r.out
    BY <1>8, FullIs, FullPrints
  <2>2. Codes(r) = l \o <<>> /\ Codes(q) = l \o <<code>>
    BY <1>5, <1>6, <1>7, <1>8, <2>1
  <2> HIDE DEF l
  <2>3. l \o <<>> = l /\ l \o <<code>> = Append(l, code)
    BY <1>0, <1>3
  <2> QED BY <1>3, <2>1, <2>2, <2>3
<1>9. CASE r.curPosit = 1
  <2>1. q.curPosit = 2 /\ q.posit[1] = x /\ q.posit[2] = code /\ q.out = r.out
    BY <1>9, FullIs, FullPrints
  <2>2. Codes(r) = l \o <<x>> /\ Codes(q) = l \o <<x, code>>
    BY <1>5, <1>6, <1>7, <1>9, <2>1
  <2> HIDE DEF l, x
  <2>3. l \o <<x>> \in Seq(Int) /\ l \o <<x, code>> = Append(l \o <<x>>, code)
    BY <1>0, <1>3, <1>4
  <2> QED BY <2>1, <2>2, <2>3
<1>10. CASE r.curPosit = 2
  <2>1. PICK c \in Range(table) :
           q.out = Append(r.out, c) /\ fractionated_table(Place(c)) = <<x, y, code>>
    BY <1>10, FullPrints
  <2>2. q.curPosit = 0
    BY <1>10, FullIs
  <2>3. c \in Int /\ c # Newline
    <3>1. c \in 65 .. 90
      BY DEF Keyed
    <3> QED BY <3>1 DEF Newline
  <2>4. Line(q.out) = Append(Line(r.out), c)
    <3>1. r.out \in Seq(Int)
      BY DEF Printable
    <3> QED BY <2>1, <2>3, <3>1, LineIs
  <2>5. Triples(Line(q.out)) = l \o <<x, y, code>>
    BY <1>2, <2>1, <2>4, TriplesIs
  <2>6. Codes(r) = l \o <<x, y>> /\ Codes(q) = (l \o <<x, y, code>>) \o <<>>
    BY <1>5, <1>6, <1>7, <1>10, <2>2, <2>5
  <2>7. Printable(q.out)
    BY <2>1, PrintableMore
  <2> HIDE DEF l, x, y
  <2>8. l \o <<x, y>> \in Seq(Int) /\ (l \o <<x, y, code>>) \o <<>> = Append(l \o <<x, y>>, code)
    BY <1>0, <1>3, <1>4
  <2> QED BY <2>6, <2>7, <2>8
<1> QED BY <1>1, <1>8, <1>9, <1>10

LEMMA GivenCodes ==
  ASSUME Keyed, fm, NEW r \in Machines, NEW codes \in Seq(Int), NEW q, Given(r, codes, q),
         Printable(r.out), Codes(r) \in Seq(Int)
  PROVE  Printable(q.out) /\ Codes(q) = Codes(r) \o codes
<1> DEFINE L == Len(codes)
           C == Codes(r)
           Upto(n) == SubSeq(codes, 1, n)
<1>1. PICK g \in [0 .. L -> Machines] :
        /\ Alike(g[0], r) /\ Alike(q, g[L])
        /\ \A n \in 1 .. L : Full(g[n - 1], codes[n], g[n])
  BY DEF Given
<1>2. L \in Nat /\ Upto(0) = <<>> /\ Upto(L) = codes
      /\ \A n \in 1 .. L : codes[n] \in Int
  OBVIOUS
<1>3. \A n \in 0 .. L : n < L => Upto(n + 1) = Append(Upto(n), codes[n + 1]) /\ Upto(n) \in Seq(Int)
                                  /\ codes[n + 1] \in Int
  <2> SUFFICES ASSUME NEW n \in 0 .. L, n < L
               PROVE  Upto(n + 1) = Append(Upto(n), codes[n + 1]) /\ Upto(n) \in Seq(Int) /\ codes[n + 1] \in Int
    OBVIOUS
  <2> QED OBVIOUS
<1> HIDE DEF L, C, Upto
<1> DEFINE D == {n \in 0 .. L : Printable(g[n].out) /\ Codes(g[n]) = C \o Upto(n)}
<1>4. 0 \in D
  <2>1. g[0].out = r.out /\ Codes(g[0]) = C
    BY <1>1 DEF Alike, Codes, C
  <2>2. C \o <<>> = C
    <3>1. C \in Seq(Int)
      BY DEF C
    <3> QED BY <3>1
  <2>3. 0 \in 0 .. L
    BY <1>2
  <2> QED BY <1>2, <2>1, <2>2, <2>3
<1>5. ASSUME NEW n \in 0 .. L, n \in D, n < L PROVE n + 1 \in D
  <2>1. n + 1 \in 1 .. L /\ n + 1 \in 0 .. L /\ (n + 1) - 1 = n
    BY <1>2, <1>5
  <2> DEFINE p == g[n]
             s == g[n + 1]
             x == codes[n + 1]
  <2>2. Full(p, x, s) /\ Printable(p.out) /\ Codes(p) = C \o Upto(n)
    <3>1. Full(g[(n + 1) - 1], codes[n + 1], g[n + 1])
      BY <1>1, <2>1
    <3> QED BY <1>5, <2>1, <3>1
  <2> HIDE DEF p, s, x, D
  <2>3. Printable(s.out) /\ Codes(s) = Append(Codes(p), x)
    BY <2>2, FullCodes
  <2>4. Append(C \o Upto(n), x) = C \o Append(Upto(n), x)
    <3>1. C \in Seq(Int) /\ Upto(n) \in Seq(Int) /\ x \in Int
      BY <1>3, <1>5 DEF C, x
    <3> DEFINE u == Upto(n)
    <3>2. u \in Seq(Int)
      BY <3>1
    <3>4. C \in Seq(Int)
      BY <3>1
    <3>5. x \in Int
      BY <3>1
    <3> HIDE DEF u
    <3>3. Append(C \o u, x) = C \o Append(u, x)
      BY <3>2, <3>4, <3>5, AppendBehind
    <3> QED BY <3>3 DEF u
  <2>5. Codes(s) = C \o Upto(n + 1)
    BY <1>3, <1>5, <2>2, <2>3, <2>4 DEF x
  <2> QED BY <2>1, <2>3, <2>5 DEF D, s
<1> HIDE DEF D
<1>6. 0 .. L \subseteq D
  BY <1>2, <1>4, <1>5, UpTo
<1>7. L \in D
  <2>1. L \in 0 .. L
    BY <1>2
  <2> QED BY <1>6, <2>1
<1>8. Printable(g[L].out) /\ Codes(g[L]) = C \o codes
  BY <1>2, <1>7 DEF D
<1> QED BY <1>1, <1>8 DEF Alike, Codes, C

\* A character with a code, or a space, gives the slots its codes and no other.
LEMMA CodedGiven ==
  ASSUME Keyed, fm, NEW r \in Machines, r.status = "ok", NEW k \in {"none", "space", "letter"},
         Slots(r, k), NEW c \in Coded, NEW q \in Encrypted(c, r)
  PROVE  /\ q \in Machines /\ q.status = "ok" /\ Given(r, Piece(k, c), q) /\ Slots(q, KindOf(c))
<1>1. CASE c = Space
  <2>1. q = EncryptSpace(r)
    BY <1>1 DEF Encrypted, FMEncrypt, Space, Newline
  <2>2. Spaced(r, q) /\ q.status = "ok"
    BY <2>1, SpaceIs
  <2>3. q \in Machines /\ Given(r, Piece(k, Space), q) /\ Slots(q, "space")
    BY <2>2, SpaceGiven
  <2>4. KindOf(c) = "space"
    BY <1>1 DEF KindOf, Space, Newline
  <2> QED BY <1>1, <2>2, <2>3, <2>4
<1>2. CASE c # Space
  <2> DEFINE n == morse_table[c - 32]
  <2>1. c \in 33 .. 122 /\ n \in 2 .. 120 /\ CodesOf(n) \in Seq({0, 1}) /\ CodesOf(n) # <<>>
        /\ c # Newline /\ KindOf(c) = "letter"
    BY <1>2, MorseIs DEF Coded
  <2>2. q = EncryptLetter(r, n)
    BY <1>2, <2>1 DEF Encrypted, FMEncrypt, translateCode
  <2>3. Piece(k, c) = CodesOf(n) \o <<2>>
    BY <1>2 DEF Piece
  <2> HIDE DEF n
  <2>4. n \in 0 .. 120 /\ n > 1
    BY <2>1
  <2>5. Lettered(r, n, q)
    BY <2>2, <2>4, LetterIs
  <2>6. q \in Machines /\ q.status = r.status /\ Given(r, CodesOf(n) \o <<2>>, q) /\ Slots(q, "letter")
    BY <2>1, <2>5, LetterGiven
  <2> QED BY <2>1, <2>3, <2>6
<1> QED BY <1>1, <1>2

\* The end of a line empties the slots.
LEMMA EndGiven ==
  ASSUME Keyed, fm, NEW r \in Machines, r.status = "ok", NEW k \in {"none", "space", "letter"},
         Slots(r, k), NEW q \in Encrypted(Newline, r), Printable(r.out), Codes(r) \in Seq(Int)
  PROVE  q \in Machines /\ q.status = "ok" /\ Slots(q, "none") /\ Printable(q.out) /\ Codes(q) = <<>>
<1>1. q = EncryptNewline(r)
  BY DEF Encrypted
<1>2. /\ q \in Machines /\ q.status = "ok"
      /\ q.posit = <<3, 3, 3>> /\ q.curPosit = 0 /\ q.checkAlreadySpace = FALSE
      /\ ~ (r.curPosit = 2 /\ r.posit[2] = 2) => q.out = Append(r.out, Newline)
      /\ r.curPosit = 2 /\ r.posit[2] = 2 => q.out = Append(EncryptSpace(r).out, Newline)
  BY <1>1, EncryptNewlineIs
<1>3. \A i \in 1 .. 0 : FALSE
  OBVIOUS
<1>4. Slots(q, "none")
  BY <1>2, <1>3 DEF Slots, Filled
<1>5. Printable(EncryptSpace(r).out)
  <2> DEFINE x == EncryptSpace(r)
             p == Piece(k, Space)
  <2>1. Spaced(r, x)
    BY SpaceIs
  <2> HIDE DEF x
  <2>2. Given(r, p, x)
    BY <2>1, SpaceGiven
  <2>3. p \in Seq(Int)
    BY PieceTyped DEF Coded
  <2> HIDE DEF p
  <2> QED BY <2>2, <2>3, GivenCodes DEF x
<1>6. PICK o : Printable(o) /\ q.out = Append(o, Newline)
  BY <1>2, <1>5
<1>7. Printable(q.out)
  BY <1>6, PrintableMore
<1>8. Line(q.out) = <<>>
  <2>1. o \in Seq(Int) /\ Newline \in Int
    BY <1>6 DEF Printable, Newline
  <2> QED BY <1>6, <2>1, LineIs
<1>9. Triples(<<>>) = <<>>
  <2>1. \E c : c \in Range(table)
    <3>1. Range(table) = 65 .. 90 /\ 65 \in 65 .. 90
      BY DEF Keyed
    <3> QED BY <3>1
  <2>2. <<>> \in Seq(Range(table))
    OBVIOUS
  <2> QED BY <2>1, <2>2, TriplesIs
<1>10. SubSeq(q.posit, 1, 0) = <<>>
  <2>1. 1 \in Int /\ 0 \in Int /\ 0 < 1
    OBVIOUS
  <2> QED BY <2>1, SubSeqEmpty
<1>11. Codes(q) = <<>> \o <<>>
  BY <1>2, <1>8, <1>9, <1>10 DEF Codes
<1>12. <<>> \o <<>> = <<>>
  OBVIOUS
<1> QED BY <1>2, <1>4, <1>7, <1>11, <1>12

Plain(s) == \A i \in DOMAIN s : s[i] \in {Space, Newline} \/ HasMorse(s[i])

LEMMA PlainMore ==
  ASSUME NEW s \in Seq(Int), NEW c \in Int, Plain(Append(s, c))
  PROVE  Plain(s) /\ c \in Coded \union {Newline}
<1> DEFINE t == Append(s, c)
<1>1. t \in Seq(Int) /\ Len(t) = Len(s) + 1 /\ (\A i \in 1 .. Len(s) : t[i] = s[i]) /\ t[Len(s) + 1] = c
  BY AppendIs
<1>2. Plain(t)
  OBVIOUS
<1> HIDE DEF t
<1>3. DOMAIN t = 1 .. Len(s) + 1 /\ DOMAIN s = 1 .. Len(s) /\ Len(s) \in Nat
  BY <1>1
<1>4. \A i \in DOMAIN s : i \in DOMAIN t /\ t[i] = s[i]
  BY <1>1, <1>3
<1>5. Plain(s)
  BY <1>2, <1>4 DEF Plain
<1>6. Len(s) + 1 \in DOMAIN t
  BY <1>3
<1>7. c \in {Space, Newline} \/ HasMorse(c)
  BY <1>1, <1>2, <1>6 DEF Plain
<1> QED BY <1>5, <1>7 DEF Coded

LEMMA PlainLine ==
  ASSUME NEW s \in Seq(Int), Plain(s)
  PROVE  Line(s) \in Seq(Coded)
<1> DEFINE a == Line(s)
<1>1. a \in Seq(Int)
  BY EndsIs
<1>2. \A i \in DOMAIN a : a[i] \in Coded
  <2> SUFFICES ASSUME NEW i \in DOMAIN a PROVE a[i] \in Coded
    OBVIOUS
  <2>1. a[i] # Newline /\ \E j \in DOMAIN s : a[i] = s[j]
    BY LineKind
  <2>2. a[i] \in {Space, Newline} \/ HasMorse(a[i])
    BY <2>1 DEF Plain
  <2>3. a[i] \in Int
    BY <1>1
  <2> QED BY <2>1, <2>2, <2>3 DEF Coded
<1> HIDE DEF a
<1> DEFINE R == Coded
<1> HIDE DEF R
<1>3. DOMAIN a = 1 .. Len(a) /\ Len(a) \in Nat
  BY <1>1
<1>4. a = [i \in 1 .. Len(a) |-> a[i]]
  BY <1>1
<1>5. \A i \in 1 .. Len(a) : a[i] \in R
  BY <1>2, <1>3 DEF R
<1>6. a \in Seq(R)
  BY <1>3, <1>4, <1>5, ListIs
<1> QED BY <1>6 DEF a, R

LEMMA KindTyped ==
  ASSUME NEW s
  PROVE  Kind(s) \in {"none", "space", "letter"}
BY DEF Kind, KindOf

LEMMA CodesKept ==
  ASSUME table' = table
  PROVE  /\ \A r : Codes(r)' = Codes(r)
         /\ \A s : Printable(s)' <=> Printable(s)
<1>1. \A c : Place(c)' = Place(c)
  BY PlaceKept
<1>2. \A p : Triples(p)' = Triples(p)
  BY <1>1 DEF Triples
<1>3. \A r : Codes(r)' = Codes(r)
  BY <1>2 DEF Codes
<1>4. \A s : Printable(s)' <=> Printable(s)
  BY DEF Printable
<1> QED BY <1>3, <1>4

InLine ==
    stage = "encrypt" /\ fm /\ Plain(text) =>
      Slots(m, Kind(text)) /\ Printable(m.out) /\ Codes(m) = Stream(Line(text))

LEMMA InLineActivate ==
  ASSUME Begun, activateCrypto
  PROVE  InLine'
<1>1. /\ stage = "ready" /\ UNCHANGED <<mode, table, m, text, pipe>>
      /\ m = Static /\ text = <<>>
  BY DEF activateCrypto, Begun
<1>2. Keyed
  BY <1>1, PreparedKeyed DEF Begun
<1>3. CASE ~ fm
  <2>1. ~ fm'
    BY <1>1, <1>3, KeyedKept
  <2> QED BY <2>1 DEF InLine
<1>4. CASE fm
  <2> DEFINE s == Static
             e == <<>>
  <2>1. s.posit = <<3, 3, 3>> /\ s.curPosit = 0 /\ s.checkAlreadySpace = FALSE /\ s.out = <<>>
    BY DEF Static
  <2> HIDE DEF s
  <2>2. Kind(<<>>) = "none"
    BY DEF Kind
  <2>3. \A i \in 1 .. 0 : FALSE
    OBVIOUS
  <2>4. Slots(s, Kind(<<>>))
    BY <2>1, <2>2, <2>3 DEF Slots, Filled
  <2>5. Printable(<<>>)
    <3>1. e \in Seq(Int) /\ DOMAIN e = {}
      OBVIOUS
    <3> HIDE DEF e
    <3>2. Printable(e)
      BY <3>1 DEF Printable
    <3> QED BY <3>2 DEF e
  <2>6. Codes(s) = <<>>
    <3>1. Triples(<<>>) = <<>>
      <4>1. \E c : c \in Range(table)
        <5>1. Range(table) = 65 .. 90 /\ 65 \in 65 .. 90
          BY <1>2, <1>4 DEF Keyed
        <5> QED BY <5>1
      <4>2. <<>> \in Seq(Range(table))
        OBVIOUS
      <4> QED BY <1>2, <4>1, <4>2, TriplesIs
    <3>2. SubSeq(s.posit, 1, 0) = <<>>
      <4>1. 1 \in Int /\ 0 \in Int /\ 0 < 1
        OBVIOUS
      <4> QED BY <4>1, SubSeqEmpty
    <3>3. Codes(s) = <<>> \o <<>>
      BY <2>1, <3>1, <3>2, LineNone DEF Codes
    <3>4. <<>> \o <<>> = <<>>
      OBVIOUS
    <3> QED BY <3>3, <3>4
  <2>7. Stream(Line(<<>>)) = <<>>
    BY LineNone, StreamNone
  <2>8. Printable(<<>>)' /\ Codes(s)' = <<>>
    BY <1>1, <2>5, <2>6, CodesKept
  <2>9. m' = s /\ text' = <<>>
    BY <1>1 DEF s
  <2>10. Slots(m, Kind(text))' /\ Printable(m.out)' /\ Codes(m)' = Stream(Line(text'))
    BY <2>1, <2>4, <2>7, <2>8, <2>9 DEF Codes
  <2> QED BY <2>10 DEF InLine
<1> QED BY <1>3, <1>4

LEMMA InLineEncrypt ==
  ASSUME Begun, InLine, NEW c \in Chars, Encrypt(c)
  PROVE  InLine'
<1>1. stage = "encrypt" /\ c \in Int /\ text' = Append(text, c) /\ text \in Seq(Int)
      /\ UNCHANGED <<args, asked, mode, table, pipe, stale>>
  BY TypedText DEF Encrypt, Begun
<1>2. PICK q \in Encrypted(c, m) : Advance(q)
  BY DEF Encrypt
<1>3. Keyed /\ m \in Machines /\ m.status = "ok"
  BY <1>1 DEF Begun
<1>4. fm' <=> fm
  BY <1>1, KeyedKept
<1>5. CASE ~ (fm /\ Plain(Append(text, c)))
  <2>1. ~ (fm' /\ Plain(text'))
    BY <1>1, <1>4, <1>5
  <2>2. ~ (fm /\ Plain(text))'
    BY <2>1 DEF Plain
  <2> QED BY <2>2 DEF InLine
<1>6. CASE fm /\ Plain(Append(text, c))
  <2> DEFINE k == Kind(text)
             l == Line(text)
  <2>1. Plain(text) /\ c \in Coded \union {Newline}
    BY <1>1, <1>6, PlainMore
  <2>2. Slots(m, k) /\ Printable(m.out) /\ Codes(m) = Stream(l)
    BY <1>1, <1>6, <2>1 DEF InLine
  <2>3. k \in {"none", "space", "letter"} /\ l \in Seq(Coded) /\ k = Kind(l)
    BY <1>1, <2>1, KindTyped, PlainLine, LineKind
  <2>4. Stream(l) \in Seq(Int)
    <3>1. Space \in Coded
      BY DEF Coded
    <3> QED BY <2>3, <3>1, StreamIs
  <2>5. Kind(Append(text, c)) = KindOf(c)
    BY <1>1, KindIs
  <2> HIDE DEF k, l
  <2>6. CASE c = Newline
    <3>1. q \in Machines /\ q.status = "ok" /\ Slots(q, "none") /\ Printable(q.out) /\ Codes(q) = <<>>
      BY <1>2, <1>3, <1>6, <2>2, <2>3, <2>4, <2>6, EndGiven
    <3>2. Stream(Line(Append(text, c))) = <<>>
      BY <1>1, <2>6, LineIs, StreamNone
    <3>3. Slots(q, Kind(Append(text, c)))
      BY <2>5, <2>6, <3>1 DEF KindOf
    <3>4. Printable(q.out)' /\ Codes(q)' = Stream(Line(Append(text, c)))
      BY <1>1, <3>1, <3>2, CodesKept
    <3>5. m' = q
      BY <1>2 DEF Advance
    <3>6. Slots(m, Kind(text))' /\ Printable(m.out)' /\ Codes(m)' = Stream(Line(text'))
      BY <1>1, <3>3, <3>4, <3>5 DEF Codes
    <3> QED BY <3>6 DEF InLine
  <2>7. CASE c \in Coded
    <3>1. q \in Machines /\ q.status = "ok" /\ Given(m, Piece(k, c), q) /\ Slots(q, KindOf(c))
      BY <1>2, <1>3, <1>6, <2>2, <2>3, <2>7, CodedGiven
    <3>2. Piece(k, c) \in Seq(Int)
      BY <2>7, PieceTyped
    <3>3. Printable(q.out) /\ Codes(q) = Codes(m) \o Piece(k, c)
      BY <1>3, <1>6, <2>2, <2>4, <3>1, <3>2, GivenCodes
    <3>4. c # Newline
      BY <2>7, MorseIs DEF Coded, Space, Newline
    <3>5. Line(Append(text, c)) = Append(l, c)
      BY <1>1, <3>4, LineIs DEF l
    <3>6. Stream(Append(l, c)) = Stream(l) \o Piece(k, c)
      BY <2>3, <2>7, StreamIs
    <3>7. Codes(q) = Stream(Line(Append(text, c)))
      BY <2>2, <3>3, <3>5, <3>6
    <3>8. Printable(q.out)' /\ Codes(q)' = Stream(Line(Append(text, c)))
      BY <1>1, <3>3, <3>7, CodesKept
    <3>9. m' = q
      BY <1>2 DEF Advance
    <3>10. Slots(m, Kind(text))' /\ Printable(m.out)' /\ Codes(m)' = Stream(Line(text'))
      BY <1>1, <2>5, <3>1, <3>8, <3>9 DEF Codes
    <3> QED BY <3>10 DEF InLine
  <2> QED BY <2>1, <2>6, <2>7
<1> QED BY <1>5, <1>6

LEMMA InLineNext ==
  ASSUME Begun, InLine, [Next]_vars
  PROVE  InLine'
<1>0. stage' # "encrypt" => InLine'
  BY DEF InLine
<1>1. CASE UNCHANGED vars
  <2>1. UNCHANGED <<stage, args, asked, mode, table, m, text, pipe, stale>>
    BY <1>1 DEF vars
  <2>2. fm' <=> fm
    BY <2>1, KeyedKept
  <2>3. (\A r : Codes(r)' = Codes(r)) /\ \A s : Printable(s)' <=> Printable(s)
    BY <2>1, CodesKept
  <2>4. (Codes(m))' = Codes(m) /\ (Printable(m.out)' <=> Printable(m.out))
    BY <2>1, <2>3 DEF Codes, Printable
  <2>5. Slots(m, Kind(text))' <=> Slots(m, Kind(text))
    BY <2>1
  <2> QED BY <2>1, <2>2, <2>4, <2>5 DEF InLine
<1>2. ASSUME NEW w \in Flags, NEW v \in Operands(w), Word(w, v) PROVE InLine'
  <2>1. stage' \in {"args", "help", "usage", "crashed"}
    BY <1>2 DEF Word
  <2> QED BY <2>1, <1>0
<1>3. CASE EndOfWords
  <2>1. stage' \in {"usage", "ready"}
    BY <1>3 DEF EndOfWords
  <2> QED BY <2>1, <1>0
<1>4. CASE activateCrypto
  BY <1>4, InLineActivate
<1>5. ASSUME NEW c \in Chars, Encrypt(c) PROVE InLine'
  BY <1>5, InLineEncrypt
<1>6. ASSUME NEW c \in Chars, Decrypt(c) PROVE InLine'
  <2>1. stage = "decrypt" /\ Keyed /\ m \in Machines /\ Advance(Decrypted(c, m)) /\ c \in Int
    BY <1>6, TypedText DEF Decrypt, Begun
  <2>2. Decrypted(c, m) \in Machines
    BY <2>1, DecryptedTyped
  <2>3. Decrypted(c, m).status \in {"ok", "failed", "crashed"}
    BY <2>2 DEF Machines
  <2>4. stage' \in {"decrypt", "failed", "crashed"}
    BY <2>1, <2>3 DEF Advance
  <2> QED BY <2>4, <1>0
<1>7. CASE Decode
  <2>1. stage' \in {"decode", "undecoded"} \union {"ok"}
    BY <1>7 DEF Decode, Advance
  <2> QED BY <2>1, <1>0
<1>8. CASE EndOfInput
  <2>1. stage' \in {"done", "decode", "decoded"}
    BY <1>8 DEF EndOfInput
  <2> QED BY <2>1, <1>0
<1> QED BY <1>1, <1>2, <1>3, <1>4, <1>5, <1>6, <1>7, <1>8 DEF Next

LEMMA InLineInit ==
  ASSUME Init
  PROVE  InLine
BY DEF Init, InLine

\* The letters printed for a line and the codes that wait in the slots are its
\* Morse codes, whatever the key and the text: none is printed twice, dropped or
\* left to another line (giveCodeToPosit, doMorseEncryptAndPrint, isSpaceAhead).
THEOREM LettersKeepStep == Spec => []LettersInStep
<1>1. Init => InLine
  BY InLineInit
<1>2. Begun /\ InLine /\ [Next]_vars => InLine'
  BY InLineNext
<1>3. InLine => LettersInStep
  BY DEF InLine, LettersInStep, Plain, Codes, Triples
<1> QED BY <1>1, <1>2, <1>3, AlwaysBegun, PTL DEF Spec

-----------------------------------------------------------------------------
(* The letter of a code                                                    *)

\* The number that the digits of s, after a first 1, make.
Worth(n, s) ==
    \E val \in [0 .. Len(s) -> Nat] :
       /\ val[0] = 1 /\ val[Len(s)] = n
       /\ \A k \in 1 .. Len(s) : val[k] = 2 * val[k - 1] + s[k]

LEMMA WorthMore ==
  ASSUME NEW s \in Seq({0, 1}), NEW x \in {0, 1}, NEW n \in Nat, Worth(n, s)
  PROVE  Worth(2 * n + x, Append(s, x))
<1> DEFINE t == Append(s, x)
           L == Len(s)
           p == 2 * n + x
<1>1. /\ Len(t) = L + 1 /\ (\A i \in 1 .. L : t[i] = s[i]) /\ t[L + 1] = x /\ L \in Nat
  <2>1. s \in Seq(Int) /\ x \in Int
    BY BitsAreCodes
  <2> QED BY <2>1, AppendIs
<1>2. PICK val \in [0 .. L -> Nat] :
        /\ val[0] = 1 /\ val[L] = n
        /\ \A k \in 1 .. L : val[k] = 2 * val[k - 1] + s[k]
  BY DEF Worth
<1>3. p \in Nat /\ p = 2 * n + x
  OBVIOUS
<1> HIDE DEF t, L, p
<1> DEFINE h == [k \in 0 .. L + 1 |-> IF k = L + 1 THEN p ELSE val[k]]
<1>4. h \in [0 .. L + 1 -> Nat]
  BY <1>1, <1>2, <1>3
<1>5. h[L + 1] = p /\ \A k \in 0 .. L : h[k] = val[k]
  BY <1>1
<1>6. ASSUME NEW k \in 1 .. L + 1
      PROVE  h[k] = 2 * h[k - 1] + t[k]
  <2>1. CASE k = L + 1
    <3>1. k - 1 = L /\ L \in 0 .. L
      BY <2>1, <1>1
    <3> HIDE DEF h
    <3> QED BY <2>1, <3>1, <1>1, <1>2, <1>3, <1>5
  <2>2. CASE k \in 1 .. L
    <3>1. k \in 0 .. L /\ k - 1 \in 0 .. L
      BY <2>2, <1>1
    <3>2. val[k] = 2 * val[k - 1] + s[k] /\ t[k] = s[k]
      BY <2>2, <1>1, <1>2
    <3>3. h[k] = val[k] /\ h[k - 1] = val[k - 1]
      BY <3>1, <1>5
    <3> HIDE DEF h
    <3> QED BY <3>2, <3>3
  <2> QED BY <2>1, <2>2, <1>1
<1>7. h[0] = 1
  <2>1. 0 \in 0 .. L
    BY <1>1
  <2> HIDE DEF h
  <2> QED BY <2>1, <1>2, <1>5
<1> HIDE DEF h
<1>8. Worth(p, t)
  BY <1>1, <1>4, <1>5, <1>6, <1>7 DEF Worth
<1> QED BY <1>8 DEF p, t

LEMMA CodesWorth ==
  ASSUME NEW n \in 1 .. 127
  PROVE  Worth(n, CodesOf(n))
<1> DEFINE D == {k \in 0 .. 127 : \A j \in 1 .. k : Worth(j, CodesOf(j))}
           N == 127
<1>1. 0 \in D
  OBVIOUS
<1>2. ASSUME NEW k \in 0 .. N, k \in D, k < N PROVE k + 1 \in D
  <2> DEFINE i == k + 1
  <2>1. i \in 1 .. 127 /\ i \in 0 .. 127 /\ \A j \in 1 .. i : j \in 1 .. k \/ j = i
    BY <1>2
  <2>0. k >= 0 /\ k \in Int
    BY <1>2
  <2>2. \A j \in 1 .. k : Worth(j, CodesOf(j))
    BY <1>2
  <2>3. i = k + 1
    OBVIOUS
  <2> HIDE DEF i
  <2>4. Worth(i, CodesOf(i))
    <3>1. CASE i <= 1
      <4>1. CodesOf(i) = <<>> /\ i = 1
        BY <3>1, <2>1, CodesAre, SMTT(30)
      <4> DEFINE e == <<>>
                 h == [m_ \in 0 .. 0 |-> 1]
      <4>2. Len(e) = 0 /\ h \in [0 .. 0 -> Nat] /\ h[0] = 1
        OBVIOUS
      <4>3. \A j \in 1 .. 0 : FALSE
        OBVIOUS
      <4> HIDE DEF e, h
      <4>4. Worth(1, e)
        BY <4>2, <4>3 DEF Worth
      <4> QED BY <4>1, <4>4 DEF e
    <3>2. CASE ~ (i <= 1)
      <4> DEFINE q == i \div 2
                 b == i % 2
      <4>1. q \in 1 .. k /\ b \in {0, 1} /\ i = 2 * q + b /\ q \in Nat /\ q \in 0 .. 127
        BY <3>2, <2>0, <2>1, <2>3
      <4>2. CodesOf(i) = Append(CodesOf(q), b)
        BY <3>2, <2>1, CodesAre
      <4> HIDE DEF q, b
      <4>3. CodesOf(q) \in Seq({0, 1})
        BY <4>1, CodesTyped
      <4>4. Worth(q, CodesOf(q))
        BY <4>1, <2>2
      <4> DEFINE s == CodesOf(q)
      <4> HIDE DEF s
      <4>5. Worth(2 * q + b, Append(s, b))
        BY <4>1, <4>3, <4>4, WorthMore DEF s
      <4> QED BY <4>1, <4>2, <4>5 DEF s
    <3> QED BY <3>1, <3>2
  <2> QED BY <2>1, <2>2, <2>3, <2>4
<1>3. N \in Nat /\ n \in 0 .. N /\ n \in 1 .. n
  OBVIOUS
<1> HIDE DEF D, N
<1>4. 0 .. N \subseteq D
  BY <1>1, <1>2, <1>3, UpTo
<1> QED BY <1>3, <1>4 DEF D

\* Where an entry with codes is in morse_table: no two letters have the same.
PlaceOfCode(n) ==
    CASE n = 107 -> 1 [] n = 82 -> 2 [] n = 94 -> 7 [] n = 54 -> 8 [] n = 109 -> 9 [] n = 115 -> 12
      [] n = 97 -> 13 [] n = 85 -> 14 [] n = 63 -> 16 [] n = 47 -> 17 [] n = 39 -> 18 [] n = 35 -> 19
      [] n = 33 -> 20 [] n = 32 -> 21 [] n = 48 -> 22 [] n = 56 -> 23 [] n = 60 -> 24 [] n = 62 -> 25
      [] n = 120 -> 26 [] n = 106 -> 27 [] n = 49 -> 29 [] n = 76 -> 31 [] n = 90 -> 32 [] n = 5 -> 33
      [] n = 24 -> 34 [] n = 26 -> 35 [] n = 12 -> 36 [] n = 2 -> 37 [] n = 18 -> 38 [] n = 14 -> 39
      [] n = 16 -> 40 [] n = 4 -> 41 [] n = 23 -> 42 [] n = 13 -> 43 [] n = 20 -> 44 [] n = 7 -> 45
      [] n = 6 -> 46 [] n = 15 -> 47 [] n = 22 -> 48 [] n = 29 -> 49 [] n = 10 -> 50 [] n = 8 -> 51
      [] n = 3 -> 52 [] n = 9 -> 53 [] n = 17 -> 54 [] n = 11 -> 55 [] n = 25 -> 56 [] n = 27 -> 57
      [] n = 28 -> 58 [] OTHER -> 0

LEMMA MorseOnce ==
  ASSUME NEW i \in 1 .. 90, morse_table[i] > 1
  PROVE  i = PlaceOfCode(morse_table[i])
<1> DEFINE a == << 107, 82, 1, 1, 1, 1, 94, 54, 109, 1, 1, 115, 97, 85, 1, 63, 47, 39, 35,
       33, 32, 48, 56, 60, 62, 120, 106, 1, 49, 1, 76, 90,
       5, 24, 26, 12, 2, 18, 14, 16, 4, 23, 13, 20, 7, 6, 15, 22, 29, 10, 8, 3,
       9, 17, 11, 25, 27, 28 >>
           b == [j \in 1 .. 32 |-> 1]
<1>1. a \in Seq(Nat) /\ Len(a) = 58
  OBVIOUS
<1>2. b \in Seq(Nat) /\ Len(b) = 32 /\ \A j \in 1 .. 32 : b[j] = 1
  <2>1. b = [j \in 1 .. 32 |-> b[j]] /\ \A j \in 1 .. 32 : b[j] = 1 /\ b[j] \in Nat
    OBVIOUS
  <2> HIDE DEF b
  <2> QED BY <2>1, ListIs
<1>3. morse_table = a \o b
  BY DEF morse_table
<1>4. \A j \in 1 .. 14 : a[j] > 1 => j = PlaceOfCode(a[j])
  <2>1. a[1] = 107 /\ a[2] = 82 /\ a[3] = 1 /\ a[4] = 1 /\ a[5] = 1 /\ a[6] = 1 /\ a[7] = 94
      /\ a[8] = 54 /\ a[9] = 109 /\ a[10] = 1 /\ a[11] = 1 /\ a[12] = 115 /\ a[13] = 97
      /\ a[14] = 85
    OBVIOUS
  <2>2. PlaceOfCode(107) = 1 /\ PlaceOfCode(82) = 2 /\ PlaceOfCode(94) = 7
      /\ PlaceOfCode(54) = 8 /\ PlaceOfCode(109) = 9 /\ PlaceOfCode(115) = 12
      /\ PlaceOfCode(97) = 13 /\ PlaceOfCode(85) = 14
    BY DEF PlaceOfCode
  <2>3. \A j \in 1 .. 14 : j = 1 \/ j = 2 \/ j = 3 \/ j = 4 \/ j = 5 \/ j = 6 \/ j = 7 \/ j = 8
      \/ j = 9 \/ j = 10 \/ j = 11 \/ j = 12 \/ j = 13 \/ j = 14
    OBVIOUS
  <2> HIDE DEF a
  <2> QED BY <2>1, <2>2, <2>3
<1>5. \A j \in 15 .. 28 : a[j] > 1 => j = PlaceOfCode(a[j])
  <2>1. a[15] = 1 /\ a[16] = 63 /\ a[17] = 47 /\ a[18] = 39 /\ a[19] = 35 /\ a[20] = 33
      /\ a[21] = 32 /\ a[22] = 48 /\ a[23] = 56 /\ a[24] = 60 /\ a[25] = 62 /\ a[26] = 120
      /\ a[27] = 106 /\ a[28] = 1
    OBVIOUS
  <2>2. PlaceOfCode(63) = 16 /\ PlaceOfCode(47) = 17 /\ PlaceOfCode(39) = 18
      /\ PlaceOfCode(35) = 19 /\ PlaceOfCode(33) = 20 /\ PlaceOfCode(32) = 21
      /\ PlaceOfCode(48) = 22 /\ PlaceOfCode(56) = 23 /\ PlaceOfCode(60) = 24
      /\ PlaceOfCode(62) = 25 /\ PlaceOfCode(120) = 26 /\ PlaceOfCode(106) = 27
    BY DEF PlaceOfCode
  <2>3. \A j \in 15 .. 28 : j = 15 \/ j = 16 \/ j = 17 \/ j = 18 \/ j = 19 \/ j = 20 \/ j = 21
      \/ j = 22 \/ j = 23 \/ j = 24 \/ j = 25 \/ j = 26 \/ j = 27 \/ j = 28
    OBVIOUS
  <2> HIDE DEF a
  <2> QED BY <2>1, <2>2, <2>3
<1>6. \A j \in 29 .. 43 : a[j] > 1 => j = PlaceOfCode(a[j])
  <2>1. a[29] = 49 /\ a[30] = 1 /\ a[31] = 76 /\ a[32] = 90 /\ a[33] = 5 /\ a[34] = 24
      /\ a[35] = 26 /\ a[36] = 12 /\ a[37] = 2 /\ a[38] = 18 /\ a[39] = 14 /\ a[40] = 16
      /\ a[41] = 4 /\ a[42] = 23 /\ a[43] = 13
    OBVIOUS
  <2>2. PlaceOfCode(49) = 29 /\ PlaceOfCode(76) = 31 /\ PlaceOfCode(90) = 32
      /\ PlaceOfCode(5) = 33 /\ PlaceOfCode(24) = 34 /\ PlaceOfCode(26) = 35
      /\ PlaceOfCode(12) = 36 /\ PlaceOfCode(2) = 37 /\ PlaceOfCode(18) = 38
      /\ PlaceOfCode(14) = 39 /\ PlaceOfCode(16) = 40 /\ PlaceOfCode(4) = 41
      /\ PlaceOfCode(23) = 42 /\ PlaceOfCode(13) = 43
    BY DEF PlaceOfCode
  <2>3. \A j \in 29 .. 43 : j = 29 \/ j = 30 \/ j = 31 \/ j = 32 \/ j = 33 \/ j = 34 \/ j = 35
      \/ j = 36 \/ j = 37 \/ j = 38 \/ j = 39 \/ j = 40 \/ j = 41 \/ j = 42 \/ j = 43
    OBVIOUS
  <2> HIDE DEF a
  <2> QED BY <2>1, <2>2, <2>3
<1>7. \A j \in 44 .. 58 : a[j] > 1 => j = PlaceOfCode(a[j])
  <2>1. a[44] = 20 /\ a[45] = 7 /\ a[46] = 6 /\ a[47] = 15 /\ a[48] = 22 /\ a[49] = 29
      /\ a[50] = 10 /\ a[51] = 8 /\ a[52] = 3 /\ a[53] = 9 /\ a[54] = 17 /\ a[55] = 11
      /\ a[56] = 25 /\ a[57] = 27 /\ a[58] = 28
    OBVIOUS
  <2>2. PlaceOfCode(20) = 44 /\ PlaceOfCode(7) = 45 /\ PlaceOfCode(6) = 46
      /\ PlaceOfCode(15) = 47 /\ PlaceOfCode(22) = 48 /\ PlaceOfCode(29) = 49
      /\ PlaceOfCode(10) = 50 /\ PlaceOfCode(8) = 51 /\ PlaceOfCode(3) = 52
      /\ PlaceOfCode(9) = 53 /\ PlaceOfCode(17) = 54 /\ PlaceOfCode(11) = 55
      /\ PlaceOfCode(25) = 56 /\ PlaceOfCode(27) = 57 /\ PlaceOfCode(28) = 58
    BY DEF PlaceOfCode
  <2>3. \A j \in 44 .. 58 : j = 44 \/ j = 45 \/ j = 46 \/ j = 47 \/ j = 48 \/ j = 49 \/ j = 50
      \/ j = 51 \/ j = 52 \/ j = 53 \/ j = 54 \/ j = 55 \/ j = 56 \/ j = 57 \/ j = 58
    OBVIOUS
  <2> HIDE DEF a
  <2> QED BY <2>1, <2>2, <2>3
<1> HIDE DEF a, b
<1> DEFINE n == 58
<1>10. n \in Nat /\ Len(a) = n /\ 1 .. 58 = 1 .. n
  BY <1>1
<1> HIDE DEF n
<1>11. \A j \in 1 .. n : morse_table[j] = a[j]
  BY <1>1, <1>2, <1>3, <1>10
<1>12. \A j \in 1 .. 32 : morse_table[n + j] = b[j]
  <2> DEFINE k == 32
  <2>1. k \in Nat /\ Len(b) = k
    BY <1>2
  <2> HIDE DEF k
  <2>2. \A j \in 1 .. k : morse_table[n + j] = b[j]
    <3>1. \A j \in 1 .. n + k : morse_table[j] = IF j <= n THEN a[j] ELSE b[j - n]
      <4>1. a \in Seq(Nat) /\ b \in Seq(Nat)
        BY <1>1, <1>2
      <4>2. \A j \in 1 .. Len(a) + Len(b) : (a \o b)[j] = IF j <= Len(a) THEN a[j] ELSE b[j - Len(a)]
        BY <4>1, ConcatProperties
      <4> QED BY <4>2, <1>3, <1>10, <2>1
    <3>2. \A j \in 1 .. k : n + j \in 1 .. n + k /\ ~ (n + j <= n) /\ (n + j) - n = j
      BY <1>10, <2>1
    <3> QED BY <3>1, <3>2
  <2> QED BY <2>2 DEF k
<1>8. CASE i \in 1 .. 58
  <2>1. morse_table[i] = a[i]
    BY <1>8, <1>10, <1>11
  <2>2. i \in 1 .. 14 \/ i \in 15 .. 28 \/ i \in 29 .. 43 \/ i \in 44 .. 58
    BY <1>8
  <2> QED BY <2>1, <2>2, <1>4, <1>5, <1>6, <1>7
<1>9. CASE i \in 59 .. 90
  <2> DEFINE j == i - 58
  <2>1. j \in 1 .. 32 /\ i = n + j
    BY <1>9 DEF n
  <2> HIDE DEF j
  <2>2. morse_table[i] = 1
    BY <2>1, <1>2, <1>12
  <2>3. ~ (1 > 1)
    OBVIOUS
  <2> QED BY <2>2, <2>3
<1> QED BY <1>8, <1>9

LEMMA LetterBack ==
  ASSUME NEW c \in Int, HasMorse(c)
  PROVE  Letter(morse_table[c - 32]) = c
<1> DEFINE n == morse_table[c - 32]
           i == c - 32
           at == {j \in DOMAIN morse_table : morse_table[j] = n}
<1>1. i \in 1 .. 90 /\ n > 1 /\ n = morse_table[i] /\ c = 32 + i
  BY MorseIs DEF HasMorse
<1>2. DOMAIN morse_table = 1 .. 90
  BY MorseEntries
<1>3. Letter(n) = IF at = {} THEN 0 ELSE polybius_alphabet[Min(at)]
  BY DEF Letter
<1>4. \A j \in at : j \in 1 .. 90 /\ morse_table[j] = n
  BY <1>2
<1>5. i \in at
  BY <1>1, <1>2
<1> HIDE DEF n, i, at
<1>6. \A j \in at : j = i
  <2> SUFFICES ASSUME NEW j \in at PROVE j = i
    OBVIOUS
  <2>1. j = PlaceOfCode(n)
    BY <1>1, <1>4, MorseOnce
  <2>2. i = PlaceOfCode(n)
    BY <1>1, MorseOnce
  <2> QED BY <2>1, <2>2
<1>7. at = {i}
  BY <1>5, <1>6
<1>8. Min({i}) = i
  BY <1>1 DEF Min
<1>9. polybius_alphabet[i] = 32 + i
  <2>1. i \in 1 .. 94
    BY <1>1
  <2> QED BY <2>1 DEF polybius_alphabet
<1>10. Letter(n) = c
  BY <1>1, <1>3, <1>7, <1>8, <1>9
<1> QED BY <1>10 DEF n

\* What is printed for a code that is a letter with codes has more than the first digit.
LEMMA LetterFrom ==
  ASSUME NEW n \in Int, HasMorse(Letter(n))
  PROVE  n > 1
<1> DEFINE at == {j \in DOMAIN morse_table : morse_table[j] = n}
<1>1. Letter(n) = IF at = {} THEN 0 ELSE polybius_alphabet[Min(at)]
  BY DEF Letter
<1>2. Letter(n) \in 33 .. 122 /\ morse_table[Letter(n) - 32] > 1
  BY DEF HasMorse
<1>3. at \subseteq 1 .. 90 /\ \A j \in at : morse_table[j] = n
  BY MorseEntries
<1>4. at # {}
  BY <1>1, <1>2
<1> HIDE DEF at
<1>5. Min(at) \in at
  <2>1. at \subseteq Nat
    BY <1>3
  <2>2. PICK d \in at : \A e \in at : d <= e
    BY <2>1, <1>4, LeastNumber
  <2> QED BY <2>2 DEF Min
<1> DEFINE i == Min(at)
<1>6. i \in 1 .. 90 /\ i \in 1 .. 94
  <2>1. i \in 1 .. 90
    BY <1>3, <1>5
  <2> HIDE DEF i
  <2> QED BY <2>1
<1>7. Letter(n) = polybius_alphabet[i]
  BY <1>1, <1>4
<1>8. morse_table[i] = n
  BY <1>3, <1>5
<1> HIDE DEF i
<1>9. Letter(n) = 32 + i
  BY <1>6, <1>7 DEF polybius_alphabet
<1>10. Letter(n) - 32 = i
  BY <1>6, <1>9
<1> QED BY <1>2, <1>8, <1>10

-----------------------------------------------------------------------------
(* What the codes do to the decoder                                        *)

\* From v the codes are taken one by one, to w.
Took(v, codes, w) ==
    \E f \in [0 .. Len(codes) -> Machines] :
       /\ f[0] = v /\ f[Len(codes)] = w
       /\ \A n \in 1 .. Len(codes) : f[n] = TakeCode(f[n - 1], codes[n])

\* The codes of a letter and the x after it print the letter.
LEMMA LetterTook ==
  ASSUME NEW v \in Machines, v.anti = 1, NEW n \in Nat, NEW codes \in Seq({0, 1}), codes # <<>>,
         Worth(n, codes), NEW w, Took(v, Append(codes, 2), w)
  PROVE  /\ w \in Machines /\ w.status = v.status /\ w.anti = 1 /\ w.xIsDetected = TRUE
         /\ w.out = Append(v.out, Letter(n))
<1> DEFINE t == Append(codes, 2)
           L == Len(codes)
<1>1. Len(t) = L + 1 /\ (\A i \in 1 .. L : t[i] = codes[i]) /\ t[L + 1] = 2 /\ L \in Nat
  <2>1. codes \in Seq(Int) /\ 2 \in Int
    BY BitsAreCodes
  <2> QED BY <2>1, AppendIs
<1>2. L # 0 /\ \A k \in 1 .. L : codes[k] \in {0, 1}
  OBVIOUS
<1>3. PICK f \in [0 .. Len(t) -> Machines] :
        f[0] = v /\ f[Len(t)] = w /\ \A k \in 1 .. Len(t) : f[k] = TakeCode(f[k - 1], t[k])
  BY DEF Took
<1>4. PICK val \in [0 .. L -> Nat] :
        /\ val[0] = 1 /\ val[L] = n
        /\ \A k \in 1 .. L : val[k] = 2 * val[k - 1] + codes[k]
  BY DEF Worth
<1> HIDE DEF t, L
<1> DEFINE D == {k \in 0 .. L : /\ f[k].anti = val[k] /\ f[k].out = v.out /\ f[k].status = v.status
                                /\ (k # 0 => f[k].xIsDetected = FALSE)}
<1>5. 0 \in D
  BY <1>1, <1>3, <1>4
<1>6. ASSUME NEW k \in 0 .. L, k \in D, k < L PROVE k + 1 \in D
  <2>1. k + 1 \in 1 .. L /\ k + 1 \in 1 .. Len(t) /\ (k + 1) - 1 = k /\ k \in 0 .. Len(t) /\ k + 1 # 0
        /\ k + 1 \in 0 .. L
    BY <1>1, <1>6
  <2>2. f[k + 1] = TakeCode(f[k], codes[k + 1]) /\ f[k] \in Machines
    BY <2>1, <1>1, <1>3
  <2>3. codes[k + 1] \in {0, 1}
    BY <2>1, <1>2
  <2> DEFINE c == codes[k + 1]
  <2>4. c \in Int /\ c # 2
    BY <2>3
  <2>5. Taking(f[k], c, f[k + 1])
    BY <2>2, <2>4, TakeIs
  <2>6. val[k + 1] = 2 * val[k] + c
    BY <2>1, <1>4
  <2> HIDE DEF c
  <2>7. /\ f[k + 1].anti = val[k + 1] /\ f[k + 1].out = v.out /\ f[k + 1].status = v.status
        /\ f[k + 1].xIsDetected = FALSE
    BY <1>6, <2>4, <2>5, <2>6 DEF Taking
  <2> QED BY <2>1, <2>7
<1> HIDE DEF D
<1>7. 0 .. L \subseteq D
  BY <1>1, <1>5, <1>6, UpTo
<1>8. /\ f[L].anti = n /\ f[L].out = v.out /\ f[L].status = v.status /\ f[L].xIsDetected = FALSE
      /\ f[L] \in Machines
  <2>1. L \in 0 .. L /\ L \in 0 .. Len(t)
    BY <1>1
  <2>2. L \in D
    BY <2>1, <1>7
  <2> QED BY <2>1, <2>2, <1>2, <1>3, <1>4 DEF D
<1>9. Taking(f[L], 2, w)
  <2>1. L + 1 \in 1 .. Len(t) /\ (L + 1) - 1 = L /\ 2 \in Int
    BY <1>1
  <2>2. w = TakeCode(f[L], 2)
    BY <2>1, <1>1, <1>3
  <2> QED BY <2>1, <2>2, <1>8, TakeIs
<1> QED BY <1>8, <1>9 DEF Taking

LEMMA TookOne ==
  ASSUME NEW v, NEW c, NEW w, Took(v, <<c>>, w)
  PROVE  v \in Machines /\ w = TakeCode(v, c)
<1> DEFINE e == <<c>>
<1>1. Len(e) = 1 /\ e[1] = c
  OBVIOUS
<1> HIDE DEF e
<1>2. PICK f \in [0 .. 1 -> Machines] : f[0] = v /\ f[1] = w /\ \A k \in 1 .. 1 : f[k] = TakeCode(f[k - 1], e[k])
  BY <1>1 DEF Took, e
<1>3. 1 \in 1 .. 1 /\ 1 - 1 = 0 /\ 0 \in 0 .. 1
  OBVIOUS
<1> QED BY <1>1, <1>2, <1>3

LEMMA TookNone ==
  ASSUME NEW v, NEW w, Took(v, <<>>, w)
  PROVE  w = v
  BY DEF Took

\* Codes can always be taken.
LEMMA TookSome ==
  ASSUME NEW v \in Machines, NEW codes \in Seq(Int)
  PROVE  \E f : /\ f \in [0 .. Len(codes) -> Machines] /\ f[0] = v
                /\ \A n \in 1 .. Len(codes) : f[n] = TakeCode(f[n - 1], codes[n])
<1> DEFINE N == Len(codes)
           g == [n \in 1 .. N |-> [r \in Machines |-> TakeCode(r, codes[n])]]
<1>1. N \in Nat /\ \A n \in 1 .. N : codes[n] \in Int
  OBVIOUS
<1>2. \A n \in 1 .. N, r \in Machines : TakeCode(r, codes[n]) \in Machines
  BY <1>1, TakeIs DEF Taking
<1>3. OfSteps(g, N, Machines)
  BY <1>2 DEF OfSteps
<1>4. \A n \in 1 .. N, r \in Machines : g[n][r] = TakeCode(r, codes[n])
  OBVIOUS
<1> HIDE DEF g, N
<1>5. PICK f : Taken(f, N, Machines, v, g)
  BY <1>1, <1>3, StepByStep
<1>6. f \in [0 .. N -> Machines] /\ f[0] = v /\ \A n \in 1 .. N : f[n] = g[n][f[n - 1]]
  BY <1>5 DEF Taken
<1>7. \A n \in 1 .. N : n - 1 \in 0 .. N
  BY <1>1
<1>8. \A n \in 1 .. N : f[n] = TakeCode(f[n - 1], codes[n])
  BY <1>4, <1>6, <1>7
<1> QED BY <1>6, <1>8 DEF N

\* A decoder that has read what is printed, after the codes that wait as well.
Ahead(d, r) ==
    IF r.curPosit = 0 THEN d
    ELSE IF r.curPosit = 1 THEN TakeCode(d, r.posit[1])
    ELSE TakeCode(TakeCode(d, r.posit[1]), r.posit[2])

Reads(d, o) == d \in Machines /\ d.status = "ok" /\ Runs(Static, o, d)
Reaches(r, v) == \E d : Reads(d, r.out) /\ v = Ahead(d, r)

LEMMA FullTaken ==
  ASSUME Keyed, fm, NEW r, NEW code, NEW q, Full(r, code, q), NEW v, Reaches(r, v)
  PROVE  Reaches(q, TakeCode(v, code))
<1>1. PICK d : Reads(d, r.out) /\ v = Ahead(d, r)
  BY DEF Reaches
<1>2. r \in Machines /\ r.curPosit \in 0 .. 2 /\ r.out \in Seq(Int)
  BY FullIs DEF Full, Machines
<1>3. CASE r.curPosit = 0
  <2>1. q.curPosit = 1 /\ q.posit[1] = code /\ q.out = r.out
    BY <1>3, FullIs, FullPrints
  <2>2. Ahead(d, q) = TakeCode(v, code)
    BY <1>1, <1>3, <2>1 DEF Ahead
  <2> QED BY <1>1, <2>1, <2>2 DEF Reaches
<1>4. CASE r.curPosit = 1
  <2>1. q.curPosit = 2 /\ q.posit[1] = r.posit[1] /\ q.posit[2] = code /\ q.out = r.out
    BY <1>4, FullIs, FullPrints
  <2>2. Ahead(d, q) = TakeCode(v, code)
    BY <1>1, <1>4, <2>1 DEF Ahead
  <2> QED BY <1>1, <2>1, <2>2 DEF Reaches
<1>5. CASE r.curPosit = 2
  <2>1. q.curPosit = 0
    BY <1>5, FullIs
  <2>2. PICK c \in Range(table) :
          /\ q.out = Append(r.out, c)
          /\ fractionated_table(Place(c)) = <<r.posit[1], r.posit[2], code>>
          /\ r.posit[1] \in 0 .. 2 /\ r.posit[2] \in 0 .. 2 /\ code \in 0 .. 2
    BY <1>5, FullPrints
  <2>3. c \in 65 .. 90
    BY DEF Keyed
  <2> DEFINE e == Decrypted(c, d)
  <2>4. c \in Int /\ c # Newline
    BY <2>3 DEF Newline
  <2>5. e = FMDecrypt(c, d)
    BY <2>4 DEF Decrypted
  <2>6. e = TakeCode(TakeCode(TakeCode(d, r.posit[1]), r.posit[2]), code)
    <3> DEFINE t == fractionated_table(Place(c))
    <3>1. FMDecrypt(c, d) = TakeCode(TakeCode(TakeCode(d, t[1]), t[2]), t[3])
      BY <1>1, <2>3, FMDecryptIs DEF Reads
    <3>2. t = <<r.posit[1], r.posit[2], code>>
      BY <2>2
    <3> HIDE DEF t
    <3>3. t[1] = r.posit[1] /\ t[2] = r.posit[2] /\ t[3] = code
      BY <3>2
    <3> QED BY <2>5, <3>1, <3>3
  <2>7. e \in Machines /\ e.status = "ok"
    <3> DEFINE d1 == TakeCode(d, r.posit[1])
               d2 == TakeCode(d1, r.posit[2])
    <3>1. \A i \in 0 .. 2 : i \in Int
      OBVIOUS
    <3>2. d1 \in Machines /\ d1.status = "ok"
      BY <1>1, <2>2, <3>1, TakeIs DEF Taking, Reads
    <3> HIDE DEF d1
    <3>3. d2 \in Machines /\ d2.status = "ok"
      BY <2>2, <3>1, <3>2, TakeIs DEF Taking
    <3> HIDE DEF d2
    <3>4. TakeCode(d2, code) \in Machines /\ TakeCode(d2, code).status = "ok"
      BY <2>2, <3>1, <3>3, TakeIs DEF Taking
    <3> QED BY <2>6, <3>4 DEF d1, d2
  <2>8. Runs(Static, q.out, e)
    BY <1>1, <1>2, <2>2, <2>4, <2>7, RunsAppend DEF Reads
  <2>9. v = TakeCode(TakeCode(d, r.posit[1]), r.posit[2])
    BY <1>1, <1>5 DEF Ahead
  <2> HIDE DEF e
  <2>10. Ahead(e, q) = TakeCode(v, code)
    BY <2>1, <2>6, <2>9 DEF Ahead
  <2> QED BY <2>7, <2>8, <2>10 DEF Reaches, Reads
<1> QED BY <1>2, <1>3, <1>4, <1>5

LEMMA AlikeReaches ==
  ASSUME NEW a, NEW b, Alike(a, b), NEW v
  PROVE  Reaches(a, v) <=> Reaches(b, v)
<1>1. \A d : Ahead(d, a) = Ahead(d, b)
  BY DEF Alike, Ahead
<1> QED BY <1>1 DEF Reaches, Alike

\* The codes that are given to the slots are the codes the decoder will take.
LEMMA GivenTook ==
  ASSUME Keyed, fm, NEW r \in Machines, NEW codes \in Seq(Int), NEW q, Given(r, codes, q),
         NEW v \in Machines, Reaches(r, v)
  PROVE  \E w : Took(v, codes, w) /\ Reaches(q, w)
<1> DEFINE L == Len(codes)
<1>1. L \in Nat
  OBVIOUS
<1>2. PICK g \in [0 .. L -> Machines] :
        /\ Alike(g[0], r) /\ Alike(q, g[L])
        /\ \A n \in 1 .. L : Full(g[n - 1], codes[n], g[n])
  BY DEF Given
<1>3. PICK f : /\ f \in [0 .. L -> Machines] /\ f[0] = v
               /\ \A n \in 1 .. L : f[n] = TakeCode(f[n - 1], codes[n])
  BY TookSome
<1>4. Took(v, codes, f[L])
  BY <1>3 DEF Took
<1> HIDE DEF L
<1> DEFINE D == {n \in 0 .. L : Reaches(g[n], f[n])}
<1>5. 0 \in D
  <2>1. Reaches(g[0], v)
    BY <1>2, AlikeReaches
  <2> QED BY <2>1, <1>1, <1>3
<1>6. ASSUME NEW n \in 0 .. L, n \in D, n < L PROVE n + 1 \in D
  <2>1. n + 1 \in 1 .. L /\ (n + 1) - 1 = n /\ n + 1 \in 0 .. L
    BY <1>1, <1>6
  <2>2. Full(g[n], codes[n + 1], g[n + 1]) /\ f[n + 1] = TakeCode(f[n], codes[n + 1])
    BY <2>1, <1>2, <1>3
  <2>3. Reaches(g[n + 1], f[n + 1])
    BY <1>6, <2>2, FullTaken
  <2> QED BY <2>1, <2>3
<1> HIDE DEF D
<1>7. 0 .. L \subseteq D
  BY <1>1, <1>5, <1>6, UpTo
<1>8. Reaches(q, f[L])
  <2>1. L \in 0 .. L
    BY <1>1
  <2>2. Reaches(g[L], f[L])
    BY <2>1, <1>7 DEF D
  <2> QED BY <2>2, <1>2, AlikeReaches
<1> QED BY <1>4, <1>8

-----------------------------------------------------------------------------
(* A decoder that has read a text                                          *)

\* Texts that fractionated Morse can carry: no space begins a line.
Fits(s) ==
    \A i \in DOMAIN s : \/ s[i] = Newline \/ HasMorse(s[i])
                        \/ s[i] = Space /\ ~ (i = 1 \/ s[i - 1] = Newline)

LEMMA FitsMore ==
  ASSUME NEW s \in Seq(Int), NEW c \in Int, Fits(Append(s, c))
  PROVE  /\ Fits(s) /\ c \in Coded \union {Newline}
         /\ c = Space => Kind(s) \in {"letter", "space"}
<1> DEFINE t == Append(s, c)
           N == Len(s)
<1>1. t \in Seq(Int) /\ Len(t) = N + 1 /\ (\A i \in 1 .. N : t[i] = s[i]) /\ t[N + 1] = c /\ N \in Nat
  BY AppendIs
<1>2. DOMAIN t = 1 .. N + 1 /\ DOMAIN s = 1 .. N
  BY <1>1
<1> HIDE DEF t
<1>3. \A i \in 1 .. N + 1 : \/ t[i] = Newline \/ HasMorse(t[i])
                            \/ t[i] = Space /\ ~ (i = 1 \/ t[i - 1] = Newline)
  BY <1>2 DEF Fits, t
<1>4. Fits(s)
  <2> SUFFICES ASSUME NEW i \in 1 .. N
               PROVE  \/ s[i] = Newline \/ HasMorse(s[i])
                      \/ s[i] = Space /\ ~ (i = 1 \/ s[i - 1] = Newline)
    BY <1>2 DEF Fits
  <2>1. i \in 1 .. N + 1 /\ t[i] = s[i] /\ (i # 1 => i - 1 \in 1 .. N)
    BY <1>1
  <2>2. i # 1 => t[i - 1] = s[i - 1]
    BY <1>1, <2>1
  <2> QED BY <1>3, <2>1, <2>2
<1>5. N + 1 \in 1 .. N + 1 /\ (N + 1) - 1 = N
  BY <1>1
<1>6. \/ c = Newline \/ HasMorse(c)
      \/ c = Space /\ ~ (N + 1 = 1 \/ t[N] = Newline)
  <2>1. \/ t[N + 1] = Newline \/ HasMorse(t[N + 1])
        \/ t[N + 1] = Space /\ ~ (N + 1 = 1 \/ t[(N + 1) - 1] = Newline)
    BY <1>3, <1>5
  <2> QED BY <1>1, <1>5, <2>1
<1>7. c \in Coded \union {Newline}
  BY <1>6 DEF Coded
<1>8. ASSUME c = Space PROVE Kind(s) \in {"letter", "space"}
  <2>1. c # Newline /\ ~ HasMorse(c)
    BY <1>8 DEF Space, Newline, HasMorse
  <2>2. N # 0 /\ t[N] # Newline
    BY <1>1, <1>6, <2>1
  <2>3. N \in 1 .. N /\ s # <<>>
    BY <1>1, <2>2
  <2>4. s[N] # Newline
    BY <1>1, <2>2, <2>3
  <2> QED BY <2>3, <2>4 DEF Kind, KindOf
<1> QED BY <1>4, <1>7, <1>8

LEMMA FitsPlain ==
  ASSUME NEW s, Fits(s)
  PROVE  Plain(s)
  BY DEF Fits, Plain

\* v has read the codes of s: it has printed its words, and is between two letters.
Tidy(v, s) ==
    /\ v \in Machines /\ v.status = "ok" /\ v.anti = 1
    /\ v.xIsDetected = (Kind(s) = "letter")
    /\ Kind(v.out) = Kind(s) /\ Squeezed(v.out) = Squeezed(s)
    /\ Kind(s) = "letter" => \E x \in Seq(Int), c \in Int : HasMorse(c) /\ v.out = Append(x, c)
    /\ Kind(s) = "space" =>
         \E x \in Seq(Int), c \in Int : HasMorse(c) /\ v.out = Append(Append(x, c), Space)

LEMMA TidyNone == Tidy(Static, <<>>)
<1>1. Static \in Machines /\ Idle(Static, <<>>)
  BY StaticIdle
<1>2. Kind(<<>>) = "none"
  BY DEF Kind
<1> QED BY <1>1, <1>2 DEF Tidy, Idle

\* A letter.
LEMMA TidyLetter ==
  ASSUME NEW s \in Seq(Int), NEW c \in Int, HasMorse(c), NEW v, Tidy(v, s),
         NEW w, Took(v, Piece(Kind(s), c), w)
  PROVE  Tidy(w, Append(s, c))
<1> DEFINE n == morse_table[c - 32]
           codes == CodesOf(n)
<1>1. c # Space /\ c # Newline /\ KindOf(c) = "letter" /\ n \in 2 .. 120 /\ codes \in Seq({0, 1})
      /\ codes # <<>>
  BY MorseIs
<1>2. Letter(n) = c
  BY LetterBack
<1>3. Worth(n, codes)
  <2> HIDE DEF n
  <2>1. n \in 1 .. 127
    BY <1>1
  <2> QED BY <2>1, CodesWorth
<1>4. Piece(Kind(s), c) = Append(codes, 2)
  <2>1. Piece(Kind(s), c) = codes \o <<2>>
    BY <1>1 DEF Piece
  <2> HIDE DEF codes
  <2> QED BY <2>1, <1>1, BitsAreCodes
<1>5. v \in Machines /\ v.status = "ok" /\ v.anti = 1 /\ v.out \in Seq(Int)
  BY DEF Tidy, Machines
<1> HIDE DEF n, codes
<1>6. n \in Nat
  BY <1>1
<1>7. w \in Machines /\ w.status = "ok" /\ w.anti = 1 /\ w.xIsDetected = TRUE /\ w.out = Append(v.out, c)
  <2>1. Took(v, Append(codes, 2), w)
    BY <1>4
  <2>2. codes \in Seq({0, 1}) /\ codes # <<>>
    BY <1>1
  <2>3. /\ w \in Machines /\ w.status = v.status /\ w.anti = 1 /\ w.xIsDetected = TRUE
        /\ w.out = Append(v.out, Letter(n))
    BY <2>1, <2>2, <1>3, <1>5, <1>6, LetterTook, ZenonT(30)
  <2> QED BY <2>3, <1>2, <1>5
<1>8. Kind(Append(s, c)) = "letter" /\ Kind(w.out) = "letter"
  BY <1>1, <1>5, <1>7, KindIs
<1>9. Squeezed(w.out) = Squeezed(Append(s, c))
  <2>1. Squeezed(w.out) = Squeezed(v.out) \o Tight(Kind(v.out), c)
    BY <1>5, <1>7, SqueezedIs
  <2>2. Squeezed(Append(s, c)) = Squeezed(s) \o Tight(Kind(s), c)
    BY SqueezedIs
  <2> QED BY <2>1, <2>2 DEF Tidy
<1> QED BY <1>5, <1>7, <1>8, <1>9 DEF Tidy

\* A space adds nothing to a text whose gaps are made one.
LEMMA SpaceSqueezed ==
  ASSUME NEW s \in Seq(Int)
  PROVE  Squeezed(Append(s, Space)) = Squeezed(s) /\ Squeezed(s) \in Seq(Int)
         /\ Kind(Append(s, Space)) = "space"
<1>1. Space \in Int /\ KindOf(Space) = "space"
  BY DEF Space, KindOf, Newline
<1>2. Squeezed(s) \in Seq(Int) /\ Squeezed(Append(s, Space)) = Squeezed(s) \o Tight(Kind(s), Space)
  BY <1>1, SqueezedIs
<1>3. Tight(Kind(s), Space) = <<>>
  BY DEF Tight
<1> DEFINE a == Squeezed(s)
<1>4. a \in Seq(Int)
  BY <1>2
<1> HIDE DEF a
<1>5. a \o <<>> = a
  BY <1>4
<1> QED BY <1>1, <1>2, <1>3, <1>4, <1>5, KindIs DEF a

\* A space, which does not begin a line.
LEMMA TidySpace ==
  ASSUME NEW s \in Seq(Int), Kind(s) \in {"letter", "space"}, NEW v, Tidy(v, s),
         NEW w, Took(v, Piece(Kind(s), Space), w)
  PROVE  Tidy(w, Append(s, Space))
<1>1. v \in Machines /\ v.status = "ok" /\ v.anti = 1 /\ v.out \in Seq(Int)
  BY DEF Tidy, Machines
<1>2. Kind(Append(s, Space)) = "space" /\ Squeezed(Append(s, Space)) = Squeezed(s)
  BY SpaceSqueezed
<1>3. CASE Kind(s) = "letter"
  <2>1. Piece(Kind(s), Space) = <<2>>
    BY <1>3 DEF Piece
  <2>2. w = TakeCode(v, 2)
    BY <2>1, TookOne
  <2>3. v.xIsDetected
    BY <1>3 DEF Tidy
  <2>4. Taking(v, 2, w)
    <3>1. 2 \in Int
      OBVIOUS
    <3> QED BY <1>1, <2>2, <3>1, TakeIs
  <2>5. w \in Machines /\ w.status = "ok" /\ w.anti = 1 /\ w.xIsDetected = FALSE
        /\ w.out = Append(v.out, Space)
    BY <1>1, <2>3, <2>4 DEF Taking
  <2>6. Kind(w.out) = "space" /\ Squeezed(w.out) = Squeezed(v.out)
    BY <1>1, <2>5, SpaceSqueezed
  <2>7. PICK x \in Seq(Int), c \in Int : HasMorse(c) /\ v.out = Append(x, c)
    BY <1>3 DEF Tidy
  <2>8. Squeezed(v.out) = Squeezed(s)
    BY DEF Tidy
  <2> QED BY <1>2, <2>5, <2>6, <2>7, <2>8 DEF Tidy
<1>4. CASE Kind(s) = "space"
  <2>1. Piece(Kind(s), Space) = <<>>
    BY <1>4 DEF Piece
  <2>2. w = v
    BY <2>1, TookNone
  <2> QED BY <1>2, <1>4, <2>2 DEF Tidy
<1> QED BY <1>3, <1>4

-----------------------------------------------------------------------------
(* The end of a line                                                       *)

LEMMA SameLast ==
  ASSUME NEW a \in Seq(Int), NEW b \in Seq(Int), NEW x \in Int, NEW y \in Int, Append(a, x) = Append(b, y)
  PROVE  a = b /\ x = y
BY AppendInjective

\* A Z in its own place ends a line: two x and a dash.
LEMMA ZIsTaken ==
  ASSUME Keyed, fm, table[26] = 90, NEW d \in Machines
  PROVE  FMDecrypt(90, d) = TakeCode(TakeCode(TakeCode(d, 2), 2), 1)
<1> DEFINE t == fractionated_table(Place(90))
<1>1. FMDecrypt(90, d) = TakeCode(TakeCode(TakeCode(d, t[1]), t[2]), t[3])
  <2>1. 90 \in 65 .. 90
    OBVIOUS
  <2> QED BY <2>1, FMDecryptIs
<1>2. Place(90) = 25
  <2>1. Len(table) = 26
    BY DEF Keyed
  <2>2. 26 \in 1 .. Len(table)
    BY <2>1
  <2>3. Place(table[26]) = 26 - 1
    BY <2>2, PlaceOf
  <2> QED BY <2>3
<1>3. fractionated_table(25) = <<2, 2, 1>>
  BY DEF fractionated_table
<1>4. t[1] = 2 /\ t[2] = 2 /\ t[3] = 1
  <2>1. t = <<2, 2, 1>>
    BY <1>2, <1>3
  <2> HIDE DEF t
  <2> QED BY <2>1
<1> HIDE DEF t
<1> QED BY <1>1, <1>4

\* The decoder before it prints the end of a line.
Rest(d) == IF d.anti > 1 THEN FMDecrypt(90, d) ELSE d

LEMMA RestTyped ==
  ASSUME Keyed, NEW d \in Machines, d.status = "ok"
  PROVE  Rest(d) \in Machines /\ Rest(d).status = "ok"
<1>1. 90 \in 65 .. 90
  OBVIOUS
<1> DEFINE t == fractionated_table(Place(90))
           q1 == TakeCode(d, t[1])
           q2 == TakeCode(q1, t[2])
<1>2. Taking(d, t[1], q1) /\ Taking(q1, t[2], q2) /\ Taking(q2, t[3], FMDecrypt(90, d))
  BY <1>1, FMDecryptIs
<1> HIDE DEF t, q1, q2
<1>3. FMDecrypt(90, d) \in Machines /\ FMDecrypt(90, d).status = "ok"
  BY <1>2 DEF Taking
<1> QED BY <1>3 DEF Rest

LEMMA LineEndRead ==
  ASSUME Keyed, fm, NEW d, NEW o \in Seq(Int), Reads(d, o), NEW s \in Seq(Int),
         Squeezed(Rest(d).out) = Squeezed(s)
  PROVE  \E e : Reads(e, Append(o, Newline)) /\ Tidy(e, Append(s, Newline))
<1> DEFINE f == Rest(d)
           e == Decrypted(Newline, d)
<1>1. d \in Machines /\ d.status = "ok" /\ Runs(Static, o, d)
  BY DEF Reads
<1>2. f \in Machines /\ f.status = "ok"
  BY <1>1, RestTyped
<1>3. e = [Printed(f, Newline) EXCEPT !.anti = 1, !.xIsDetected = FALSE, !.inputRow = -1]
  BY DEF Decrypted, DecryptNewline, Rest
<1>4. Squeezed(f.out) = Squeezed(s) /\ Newline \in Int
  BY DEF Newline
<1> HIDE DEF f
<1>5. f.out \in Seq(Int)
  BY <1>2 DEF Machines
<1>6. Idle(e, Append(f.out, Newline))
  BY <1>2, <1>3, NewlineDone
<1> HIDE DEF e
<1>7. e \in Machines /\ e.status = "ok" /\ e.anti = 1 /\ e.xIsDetected = FALSE /\ e.out = Append(f.out, Newline)
  BY <1>6 DEF Idle
<1>8. Reads(e, Append(o, Newline))
  BY <1>1, <1>4, <1>7, RunsAppend DEF Reads, e
<1>9. KindOf(Newline) = "none" /\ \A k : Tight(k, Newline) = <<Newline>>
  BY DEF KindOf, Tight, Newline, Space
<1>10. Kind(e.out) = "none" /\ Kind(Append(s, Newline)) = "none"
  BY <1>4, <1>5, <1>7, <1>9, KindIs
<1>11. Squeezed(e.out) = Squeezed(f.out) \o <<Newline>>
  <2>1. Squeezed(Append(f.out, Newline)) = Squeezed(f.out) \o Tight(Kind(f.out), Newline)
    BY <1>4, <1>5, SqueezedIs
  <2> QED BY <2>1, <1>7, <1>9
<1>12. Squeezed(Append(s, Newline)) = Squeezed(s) \o <<Newline>>
  <2>1. Squeezed(Append(s, Newline)) = Squeezed(s) \o Tight(Kind(s), Newline)
    BY <1>4, SqueezedIs
  <2> QED BY <2>1, <1>9
<1>13. Tidy(e, Append(s, Newline))
  BY <1>4, <1>7, <1>10, <1>11, <1>12 DEF Tidy
<1> QED BY <1>8, <1>13

\* An x that ends a letter with a code was read after its codes.
LEMMA LetterEnds ==
  ASSUME NEW d \in Machines, NEW w, Taking(d, 2, w), NEW x \in Seq(Int), NEW c \in Int, HasMorse(c),
         w.out = Append(x, c)
  PROVE  /\ d.anti > 1 /\ x = d.out
<1>1. d.out \in Seq(Int) /\ d.anti \in Int
  BY DEF Machines
<1>2. c # Space
  BY MorseIs
<1>3. ~ (d.xIsDetected /\ d.anti = 1)
  <2> SUFFICES ASSUME d.xIsDetected /\ d.anti = 1 PROVE FALSE
    OBVIOUS
  <2>1. Append(d.out, Space) = Append(x, c) /\ Space \in Int
    BY DEF Taking, Space
  <2>2. Space = c
    BY <2>1, <1>1, SameLast
  <2> QED BY <2>2, <1>2
<1>4. Append(d.out, Letter(d.anti)) = Append(x, c)
  BY <1>3 DEF Taking
<1> DEFINE l == Letter(d.anti)
           o == d.out
<1>5. l \in Int /\ o \in Seq(Int) /\ Append(o, l) = Append(x, c)
  BY <1>1, <1>4, LetterTyped
<1> HIDE DEF l, o
<1>6. o = x /\ l = c
  BY <1>5, SameLast
<1>7. Letter(d.anti) = c
  BY <1>6 DEF l
<1>8. d.anti > 1
  BY <1>1, <1>7, LetterFrom
<1> QED BY <1>6, <1>8 DEF o

\* One code waits, which is dropped: it is printed again with the Z, or was a space.
LEMMA EndAtOne ==
  ASSUME Keyed, fm, table[26] = 90, NEW d \in Machines, d.status = "ok", NEW v, v = TakeCode(d, 2),
         NEW s \in Seq(Int), Kind(s) \in {"letter", "space"}, Tidy(v, s)
  PROVE  Squeezed(Rest(d).out) = Squeezed(v.out)
<1>0. 2 \in Int /\ 1 \in Int /\ 1 # 2
  OBVIOUS
<1>1. Taking(d, 2, v) /\ v \in Machines /\ d.out \in Seq(Int) /\ v.out \in Seq(Int) /\ v.anti = 1
  BY <1>0, TakeIs DEF Machines, Tidy
<1>2. CASE Kind(s) = "letter"
  <2>1. v.xIsDetected
    BY <1>2 DEF Tidy
  <2>2. PICK x \in Seq(Int), c \in Int : HasMorse(c) /\ v.out = Append(x, c)
    BY <1>2 DEF Tidy
  <2>3. d.anti > 1
    BY <1>1, <2>2, LetterEnds
  <2> DEFINE a == TakeCode(v, 2)
             b == TakeCode(a, 1)
  <2>4. Taking(v, 2, a)
    BY <1>0, <1>1, TakeIs
  <2>5. Rest(d) = b
    BY <2>3, ZIsTaken DEF Rest
  <2> HIDE DEF a
  <2>6. a \in Machines /\ a.out = Append(v.out, Space)
    BY <1>1, <2>1, <2>4 DEF Taking
  <2>7. Taking(a, 1, b)
    BY <1>0, <2>6, TakeIs
  <2> HIDE DEF b
  <2>8. b.out = Append(v.out, Space)
    BY <1>0, <2>6, <2>7 DEF Taking
  <2> QED BY <1>1, <2>5, <2>8, SpaceSqueezed
<1>3. CASE Kind(s) = "space"
  <2>1. v.xIsDetected = FALSE
    BY <1>3 DEF Tidy
  <2>2. d.anti = 1 /\ v.out = Append(d.out, Space)
    BY <1>1, <2>1 DEF Taking
  <2>3. Rest(d) = d
    BY <2>2 DEF Rest
  <2> QED BY <1>1, <2>2, <2>3, SpaceSqueezed
<1> QED BY <1>2, <1>3

\* Two codes wait after a space, and are dropped: the Z prints the last letter.
LEMMA EndAtTwo ==
  ASSUME Keyed, fm, table[26] = 90, NEW d \in Machines, d.status = "ok", NEW v,
         v = TakeCode(TakeCode(d, 2), 2), NEW s \in Seq(Int), Kind(s) = "space", Tidy(v, s)
  PROVE  Squeezed(Rest(d).out) = Squeezed(v.out)
<1> DEFINE w == TakeCode(d, 2)
<1>0. 2 \in Int /\ 1 \in Int /\ 1 # 2
  OBVIOUS
<1>1. Taking(d, 2, w) /\ w \in Machines /\ w.out \in Seq(Int)
  <2>1. Taking(d, 2, w)
    BY <1>0, TakeIs
  <2> HIDE DEF w
  <2>2. w \in Machines
    BY <2>1 DEF Taking
  <2>3. w.out \in Seq(Int)
    BY <2>2 DEF Machines
  <2> QED BY <2>1, <2>2, <2>3
<1>2. v = TakeCode(w, 2)
  OBVIOUS
<1>3. Rest(d) = IF d.anti > 1 THEN TakeCode(v, 1) ELSE d
  BY ZIsTaken DEF Rest
<1> HIDE DEF w
<1>4. Taking(w, 2, v) /\ v \in Machines /\ v.xIsDetected = FALSE
  BY <1>0, <1>1, <1>2, TakeIs DEF Tidy
<1>5. v.out = Append(w.out, Space)
  BY <1>4 DEF Taking
<1>6. PICK x \in Seq(Int), c \in Int : HasMorse(c) /\ v.out = Append(Append(x, c), Space)
  BY DEF Tidy
<1>7. w.out = Append(x, c)
  <2> DEFINE y == Append(x, c)
  <2>1. y \in Seq(Int) /\ Space \in Int
    BY DEF Space
  <2>2. Append(w.out, Space) = Append(y, Space)
    BY <1>5, <1>6
  <2> HIDE DEF y
  <2>3. w.out = y
    BY <2>1, <2>2, <1>1, SameLast, SMTT(30)
  <2> QED BY <2>3 DEF y
<1>8. d.anti > 1
  BY <1>1, <1>6, <1>7, LetterEnds
<1>9. Taking(v, 1, TakeCode(v, 1))
  BY <1>0, <1>4, TakeIs
<1>10. TakeCode(v, 1).out = v.out
  BY <1>0, <1>9 DEF Taking
<1> QED BY <1>3, <1>8, <1>10

\* Two codes wait after a letter: a space prints them.
LEMMA EndFlushed ==
  ASSUME Keyed, fm, NEW r \in Machines, r.curPosit = 2, NEW s \in Seq(Int), Kind(s) = "letter",
         Slots(r, "letter"), NEW v, Reaches(r, v), Tidy(v, s)
  PROVE  \E d : Reads(d, EncryptSpace(r).out) /\ Squeezed(Rest(d).out) = Squeezed(v.out)
<1> DEFINE x == EncryptSpace(r)
<1>0. 2 \in Int /\ 2 \in 0 .. 2 /\ "letter" \in {"none", "space", "letter"}
  OBVIOUS
<1>1. Spaced(r, x)
  BY SpaceIs
<1> HIDE DEF x
<1>2. Given(r, Piece("letter", Space), x)
  BY <1>0, <1>1, SpaceGiven
<1>3. Piece("letter", Space) = <<2>>
  BY DEF Piece
<1>4. x.curPosit = 0
  <2>1. PICK a, b :
        /\ IF isSpaceAhead(r) THEN Stored(r, 2, a) ELSE a = r
        /\ IF r.checkAlreadySpace THEN x = a
           ELSE Gives(a, 2, b) /\ x.curPosit = b.curPosit
    BY <1>1 DEF Spaced
  <2>2. ~ isSpaceAhead(r) /\ ~ r.checkAlreadySpace
    BY DEF isSpaceAhead, Slots
  <2>3. b.curPosit = (r.curPosit + 1) % 3 /\ x.curPosit = b.curPosit
    BY <2>1, <2>2 DEF Gives, Stored
  <2> QED BY <2>3
<1>5. v \in Machines /\ v.anti = 1 /\ v.xIsDetected /\ v.out \in Seq(Int)
  BY DEF Tidy, Machines
<1>6. PICK w : Took(v, <<2>>, w) /\ Reaches(x, w)
  <2> DEFINE e == <<2>>
  <2>1. e \in Seq(Int)
    OBVIOUS
  <2>2. Given(r, e, x)
    BY <1>2, <1>3
  <2> HIDE DEF e
  <2>3. \E w : Took(v, e, w) /\ Reaches(x, w)
    BY <2>1, <2>2, <1>5, GivenTook
  <2> QED BY <2>3 DEF e
<1>7. w = TakeCode(v, 2)
  BY <1>6, TookOne
<1>8. Taking(v, 2, w)
  BY <1>0, <1>5, <1>7, TakeIs
<1>9. w.anti = 1 /\ w.out = Append(v.out, Space)
  BY <1>5, <1>8 DEF Taking
<1>10. PICK d : Reads(d, x.out) /\ w = Ahead(d, x)
  BY <1>6 DEF Reaches
<1>11. w = d
  BY <1>4, <1>10 DEF Ahead
<1>12. Rest(d) = d
  BY <1>9, <1>11 DEF Rest
<1>13. Squeezed(Rest(d).out) = Squeezed(v.out)
  BY <1>5, <1>9, <1>11, <1>12, SpaceSqueezed
<1> QED BY <1>10, <1>13 DEF x

\* However the codes fall, the end of a line leaves a decoder that has read the line.
LEMMA TidyNewline ==
  ASSUME Keyed, fm, table[26] = 90, NEW r \in Machines, r.status = "ok", NEW s \in Seq(Int),
         Slots(r, Kind(s)), NEW v, Reaches(r, v), Tidy(v, s), NEW q \in Encrypted(Newline, r)
  PROVE  \E e : Reaches(q, e) /\ Tidy(e, Append(s, Newline))
<1>1. /\ q.curPosit = 0
      /\ ~ (r.curPosit = 2 /\ r.posit[2] = 2) => q.out = Append(r.out, Newline)
      /\ r.curPosit = 2 /\ r.posit[2] = 2 => q.out = Append(EncryptSpace(r).out, Newline)
  <2>1. q = EncryptNewline(r)
    BY DEF Encrypted
  <2> QED BY <2>1, EncryptNewlineIs, ZenonT(30)
<1>2. Squeezed(v.out) = Squeezed(s) /\ v.anti = 1
  BY DEF Tidy
<1>3. Kind(s) \in {"none", "space", "letter"} /\ r.curPosit \in 0 .. 2
  BY KindTyped DEF Machines
<1>4. (Kind(s) = "none" => r.curPosit = 0) /\ (r.curPosit = 1 => r.posit[1] = 2)
      /\ (r.curPosit = 2 => r.posit[2] = 2 /\ (r.posit[1] = 2 <=> Kind(s) = "space"))
  BY DEF Slots
<1>5. PICK d0 : Reads(d0, r.out) /\ v = Ahead(d0, r)
  BY DEF Reaches
<1>6. d0 \in Machines /\ d0.status = "ok" /\ r.out \in Seq(Int) /\ EncryptSpace(r).out \in Seq(Int)
  <2>1. EncryptSpace(r) \in Machines
    BY SpaceIs
  <2> QED BY <2>1, <1>5 DEF Reads, Machines
<1>7. \E d, o : /\ Reads(d, o) /\ o \in Seq(Int) /\ q.out = Append(o, Newline)
                /\ Squeezed(Rest(d).out) = Squeezed(s)
  <2>1. CASE r.curPosit = 0
    <3>1. v = d0 /\ q.out = Append(r.out, Newline)
      BY <2>1, <1>1, <1>5 DEF Ahead
    <3>2. Rest(d0) = d0
      BY <3>1, <1>2 DEF Rest
    <3>3. Squeezed(Rest(d0).out) = Squeezed(s)
      BY <3>1, <3>2, <1>2
    <3>4. Reads(d0, r.out) /\ r.out \in Seq(Int)
      BY <1>5, <1>6
    <3> QED BY ONLY <3>1, <3>3, <3>4
  <2>2. CASE r.curPosit = 1
    <3>1. v = TakeCode(d0, 2) /\ q.out = Append(r.out, Newline) /\ Kind(s) \in {"letter", "space"}
      BY <2>2, <1>1, <1>3, <1>4, <1>5 DEF Ahead
    <3>2. Squeezed(Rest(d0).out) = Squeezed(v.out)
      BY <3>1, <1>6, EndAtOne
    <3> QED BY <3>1, <3>2, <1>2, <1>5, <1>6
  <2>3. CASE r.curPosit = 2 /\ Kind(s) = "letter"
    <3>1. q.out = Append(EncryptSpace(r).out, Newline)
      BY <2>3, <1>1, <1>4
    <3>2. \E d : Reads(d, EncryptSpace(r).out) /\ Squeezed(Rest(d).out) = Squeezed(v.out)
      <4>1. Slots(r, "letter")
        BY <2>3
      <4> QED BY <4>1, <2>3, EndFlushed
    <3> QED BY <3>1, <3>2, <1>2, <1>6
  <2>4. CASE r.curPosit = 2 /\ Kind(s) = "space"
    <3>1. r.posit[1] = 2 /\ r.posit[2] = 2
      BY <2>4, <1>4
    <3>2. v = TakeCode(TakeCode(d0, 2), 2)
      BY <2>4, <3>1, <1>5 DEF Ahead
    <3>3. EncryptSpace(r) = r
      <4>1. r.checkAlreadySpace /\ ~ isSpaceAhead(r)
        BY <2>4 DEF isSpaceAhead, Slots
      <4> QED BY <4>1 DEF EncryptSpace
    <3>4. q.out = Append(r.out, Newline)
      BY <2>4, <3>1, <3>3, <1>1
    <3>5. Squeezed(Rest(d0).out) = Squeezed(v.out)
      BY <2>4, <3>2, <1>6, EndAtTwo
    <3> QED BY <3>4, <3>5, <1>2, <1>5, <1>6
  <2> QED BY <2>1, <2>2, <2>3, <2>4, <1>3, <1>4
<1>8. PICK d, o : /\ Reads(d, o) /\ o \in Seq(Int) /\ q.out = Append(o, Newline)
                  /\ Squeezed(Rest(d).out) = Squeezed(s)
  BY <1>7
<1>9. PICK e : Reads(e, Append(o, Newline)) /\ Tidy(e, Append(s, Newline))
  BY <1>8, LineEndRead
<1>10. Reaches(q, e)
  BY <1>1, <1>8, <1>9 DEF Reaches, Ahead
<1> QED BY <1>9, <1>10

-----------------------------------------------------------------------------
(* Fractionated Morse: what it prints decrypts                             *)

\* A decoder that has read what r printed, and the codes that wait, has read s.
Follows(r, s) == \E v : Reaches(r, v) /\ Tidy(v, s)

LEMMA FollowsNone == Follows(Static, <<>>)
<1>1. Static \in Machines /\ Static.status = "ok" /\ Static.out = <<>> /\ Static.curPosit = 0
  BY StaticIdle DEF Idle, Static
<1>2. Reads(Static, <<>>)
  BY <1>1, RunsNone DEF Reads
<1>3. Static = Ahead(Static, Static)
  BY <1>1 DEF Ahead
<1>4. Reaches(Static, Static)
  BY <1>1, <1>2, <1>3 DEF Reaches
<1> QED BY <1>4, TidyNone DEF Follows

LEMMA FollowsCoded ==
  ASSUME Keyed, fm, NEW r \in Machines, r.status = "ok", NEW s \in Seq(Int), NEW c \in Coded,
         c = Space => Kind(s) \in {"letter", "space"}, Slots(r, Kind(s)), Follows(r, s),
         NEW q \in Encrypted(c, r)
  PROVE  Follows(q, Append(s, c))
<1>1. PICK v : Reaches(r, v) /\ Tidy(v, s)
  BY DEF Follows
<1>2. Kind(s) \in {"none", "space", "letter"}
  BY KindTyped
<1> DEFINE p == Piece(Kind(s), c)
<1>3. Given(r, p, q)
  BY <1>2, CodedGiven
<1>4. p \in Seq(Int) /\ v \in Machines
  BY <1>1, PieceTyped DEF Tidy
<1>5. PICK w : Took(v, p, w) /\ Reaches(q, w)
  BY <1>1, <1>3, <1>4, GivenTook
<1>6. CASE c = Space
  <2>1. Took(v, Piece(Kind(s), Space), w) /\ Kind(s) \in {"letter", "space"}
    BY <1>5, <1>6
  <2>2. Tidy(w, Append(s, Space))
    BY <1>1, <2>1, TidySpace
  <2> QED BY <1>5, <1>6, <2>2 DEF Follows
<1>7. CASE c # Space
  <2>1. c \in Int /\ HasMorse(c)
    BY <1>7 DEF Coded
  <2>2. Tidy(w, Append(s, c))
    BY <1>1, <1>5, <2>1, TidyLetter
  <2> QED BY <1>5, <2>2 DEF Follows
<1> QED BY <1>6, <1>7

LEMMA FollowsNewline ==
  ASSUME Keyed, fm, table[26] = 90, NEW r \in Machines, r.status = "ok", NEW s \in Seq(Int),
         Slots(r, Kind(s)), Follows(r, s), NEW q \in Encrypted(Newline, r)
  PROVE  Follows(q, Append(s, Newline))
<1>1. PICK v : Reaches(r, v) /\ Tidy(v, s)
  BY DEF Follows
<1>2. \E e : Reaches(q, e) /\ Tidy(e, Append(s, Newline))
  BY <1>1, TidyNewline
<1> QED BY <1>2 DEF Follows

\* What is printed is kept, and more may be printed after it.
Grown(s, t) == \E u \in Seq(Int) : Squeezed(t) = Squeezed(s) \o u

LEMMA GrownMore ==
  ASSUME NEW s \in Seq(Int), NEW t \in Seq(Int), Grown(s, t), NEW x \in Int
  PROVE  Grown(s, Append(t, x))
<1>1. PICK u \in Seq(Int) : Squeezed(t) = Squeezed(s) \o u
  BY DEF Grown
<1> DEFINE g == Tight(Kind(t), x)
<1>2. g \in Seq(Int)
  BY DEF Tight, Space
<1>3. Squeezed(Append(t, x)) = Squeezed(t) \o g /\ Squeezed(s) \in Seq(Int)
  BY SqueezedIs
<1> DEFINE a == Squeezed(s)
           b == Squeezed(Append(t, x))
<1>4. a \in Seq(Int) /\ b = (a \o u) \o g
  BY <1>1, <1>3
<1> HIDE DEF g, a, b
<1>5. u \o g \in Seq(Int)
  BY <1>2
<1>6. (a \o u) \o g = a \o (u \o g)
  BY <1>2, <1>4, JoinedBehind
<1>7. b = a \o (u \o g)
  BY <1>4, <1>6
<1> QED BY <1>5, <1>7 DEF Grown, a, b

LEMMA GrownNone ==
  ASSUME NEW s \in Seq(Int)
  PROVE  Grown(s, s)
<1> DEFINE a == Squeezed(s)
<1>1. a \in Seq(Int)
  <2>1. 0 \in Int
    OBVIOUS
  <2> QED BY <2>1, SqueezedIs
<1> HIDE DEF a
<1>2. a = a \o <<>> /\ <<>> \in Seq(Int)
  BY <1>1
<1> QED BY <1>2 DEF Grown, a

LEMMA TakeGrows ==
  ASSUME NEW s \in Seq(Int), NEW v \in Machines, Grown(s, v.out), NEW code \in Int
  PROVE  TakeCode(v, code) \in Machines /\ Grown(s, TakeCode(v, code).out)
<1> DEFINE w == TakeCode(v, code)
<1>1. Taking(v, code, w)
  BY TakeIs
<1> HIDE DEF w
<1>2. w \in Machines /\ v.out \in Seq(Int)
  BY <1>1 DEF Taking, Machines
<1>3. w.out = v.out \/ \E x \in Int : w.out = Append(v.out, x)
  <2>1. Letter(v.anti) \in Int /\ Space \in Int
    BY LetterTyped DEF Space
  <2> QED BY <1>1, <2>1 DEF Taking
<1>4. Grown(s, w.out)
  BY <1>2, <1>3, GrownMore
<1> QED BY <1>2, <1>4 DEF w

LEMMA AheadGrows ==
  ASSUME NEW d \in Machines, NEW r \in Machines
  PROVE  Grown(d.out, Ahead(d, r).out)
<1>1. r.posit[1] \in Int /\ r.posit[2] \in Int /\ d.out \in Seq(Int)
  BY DEF Machines
<1>2. Grown(d.out, d.out)
  BY <1>1, GrownNone
<1> DEFINE e == TakeCode(d, r.posit[1])
<1>3. e \in Machines /\ Grown(d.out, e.out)
  BY <1>1, <1>2, TakeGrows
<1> HIDE DEF e
<1>4. Grown(d.out, TakeCode(e, r.posit[2]).out)
  BY <1>1, <1>3, TakeGrows
<1> QED BY <1>2, <1>3, <1>4 DEF Ahead, e

LEMMA GrownPrefix ==
  ASSUME NEW s \in Seq(Int), NEW t \in Seq(Int), Grown(s, t)
  PROVE  IsPrefix(Squeezed(s), Squeezed(t))
<1> DEFINE a == Squeezed(s)
           b == Squeezed(t)
<1>1. a \in Seq(Int) /\ b \in Seq(Int)
  <2>1. 0 \in Int
    OBVIOUS
  <2> QED BY <2>1, SqueezedIs
<1>2. PICK u \in Seq(Int) : b = a \o u
  BY DEF Grown
<1> HIDE DEF a, b
<1>3. Len(a) \in Nat /\ Len(b) \in Nat /\ Len(a) <= Len(b)
  BY <1>1, <1>2
<1>4. \A j \in 1 .. Len(a) : b[j] = a[j]
  BY <1>1, <1>2
<1>5. SubSeq(a, 1, Len(a)) \in Seq(Int) /\ SubSeq(b, 1, Len(a)) \in Seq(Int)
      /\ Len(SubSeq(a, 1, Len(a))) = Len(a) /\ Len(SubSeq(b, 1, Len(a))) = Len(a)
  BY <1>1, <1>3
<1>6. \A j \in 1 .. Len(a) : SubSeq(a, 1, Len(a))[j] = SubSeq(b, 1, Len(a))[j]
  BY <1>1, <1>3, <1>4
<1>7. SubSeq(a, 1, Len(a)) = SubSeq(b, 1, Len(a))
  BY <1>5, <1>6, SeqEqual
<1> QED BY <1>3, <1>7 DEF IsPrefix, a, b

\* The words of s, all of them when its last line has ended.
Back(o, s) ==
    /\ IsPrefix(Squeezed(o), Squeezed(s))
    /\ s = <<>> \/ Last(s) = Newline => Squeezed(o) = Squeezed(s)

LEMMA FollowsBack ==
  ASSUME NEW r \in Machines, NEW s \in Seq(Int), Slots(r, Kind(s)), Follows(r, s)
  PROVE  \E d : Runs(Static, r.out, d) /\ Back(d.out, s)
<1>1. PICK v : Reaches(r, v) /\ Tidy(v, s)
  BY DEF Follows
<1>2. PICK d : Reads(d, r.out) /\ v = Ahead(d, r)
  BY <1>1 DEF Reaches
<1>3. d \in Machines /\ v \in Machines /\ Squeezed(v.out) = Squeezed(s)
  BY <1>1, <1>2 DEF Reads, Tidy
<1>4. d.out \in Seq(Int) /\ v.out \in Seq(Int)
  BY <1>3 DEF Machines
<1>5. Grown(d.out, v.out)
  BY <1>2, <1>3, AheadGrows
<1>6. IsPrefix(Squeezed(d.out), Squeezed(s))
  BY <1>3, <1>4, <1>5, GrownPrefix
<1>7. ASSUME s = <<>> \/ Last(s) = Newline
      PROVE  Squeezed(d.out) = Squeezed(s)
  <2>1. Kind(s) = "none"
    BY <1>7 DEF Kind, KindOf, Last
  <2>2. r.curPosit = 0
    BY <2>1 DEF Slots
  <2>3. v = d
    BY <1>2, <2>2 DEF Ahead
  <2> QED BY <1>3, <2>3
<1>8. Back(d.out, s)
  BY <1>6, <1>7 DEF Back
<1> QED BY <1>2, <1>8 DEF Reads

\* Decryption with fractionated Morse may fail, and never crashes.
LEMMA DecryptedSound ==
  ASSUME Keyed, fm, NEW r \in Machines, r.status = "ok", NEW c \in Int
  PROVE  Decrypted(c, r).status # "crashed"
<1>1. CASE c = Newline
  <2> DEFINE f == Rest(r)
             e == Decrypted(Newline, r)
  <2>1. f \in Machines /\ f.status = "ok"
    BY RestTyped
  <2>2. e = [Printed(f, Newline) EXCEPT !.anti = 1, !.xIsDetected = FALSE, !.inputRow = -1]
    BY DEF Decrypted, DecryptNewline, Rest
  <2> HIDE DEF f
  <2>3. Idle(e, Append(f.out, Newline))
    BY <2>1, <2>2, NewlineDone
  <2> HIDE DEF e
  <2>4. e.status = "ok"
    BY <2>3 DEF Idle
  <2> QED BY <1>1, <2>4 DEF e
<1>2. CASE c # Newline /\ c \notin 65 .. 90
  <2>1. Decrypted(c, r) = Failed(r)
    BY <1>2 DEF Decrypted, FMDecrypt
  <2> QED BY <2>1, StatusSet
<1>3. CASE c # Newline /\ c \in 65 .. 90
  <2> DEFINE t == fractionated_table(Place(c))
             q1 == TakeCode(r, t[1])
             q2 == TakeCode(q1, t[2])
  <2>1. Taking(r, t[1], q1) /\ Taking(q1, t[2], q2) /\ Taking(q2, t[3], FMDecrypt(c, r))
    BY <1>3, FMDecryptIs
  <2> HIDE DEF t, q1, q2
  <2>2. FMDecrypt(c, r).status = "ok"
    BY <2>1 DEF Taking
  <2>3. Decrypted(c, r) = FMDecrypt(c, r)
    BY <1>3 DEF Decrypted
  <2> QED BY <2>2, <2>3
<1> QED BY <1>1, <1>2, <1>3

\* What is left to decode leads to the words of s.
Finishes(r, p, s) == \E d : Runs(r, p, d) /\ Back(d.out, s)

LEMMA FollowsKept ==
  ASSUME table' = table, mode' = mode, stale' = stale, NEW r, NEW s
  PROVE  Follows(r, s)' <=> Follows(r, s)
<1>1. \A d : Reads(d, r.out)' <=> Reads(d, r.out)
  <2> SUFFICES ASSUME NEW d PROVE Reads(d, r.out)' <=> Reads(d, r.out)
    OBVIOUS
  <2>1. Runs(Static, r.out, d)' <=> Runs(Static, r.out, d)
    BY RunsKept
  <2> QED BY <2>1 DEF Reads
<1>2. \A v : Reaches(r, v)' <=> Reaches(r, v)
  BY <1>1 DEF Reaches
<1> QED BY <1>2 DEF Follows

LEMMA FinishesKept ==
  ASSUME table' = table, mode' = mode, stale' = stale, NEW r, NEW p, NEW s
  PROVE  Finishes(r, p, s)' <=> Finishes(r, p, s)
<1>1. \A d : Runs(r, p, d)' <=> Runs(r, p, d)
  <2> SUFFICES ASSUME NEW d PROVE Runs(r, p, d)' <=> Runs(r, p, d)
    OBVIOUS
  <2> QED BY RunsKept
<1> QED BY <1>1 DEF Finishes

\* A text that fractionated Morse can carry, with a Z that ends a line.
Carried == fm /\ table[26] = 90 /\ Fits(text)

\* While a text is encrypted a decoder can follow; what it prints is decrypted
\* without a failure; and at the end the words are there.
Morse ==
    /\ stage = "args" => mode = 0
    /\ Carried =>
         /\ stage \notin {"undecoded", "crashed"}
         /\ stage = "encrypt" => \E r, s : r = m /\ s = text /\ Follows(r, s)
         /\ stage = "decode" => \E r, p, s : r = m /\ p = pipe /\ s = text /\ Finishes(r, p, s)
         /\ stage = "decoded" => Back(m.out, text)

LEMMA MorseQuiet ==
  ASSUME stage' \notin {"args", "encrypt", "decode", "undecoded", "decoded", "crashed"}
  PROVE  Morse'
BY DEF Morse

LEMMA NoMode ==
  ASSUME mode' = 0
  PROVE  ~ fm'
<1>1. (0 \div 16384) % 2 # 1
  OBVIOUS
<1> QED BY <1>1 DEF fm

LEMMA MorseInit ==
  ASSUME Init
  PROVE  Morse
<1>1. stage = "args" /\ mode = 0
  BY DEF Init
<1> QED BY <1>1 DEF Morse

LEMMA MorseWord ==
  ASSUME Morse, NEW w \in Flags, NEW v \in Operands(w), Word(w, v)
  PROVE  Morse'
<1>1. stage = "args" /\ stage' \in {"args", "help", "usage", "crashed"} /\ mode' = mode
  BY DEF Word
<1>2. mode' = 0
  BY <1>1 DEF Morse
<1>3. ~ fm'
  BY <1>2, NoMode
<1> QED BY <1>2, <1>3 DEF Morse, Carried

LEMMA MorseActivate ==
  ASSUME Begun, activateCrypto
  PROVE  Morse'
<1>1. /\ stage = "ready" /\ UNCHANGED <<mode, table, m, text, pipe>>
      /\ m = Static /\ text = <<>> /\ stale = FALSE
      /\ stage' = IF dec THEN "decrypt" ELSE "encrypt"
      /\ stale' \in {FALSE, dec /\ ~ fm}
  BY DEF activateCrypto, Begun
<1>2. CASE dec
  <2>1. stage' = "decrypt"
    BY <1>1, <1>2
  <2> QED BY <2>1, MorseQuiet
<1>3. CASE ~ dec
  <2>1. stage' = "encrypt" /\ stale' = stale
    BY <1>1, <1>3
  <2>2. PICK r, s : r = Static /\ s = <<>>
    OBVIOUS
  <2>3. Follows(r, s)
    BY <2>2, FollowsNone
  <2>4. Follows(r, s)'
    BY <1>1, <2>1, <2>3, FollowsKept
  <2>5. m' = r /\ text' = s
    BY <1>1, <2>2
  <2>6. (\E a, b : a = m /\ b = text /\ Follows(a, b))'
    BY <2>4, <2>5
  <2> QED BY <2>1, <2>6 DEF Morse
<1> QED BY <1>2, <1>3

\* The condition for the longer text holds for the shorter.
LEMMA CarriedBefore ==
  ASSUME text \in Seq(Int), NEW c \in Int, text' = Append(text, c), table' = table, mode' = mode, Carried'
  PROVE  /\ Carried /\ c \in Coded \union {Newline} /\ (c = Space => Kind(text) \in {"letter", "space"})
<1>1. Fits(Append(text, c)) /\ fm /\ table[26] = 90
  <2>1. fm' <=> fm
    BY KeyedKept
  <2>2. Fits(text')
    BY DEF Carried
  <2> QED BY <2>1, <2>2 DEF Carried
<1>2. Fits(text) /\ c \in Coded \union {Newline} /\ (c = Space => Kind(text) \in {"letter", "space"})
  BY <1>1, FitsMore
<1> QED BY <1>1, <1>2 DEF Carried

LEMMA MorseEncrypt ==
  ASSUME Begun, InLine, Morse, NEW c \in Chars, Encrypt(c)
  PROVE  Morse'
<1>1. stage = "encrypt" /\ c \in Int /\ text' = Append(text, c) /\ text \in Seq(Int)
      /\ UNCHANGED <<args, asked, mode, table, pipe, stale>>
  BY TypedText DEF Encrypt, Begun
<1>2. PICK q \in Encrypted(c, m) : Advance(q)
  BY DEF Encrypt
<1>3. Keyed /\ m \in Machines /\ m.status = "ok"
  BY <1>1 DEF Begun
<1>4. stage' # "args"
  <2>1. q.status # "args"
    <3>1. ~ fm => m.curPosit = 0
      BY <1>1 DEF Begun
    <3>2. q \in Machines
      BY <1>1, <1>2, <1>3, <3>1, EncryptedTyped
    <3> QED BY <3>2 DEF Machines
  <2> QED BY <1>1, <1>2, <2>1 DEF Advance
<1>5. CASE ~ Carried'
  BY <1>4, <1>5 DEF Morse
<1>6. CASE Carried'
  <2>1. Carried /\ c \in Coded \union {Newline} /\ (c = Space => Kind(text) \in {"letter", "space"})
    BY <1>1, <1>6, CarriedBefore
  <2>2. fm /\ table[26] = 90 /\ Plain(text)
    BY <2>1, FitsPlain DEF Carried
  <2>3. Slots(m, Kind(text)) /\ Printable(m.out) /\ Codes(m) = Stream(Line(text))
    BY <1>1, <2>2 DEF InLine
  <2>4. Follows(m, text)
    BY <1>1, <2>1 DEF Morse
  <2>5. Kind(text) \in {"none", "space", "letter"}
    BY KindTyped
  <2>6. Follows(q, Append(text, c)) /\ q.status = "ok"
    <3>1. CASE c \in Coded
      <4>1. Follows(q, Append(text, c))
        BY <1>1, <1>2, <1>3, <2>1, <2>2, <2>3, <2>4, <3>1, FollowsCoded
      <4>2. q.status = "ok"
        BY <1>2, <1>3, <2>2, <2>3, <2>5, <3>1, CodedGiven
      <4> QED BY <4>1, <4>2
    <3>2. CASE c = Newline
      <4>1. q \in Encrypted(Newline, m)
        BY <1>2, <3>2
      <4>2. Follows(q, Append(text, Newline))
        BY <1>1, <1>3, <2>2, <2>3, <2>4, <4>1, FollowsNewline
      <4>3. Codes(m) \in Seq(Int)
        <5>1. Line(text) \in Seq(Coded) /\ Space \in Coded
          BY <1>1, <2>2, PlainLine DEF Coded
        <5> QED BY <2>3, <5>1, StreamIs
      <4>4. q.status = "ok"
        BY <1>3, <2>2, <2>3, <2>5, <4>1, <4>3, EndGiven
      <4> QED BY <3>2, <4>2, <4>4
    <3> QED BY <2>1, <3>1, <3>2
  <2>7. PICK r, s : r = q /\ s = Append(text, c)
    OBVIOUS
  <2>8. Follows(r, s)'
    <3>1. Follows(r, s)
      BY <2>6, <2>7
    <3> QED BY <1>1, <3>1, FollowsKept
  <2>9. m' = r /\ text' = s /\ stage' = "encrypt"
    BY <1>1, <1>2, <2>6, <2>7 DEF Advance
  <2>10. (\E a, b : a = m /\ b = text /\ Follows(a, b))'
    BY <2>8, <2>9
  <2> QED BY <2>9, <2>10 DEF Morse
<1> QED BY <1>5, <1>6

LEMMA MorseDecode ==
  ASSUME Begun, Morse, Decode
  PROVE  Morse'
<1>1. stage = "decode" /\ pipe \in Seq(Int) /\ pipe # <<>> /\ pipe' = Tail(pipe)
      /\ UNCHANGED <<args, asked, mode, table, text, stale>> /\ Advance(Decrypted(Head(pipe), m))
  BY DEF Decode, Begun
<1>2. Carried' <=> Carried
  <2>1. fm' <=> fm
    BY <1>1, KeyedKept
  <2> QED BY <1>1, <2>1 DEF Carried
<1>3. CASE ~ Carried
  <2>1. stage' \in {"decode", "undecoded"}
    BY <1>1 DEF Advance
  <2> QED BY <1>2, <1>3, <2>1 DEF Morse
<1>4. CASE Carried
  <2>1. PICK r, s, t : r = m /\ s = pipe /\ t = text /\ Finishes(r, s, t)
    BY <1>1, <1>4 DEF Morse
  <2>2. PICK d : Runs(r, s, d) /\ Back(d.out, t)
    BY <2>1 DEF Finishes
  <2>3. PICK q, e : q = Decrypted(Head(s), r) /\ e = Tail(s)
    OBVIOUS
  <2>4. q \in Machines /\ q.status = "ok" /\ Runs(q, e, d)
    BY <1>1, <2>1, <2>2, <2>3, RunsHead
  <2>5. Finishes(q, e, t)
    BY <2>2, <2>4 DEF Finishes
  <2>6. Finishes(q, e, t)'
    BY <1>1, <2>5, FinishesKept
  <2>7. m' = q /\ pipe' = e /\ t = text' /\ stage' = "decode"
    BY <1>1, <2>1, <2>3, <2>4 DEF Advance
  <2>8. (\E a, b, c : a = m /\ b = pipe /\ c = text /\ Finishes(a, b, c))'
    BY <2>6, <2>7
  <2> QED BY <2>7, <2>8 DEF Morse
<1> QED BY <1>3, <1>4

LEMMA MorseDecrypt ==
  ASSUME Begun, NEW c \in Chars, Decrypt(c)
  PROVE  Morse'
<1>1. stage = "decrypt" /\ Keyed /\ m \in Machines /\ m.status = "ok" /\ Advance(Decrypted(c, m)) /\ c \in Int
      /\ UNCHANGED <<args, asked, mode, table, pipe, stale>>
  BY TypedText DEF Decrypt, Begun
<1>2. Decrypted(c, m) \in Machines
  BY <1>1, DecryptedTyped
<1>3. Decrypted(c, m).status \in {"ok", "failed", "crashed"}
  BY <1>2 DEF Machines
<1>4. stage' \in {"decrypt", "failed", "crashed"}
  BY <1>1, <1>3 DEF Advance
<1>5. CASE stage' # "crashed"
  BY <1>4, <1>5, MorseQuiet
<1>6. CASE stage' = "crashed"
  <2>1. Decrypted(c, m).status = "crashed"
    BY <1>1, <1>3, <1>6 DEF Advance
  <2>2. ~ fm
    BY <1>1, <2>1, DecryptedSound
  <2>3. ~ fm'
    BY <1>1, <2>2, KeyedKept
  <2> QED BY <1>6, <2>3 DEF Morse, Carried
<1> QED BY <1>5, <1>6

LEMMA MorseEndOfInput ==
  ASSUME Begun, InLine, Morse, EndOfInput
  PROVE  Morse'
<1>1. UNCHANGED <<args, asked, mode, table, text>>
  BY DEF EndOfInput
<1>2. Carried' <=> Carried
  <2>1. fm' <=> fm
    BY <1>1, KeyedKept
  <2> QED BY <1>1, <2>1 DEF Carried
<1>3. stage' = "done" => Morse'
  BY MorseQuiet
<1>4. CASE stage = "encrypt" /\ stage' = "decode" /\ pipe' = m.out /\ m' = Static
           /\ stale' \in {FALSE, ~ fm}
  <2>1. CASE ~ Carried
    BY <1>2, <1>4, <2>1 DEF Morse
  <2>2. CASE Carried
    <3>1. fm /\ Plain(text) /\ stale = FALSE /\ m \in Machines /\ text \in Seq(Int)
      BY <1>4, <2>2, FitsPlain DEF Carried, Begun
    <3>2. Slots(m, Kind(text))
      BY <1>4, <3>1 DEF InLine
    <3>3. Follows(m, text)
      BY <1>4, <2>2 DEF Morse
    <3>4. \E d : Runs(Static, m.out, d) /\ Back(d.out, text)
      BY <3>1, <3>2, <3>3, FollowsBack
    <3>5. PICK r, p, s : r = Static /\ p = m.out /\ s = text
      OBVIOUS
    <3>6. Finishes(r, p, s)
      BY <3>4, <3>5 DEF Finishes
    <3>7. stale' = stale
      BY <1>4, <3>1
    <3>8. Finishes(r, p, s)'
      BY <1>1, <3>6, <3>7, FinishesKept
    <3>9. m' = r /\ pipe' = p /\ text' = s
      BY <1>1, <1>4, <3>5
    <3>10. (\E a, b, c : a = m /\ b = pipe /\ c = text /\ Finishes(a, b, c))'
      BY <3>8, <3>9
    <3> QED BY <1>4, <3>10 DEF Morse
  <2> QED BY <2>1, <2>2
<1>5. CASE stage = "decode" /\ pipe = <<>> /\ stage' = "decoded" /\ UNCHANGED <<m, pipe, stale>>
  <2>1. CASE ~ Carried
    BY <1>2, <1>5, <2>1 DEF Morse
  <2>2. CASE Carried
    <3>1. PICK r, p, s : r = m /\ p = pipe /\ s = text /\ Finishes(r, p, s)
      BY <1>5, <2>2 DEF Morse
    <3>2. PICK d : Runs(r, p, d) /\ Back(d.out, s)
      BY <3>1 DEF Finishes
    <3>3. d = r
      BY <1>5, <3>1, <3>2, RunsEnd
    <3>4. Back(m.out, text)
      BY <3>1, <3>2, <3>3
    <3>5. Back(m.out, text)'
      BY <1>1, <1>5, <3>4 DEF Back
    <3> QED BY <1>5, <3>5 DEF Morse
  <2> QED BY <2>1, <2>2
<1> QED BY <1>3, <1>4, <1>5 DEF EndOfInput

LEMMA MorseNext ==
  ASSUME Begun, InLine, Morse, [Next]_vars
  PROVE  Morse'
<1>1. CASE UNCHANGED vars
  <2>1. UNCHANGED <<stage, args, asked, mode, table, m, text, pipe, stale>>
    BY <1>1 DEF vars
  <2>2. Carried' <=> Carried
    <3>1. fm' <=> fm
      BY <2>1, KeyedKept
    <3> QED BY <2>1, <3>1 DEF Carried
  <2>3. \A r, s : Follows(r, s)' <=> Follows(r, s)
    <3> SUFFICES ASSUME NEW r, NEW s PROVE Follows(r, s)' <=> Follows(r, s)
      OBVIOUS
    <3> QED BY <2>1, FollowsKept
  <2>4. \A r, p, s : Finishes(r, p, s)' <=> Finishes(r, p, s)
    <3> SUFFICES ASSUME NEW r, NEW p, NEW s PROVE Finishes(r, p, s)' <=> Finishes(r, p, s)
      OBVIOUS
    <3> QED BY <2>1, FinishesKept
  <2>5. Back(m.out, text)' <=> Back(m.out, text)
    BY <2>1 DEF Back
  <2> QED BY <2>1, <2>2, <2>3, <2>4, <2>5 DEF Morse
<1>2. ASSUME NEW w \in Flags, NEW v \in Operands(w), Word(w, v) PROVE Morse'
  BY <1>2, MorseWord
<1>3. CASE EndOfWords
  <2>1. stage' \in {"usage", "ready"}
    BY <1>3 DEF EndOfWords
  <2> QED BY <2>1, MorseQuiet
<1>4. CASE activateCrypto
  BY <1>4, MorseActivate
<1>5. ASSUME NEW c \in Chars, Encrypt(c) PROVE Morse'
  BY <1>5, MorseEncrypt
<1>6. ASSUME NEW c \in Chars, Decrypt(c) PROVE Morse'
  BY <1>6, MorseDecrypt
<1>7. CASE Decode
  BY <1>7, MorseDecode
<1>8. CASE EndOfInput
  BY <1>8, MorseEndOfInput
<1> QED BY <1>1, <1>2, <1>3, <1>4, <1>5, <1>6, <1>7, <1>8 DEF Next

\* Fractionated Morse gives the words of every line back, whatever the text and
\* whatever the key that leaves Z in its place: a second run with the same words
\* reads what the first printed without failing and prints the text with each gap
\* one space (doFMCipher, and the end of a line in activateCrypto).
THEOREM WordsComeBack == Spec => []MorseRoundTrip
<1>1. Init => Morse /\ InLine
  BY MorseInit, InLineInit
<1>2. Begun /\ InLine /\ Morse /\ [Next]_vars => (Morse /\ InLine)'
  BY MorseNext, InLineNext
<1>3. Morse => MorseRoundTrip
  BY DEF Morse, MorseRoundTrip, Carried, Fits, StartsALine, Back
<1> QED BY <1>1, <1>2, <1>3, AlwaysBegun, PTL DEF Spec
=============================================================================
