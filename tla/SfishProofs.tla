----------------------------- MODULE SfishProofs -----------------------------
(***************************************************************************)
(* Proofs about the hw4 shell: the inductive invariant of its main loop,   *)
(* handlers and children, and what removeRdrFromTokens() leaves of a line. *)
(*                                                                         *)
(* First the words of a line, then each conjunct of Inv with the lemma     *)
(* that Next preserves it, then the theorems.                              *)
(***************************************************************************)
EXTENDS Sfish, Recursion, FiniteSetTheorems, SequenceTheorems, TLAPS

-----------------------------------------------------------------------------
(* The words of a line.                                                    *)

\* Taking a redirector out of an array of words leaves an array of words.
LEMMA TakeOutTyped ==
  ASSUME NEW s \in [tokens : Seq(STRING), shift : Int, walks : BOOLEAN, lost : BOOLEAN],
         NEW place \in Int
  PROVE  TakeOut(s, place) \in [tokens : Seq(STRING), shift : Int, walks : BOOLEAN, lost : BOOLEAN]
<1> DEFINE i == place - s.shift
           ts == s.tokens
<1>1. ts \in Seq(STRING) /\ i \in Int /\ s.shift \in Int /\ s.walks \in BOOLEAN /\ Len(ts) \in Nat
  OBVIOUS
<1>2. CASE s.lost \/ i \notin 1 .. Len(ts) - 1
  <2>1. TakeOut(s, place) = [s EXCEPT !.lost = TRUE]
    BY <1>2 DEF TakeOut
  <2> QED BY <2>1
<1>3. CASE ~ s.lost /\ i \in 1 .. Len(ts) - 1
  <2>1. SubSeq(ts, 1, i - 1) \in Seq(STRING) /\ SubSeq(ts, i + 2, Len(ts)) \in Seq(STRING)
    BY <1>1, <1>3
  <2> DEFINE left == SubSeq(ts, 1, i - 1) \o SubSeq(ts, i + 2, Len(ts))
             more == s.shift + (IF ts[i] \in Files THEN 2 ELSE 0)
             over == s.walks \/ (Len(ts) - i) % 2 = 0
  <2>2. left \in Seq(STRING) /\ more \in Int /\ over \in BOOLEAN
    BY <2>1, <1>1
  <2>3. TakeOut(s, place) = [tokens |-> left, shift |-> more, walks |-> over, lost |-> FALSE]
    BY <1>3 DEF TakeOut
  <2> HIDE DEF left, more, over
  <2> QED BY <2>2, <2>3
<1> QED BY <1>2, <1>3

\* What is left of an array of words, place by place.
Arrays == [tokens : Seq(STRING), shift : Int, walks : BOOLEAN, lost : BOOLEAN]

LEMMA RemovalSteps ==
  ASSUME NEW ws \in Seq(STRING)
  PROVE  \E left \in [0 .. Len(ws) -> Arrays] :
           /\ left[0] = [tokens |-> ws, shift |-> 0, walks |-> FALSE, lost |-> FALSE]
           /\ \A n \in 1 .. Len(ws) :
                left[n] = IF n \in redirList(ws) THEN TakeOut(left[n - 1], n) ELSE left[n - 1]
           /\ removeRdrFromTokens(ws) = left[Len(ws)]
<1> DEFINE N == Len(ws)
           S == Arrays
           b == [tokens |-> ws, shift |-> 0, walks |-> FALSE, lost |-> FALSE]
           Rec(f) == [n \in 0 .. N |->
                        IF n = 0 THEN b
                        ELSE IF n \in redirList(ws) THEN TakeOut(f[n - 1], n)
                        ELSE f[n - 1]]
           g == [n \in 1 .. N |-> [s \in S |-> IF n \in redirList(ws) THEN TakeOut(s, n) ELSE s]]
           left == CHOOSE f : f = Rec(f)
<1>1. N \in Nat /\ b \in S
  BY DEF Arrays
<1>2. \A s \in S, n \in 1 .. N : TakeOut(s, n) \in S
  BY <1>1, TakeOutTyped DEF Arrays
<1>3. removeRdrFromTokens(ws) = left[N]
  BY DEF removeRdrFromTokens
<1> HIDE DEF b, N, S
<1>4. g \in [1 .. N -> [S -> S]]
  BY <1>2
<1>5. \E f : f = Rec(f)
  <2> HIDE DEF g
  <2> OfSteps(g, N, S)
    BY <1>4 DEF OfSteps
  <2> PICK f : Taken(f, N, S, b, g)
    BY <1>1, StepByStep
  <2>1. f \in [0 .. N -> S] /\ f[0] = b /\ \A n \in 1 .. N : f[n] = g[n][f[n - 1]]
    BY DEF Taken
  <2>2. \A n \in 1 .. N : f[n - 1] \in S
    BY <2>1, <1>1
  <2>3. \A n \in 1 .. N : f[n] = IF n \in redirList(ws) THEN TakeOut(f[n - 1], n) ELSE f[n - 1]
    BY <2>1, <2>2 DEF g
  <2>4. f = Rec(f)
    BY <2>1, <2>3, <1>1
  <2> QED BY <2>4
<1>6. left = Rec(left)
  BY <1>5
<1> HIDE DEF left
<1>7. left[0] = b /\ DOMAIN left = 0 .. N
  BY <1>6, <1>1
<1>8. \A n \in 1 .. N : left[n] = IF n \in redirList(ws) THEN TakeOut(left[n - 1], n) ELSE left[n - 1]
  BY <1>6, <1>1
<1> DEFINE D == {n \in 0 .. N : left[n] \in S}
<1>9. ASSUME NEW n \in 0 .. N, n \in D, n < N PROVE n + 1 \in D
  <2>1. n + 1 \in 1 .. N /\ n + 1 \in 0 .. N /\ (n + 1) - 1 = n
    BY <1>9, <1>1
  <2>2. left[n + 1] \in S
    BY <2>1, <1>2, <1>8, <1>9
  <2> QED BY <2>1, <2>2
<1>10. 0 \in D
  BY <1>7, <1>1
<1> HIDE DEF D
<1>11. 0 .. N \subseteq D
  BY <1>1, <1>9, <1>10, UpTo
<1>12. left = [n \in 0 .. N |-> left[n]]
  BY <1>6
<1>13. left \in [0 .. N -> S]
  BY <1>11, <1>12 DEF D
<1> QED BY <1>3, <1>7, <1>8, <1>13 DEF b, N, S

LEMMA RemovalTyped ==
  ASSUME NEW ws \in Seq(STRING)
  PROVE  removeRdrFromTokens(ws).tokens \in Seq(STRING)
<1>1. Len(ws) \in 0 .. Len(ws)
  OBVIOUS
<1> QED BY <1>1, RemovalSteps DEF Arrays

\* Cutting words at the pipes gives a sequence of commands.
LEMMA CutTyped ==
  ASSUME NEW ts \in Seq(STRING)
  PROVE  changePipeInTokens(ts) \in Seq(Seq(STRING))
<1> DEFINE N == Len(ts)
           S == Seq(Seq(STRING)) \ {<<>>}
           b == << <<>> >>
           E(n, c) == IF ts[n] = "|" THEN Append(c, <<>>)
                      ELSE [c EXCEPT ![Len(c)] = Append(@, ts[n])]
           Rec(f) == [n \in 0 .. N |-> IF n = 0 THEN b ELSE E(n, f[n - 1])]
           g == [n \in 1 .. N |-> [s \in S |-> E(n, s)]]
           cut == CHOOSE f : f = Rec(f)
<1>1. N \in Nat /\ b \in S
  OBVIOUS
<1>2. \A n \in 1 .. N, c \in S : E(n, c) \in S
  <2> SUFFICES ASSUME NEW n \in 1 .. N, NEW c \in S PROVE E(n, c) \in S
    OBVIOUS
  <2>1. CASE ts[n] = "|"
    <3>1. Append(c, <<>>) \in Seq(Seq(STRING)) /\ Append(c, <<>>) # <<>>
      OBVIOUS
    <3> QED BY <2>1, <3>1
  <2>2. CASE ts[n] # "|"
    <3>1. ts[n] \in STRING /\ Len(c) \in 1 .. Len(c) /\ c[Len(c)] \in Seq(STRING)
      OBVIOUS
    <3>2. Append(c[Len(c)], ts[n]) \in Seq(STRING)
      BY <3>1
    <3> DEFINE w == Append(c[Len(c)], ts[n])
    <3>3. [c EXCEPT ![Len(c)] = w] \in Seq(Seq(STRING)) /\ Len([c EXCEPT ![Len(c)] = w]) = Len(c)
      <4> HIDE DEF w
      <4>1. c \in Seq(Seq(STRING)) /\ Len(c) \in 1 .. Len(c) /\ w \in Seq(STRING)
        BY <3>1, <3>2 DEF w
      <4> QED BY <4>1, ExceptSeq
    <3>4. [c EXCEPT ![Len(c)] = w] # <<>>
      BY <3>3, <3>1
    <3> QED BY <2>2, <3>3, <3>4
  <2> QED BY <2>1, <2>2
<1>3. changePipeInTokens(ts) = cut[N]
  BY DEF changePipeInTokens
<1> HIDE DEF b, S, N, E
<1>4. g \in [1 .. N -> [S -> S]]
  BY <1>2
<1>5. \E f : f = Rec(f)
  <2> HIDE DEF g
  <2> OfSteps(g, N, S)
    BY <1>4 DEF OfSteps
  <2> PICK f : Taken(f, N, S, b, g)
    BY <1>1, StepByStep
  <2>1. f \in [0 .. N -> S] /\ f[0] = b /\ \A n \in 1 .. N : f[n] = g[n][f[n - 1]]
    BY DEF Taken
  <2>2. \A n \in 1 .. N : f[n - 1] \in S
    BY <2>1, <1>1
  <2>3. \A n \in 1 .. N : f[n] = E(n, f[n - 1])
    BY <2>1, <2>2 DEF g
  <2>4. f = Rec(f)
    BY <2>1, <2>3, <1>1
  <2> QED BY <2>4
<1>6. cut = Rec(cut)
  BY <1>5
<1> HIDE DEF cut
<1>7. cut[0] = b
  BY <1>6, <1>1
<1> DEFINE D == {n \in 0 .. N : cut[n] \in S}
<1>8. ASSUME NEW n \in 0 .. N, n \in D, n < N PROVE n + 1 \in D
  <2>1. n + 1 \in 1 .. N /\ n + 1 \in 0 .. N /\ n + 1 # 0 /\ (n + 1) - 1 = n
    BY <1>8, <1>1
  <2>2. cut[n + 1] = E(n + 1, cut[n])
    BY <1>6, <2>1
  <2>3. cut[n + 1] \in S
    BY <2>1, <2>2, <1>8, <1>2
  <2> QED BY <2>1, <2>3
<1>9. 0 \in D
  BY <1>7, <1>1
<1> HIDE DEF D
<1>10. 0 .. N \subseteq D
  BY <1>1, <1>8, <1>9, UpTo
<1>11. cut[N] \in S
  BY <1>10, <1>1 DEF D
<1> QED BY <1>3, <1>11 DEF S

\* The words that are neither a redirector nor a file's name, place by place.
LEMMA MeantSteps ==
  ASSUME NEW ws \in Seq(STRING)
  PROVE  \E kept \in [0 .. Len(ws) -> Seq(STRING)] :
           /\ kept[0] = <<>>
           /\ \A n \in 1 .. Len(ws) :
                kept[n] = IF ws[n] \in Files \/ (n > 1 /\ ws[n - 1] \in Files) THEN kept[n - 1]
                          ELSE Append(kept[n - 1], ws[n])
           /\ Meant(ws) = kept[Len(ws)]
<1> DEFINE N == Len(ws)
           S == Seq(STRING)
           b == <<>>
           Out(n) == ws[n] \in Files \/ (n > 1 /\ ws[n - 1] \in Files)
           E(n, s) == IF Out(n) THEN s ELSE Append(s, ws[n])
           Rec(f) == [n \in 0 .. N |-> IF n = 0 THEN b ELSE E(n, f[n - 1])]
           g == [n \in 1 .. N |-> [s \in S |-> E(n, s)]]
           kept == CHOOSE f : f = Rec(f)
<1>1. N \in Nat /\ b \in S
  OBVIOUS
<1>2. \A s \in S, n \in 1 .. N : E(n, s) \in S
  <2> SUFFICES ASSUME NEW s \in S, NEW n \in 1 .. N PROVE E(n, s) \in S
    OBVIOUS
  <2>1. Append(s, ws[n]) \in S
    OBVIOUS
  <2> HIDE DEF Out, S
  <2> QED BY <2>1
<1>3. Meant(ws) = kept[N]
  BY DEF Meant
<1> HIDE DEF N, S, b, E
<1>4. g \in [1 .. N -> [S -> S]]
  BY <1>2
<1>5. \E f : f = Rec(f)
  <2> HIDE DEF g
  <2> OfSteps(g, N, S)
    BY <1>4 DEF OfSteps
  <2> PICK f : Taken(f, N, S, b, g)
    BY <1>1, StepByStep
  <2>1. f \in [0 .. N -> S] /\ f[0] = b /\ \A n \in 1 .. N : f[n] = g[n][f[n - 1]]
    BY DEF Taken
  <2>2. \A n \in 1 .. N : f[n - 1] \in S
    BY <2>1, <1>1
  <2>3. \A n \in 1 .. N : f[n] = E(n, f[n - 1])
    BY <2>1, <2>2 DEF g
  <2>4. f = Rec(f)
    BY <2>1, <2>3, <1>1
  <2> QED BY <2>4
<1>6. kept = Rec(kept)
  BY <1>5
<1> HIDE DEF kept
<1>7. kept[0] = b
  BY <1>6, <1>1
<1>8. \A n \in 1 .. N : kept[n] = E(n, kept[n - 1])
  BY <1>6, <1>1
<1> DEFINE D == {n \in 0 .. N : kept[n] \in S}
<1>9. ASSUME NEW n \in 0 .. N, n \in D, n < N PROVE n + 1 \in D
  <2>1. n + 1 \in 1 .. N /\ n + 1 \in 0 .. N /\ (n + 1) - 1 = n
    BY <1>9, <1>1
  <2>2. kept[n + 1] \in S
    BY <2>1, <1>2, <1>8, <1>9
  <2> QED BY <2>1, <2>2
<1>10. 0 \in D
  BY <1>7, <1>1
<1> HIDE DEF D
<1>11. 0 .. N \subseteq D
  BY <1>1, <1>9, <1>10, UpTo
<1>12. kept = [n \in 0 .. N |-> kept[n]]
  BY <1>6
<1>13. kept \in [0 .. N -> S]
  BY <1>11, <1>12 DEF D
<1> QED BY <1>3, <1>7, <1>8, <1>13 DEF N, S, b, E, Out

\* The first redirector that fails comes before every other that does.
LEMMA FirstBadIsFirst ==
  ASSUME NEW ws \in Seq(STRING)
  PROVE  /\ FirstBad(ws) \in Nat /\ FirstBad(ws) <= Len(ws) + 1
         /\ \A j \in 1 .. Len(ws) : ws[j] \in Files /\ ~ Opens(ws, j) => FirstBad(ws) <= j
<1> DEFINE Bad == {j \in DOMAIN ws : ws[j] \in Files /\ ~ Opens(ws, j)} \union {Len(ws) + 1}
<1>1. Bad \subseteq Nat /\ Len(ws) + 1 \in Bad /\ DOMAIN ws = 1 .. Len(ws)
  OBVIOUS
<1>2. \E d \in Bad : \A e \in Bad : d <= e
  <2> HIDE DEF Bad
  <2> QED BY <1>1, LeastNumber
<1>3. FirstBad(ws) \in Nat /\ \A e \in Bad : FirstBad(ws) <= e
  <2> HIDE DEF Bad
  <2>1. Min(Bad) \in Bad /\ \A e \in Bad : Min(Bad) <= e
    BY <1>2 DEF Min
  <2>2. FirstBad(ws) = Min(Bad)
    BY DEF FirstBad, Bad
  <2> QED BY <1>1, <2>1, <2>2
<1> QED BY <1>1, <1>3

\* When every file opens there is a word after every < and >.
LEMMA FilesHaveNames ==
  ASSUME NEW ws \in Seq(STRING), FirstBad(ws) > Len(ws),
         NEW i \in 1 .. Len(ws), ws[i] \in Files
  PROVE  i < Len(ws)
<1>1. Opens(ws, i)
  BY FirstBadIsFirst
<1> QED BY <1>1 DEF Opens

\* What follows the first part of a concatenation is the second.
LEMMA AfterPrefix ==
  ASSUME NEW d \in Seq(STRING), NEW t \in Seq(STRING)
  PROVE  SubSeq(d \o t, Len(d) + 1, Len(d) + Len(t)) = t
OBVIOUS

\* A word may be counted to those before it or to the rest.
LEMMA MovedOn ==
  ASSUME NEW k \in Seq(STRING), NEW ws \in Seq(STRING), NEW n \in 0 .. Len(ws) - 1
  PROVE  k \o SubSeq(ws, n + 1, Len(ws)) = Append(k, ws[n + 1]) \o SubSeq(ws, n + 2, Len(ws))
<1> DEFINE q == SubSeq(ws, n + 2, Len(ws))
           x == ws[n + 1]
<1>1. /\ n + 1 \in 1 .. Len(ws) /\ Len(ws) \in n + 1 .. Len(ws) /\ (n + 1) + 1 = n + 2
      /\ x \in STRING
  OBVIOUS
<1>2. SubSeq(ws, n + 1, Len(ws)) = <<x>> \o q
  BY <1>1, SubSeqRecursiveFirst
<1>3. q \in Seq(STRING) /\ <<x>> \in Seq(STRING)
  BY <1>1
<1> HIDE DEF q, x
<1>4. Append(k, x) = k \o <<x>>
  BY <1>1, AppendIsConcat
<1>5. k \o (<<x>> \o q) = (k \o <<x>>) \o q
  BY <1>3, ConcatAssociative
<1> QED BY <1>2, <1>4, <1>5 DEF q, x

\* What is left when a redirector and the word after it are taken out between k
\* and the rest of the words.
TakenApart(T, k, ws, n) ==
  /\ Len(T) = Len(k) + Len(ws) - n
  /\ T[Len(k) + 1] = ws[n + 1]
  /\ SubSeq(T, 1, Len(k)) \o SubSeq(T, Len(k) + 3, Len(T)) = k \o SubSeq(ws, n + 3, Len(ws))

LEMMA TakenOut ==
  ASSUME NEW k \in Seq(STRING), NEW ws \in Seq(STRING), NEW n \in 0 .. Len(ws) - 2,
         NEW T, T = k \o SubSeq(ws, n + 1, Len(ws))
  PROVE  TakenApart(T, k, ws, n)
<1> DEFINE r == SubSeq(ws, n + 1, Len(ws))
<1>1. /\ Len(ws) \in Nat /\ Len(k) \in Nat
      /\ \A i \in 1 .. Len(ws) : ws[i] \in STRING
  OBVIOUS
<1>2. /\ r \in Seq(STRING) /\ Len(r) = Len(ws) - n
      /\ \A i \in 1 .. Len(ws) - n : r[i] = ws[n + i]
  BY <1>1, SubSeqProperties
<1> HIDE DEF r
<1>3. /\ T \in Seq(STRING) /\ Len(T) = Len(k) + Len(ws) - n
      /\ \A i \in 1 .. Len(T) : T[i] = IF i <= Len(k) THEN k[i] ELSE r[i - Len(k)]
  BY <1>1, <1>2, ConcatProperties DEF r
<1>4. T[Len(k) + 1] = ws[n + 1]
  BY <1>1, <1>2, <1>3
<1>5. SubSeq(T, 1, Len(k)) = k
  <2>1. /\ SubSeq(T, 1, Len(k)) \in Seq(STRING) /\ Len(SubSeq(T, 1, Len(k))) = Len(k)
        /\ \A i \in 1 .. Len(k) : SubSeq(T, 1, Len(k))[i] = k[i]
    BY <1>1, <1>3
  <2> QED BY <2>1, <1>1, SeqEqual
<1>6. SubSeq(T, Len(k) + 3, Len(T)) = SubSeq(ws, n + 3, Len(ws))
  <2> DEFINE d == Append(Append(k, ws[n + 1]), ws[n + 2])
             t == SubSeq(ws, n + 3, Len(ws))
  <2>1. /\ d \in Seq(STRING) /\ Len(d) = Len(k) + 2 /\ Append(k, ws[n + 1]) \in Seq(STRING)
        /\ t \in Seq(STRING) /\ Len(t) = Len(ws) - n - 2
    BY <1>1
  <2>2. n + 1 \in 0 .. Len(ws) - 1 /\ n \in 0 .. Len(ws) - 1 /\ (n + 1) + 1 = n + 2 /\ (n + 1) + 2 = n + 3
    BY <1>1
  <2>3. T = Append(k, ws[n + 1]) \o SubSeq(ws, n + 2, Len(ws))
    BY <2>2, MovedOn
  <2>4. Append(k, ws[n + 1]) \o SubSeq(ws, (n + 1) + 1, Len(ws))
        = Append(Append(k, ws[n + 1]), ws[(n + 1) + 1]) \o SubSeq(ws, (n + 1) + 2, Len(ws))
    BY <2>1, <2>2, MovedOn
  <2>5. T = d \o t
    BY <2>2, <2>3, <2>4
  <2> HIDE DEF d, t
  <2>6. Len(T) = Len(d) + Len(t) /\ Len(k) + 3 = Len(d) + 1
    <3>1. /\ Len(T) = Len(k) + Len(ws) - n /\ Len(d) = Len(k) + 2 /\ Len(t) = Len(ws) - n - 2
          /\ Len(k) \in Nat /\ Len(ws) \in Nat /\ n \in Nat
      BY <1>1, <1>3, <2>1
    <3> QED BY <3>1
  <2>7. SubSeq(d \o t, Len(d) + 1, Len(d) + Len(t)) = t
    BY <2>1, AfterPrefix
  <2>8. SubSeq(T, Len(k) + 3, Len(T)) = t
    BY <2>5, <2>6, <2>7
  <2> QED BY <2>8 DEF t
<1> QED BY <1>3, <1>4, <1>5, <1>6 DEF TakenApart

\* One turn of removeRdrFromTokens(), with everything before n dealt with: the
\* shifted place is that of the redirector.
LEMMA TakenFromArray ==
  ASSUME NEW k \in Seq(STRING), NEW ws \in Seq(STRING), NEW n \in 0 .. Len(ws) - 2,
         NEW s \in Arrays, s.tokens = k \o SubSeq(ws, n + 1, Len(ws)),
         Len(k) + s.shift = n, ~ s.lost, ws[n + 1] \in Files
  PROVE  /\ TakeOut(s, n + 1).tokens = k \o SubSeq(ws, n + 3, Len(ws))
         /\ TakeOut(s, n + 1).shift = s.shift + 2
         /\ ~ TakeOut(s, n + 1).lost
<1> DEFINE p == (n + 1) - s.shift
<1>0. PICK T : T = s.tokens /\ T = k \o SubSeq(ws, n + 1, Len(ws))
  OBVIOUS
<1>1. /\ Len(T) = Len(k) + Len(ws) - n
      /\ T[Len(k) + 1] = ws[n + 1]
      /\ SubSeq(T, 1, Len(k)) \o SubSeq(T, Len(k) + 3, Len(T)) = k \o SubSeq(ws, n + 3, Len(ws))
  <2>1. TakenApart(T, k, ws, n)
    BY <1>0, TakenOut
  <2> QED BY <2>1 DEF TakenApart
<1>2. Len(k) \in Nat /\ Len(ws) \in Nat /\ s.shift \in Int /\ n \in Nat /\ n <= Len(ws) - 2
  BY DEF Arrays
<1>3. p = Len(k) + 1
  <2> DEFINE l == Len(k)
             h == s.shift
  <2>1. l \in Nat /\ h \in Int /\ n \in Nat /\ l + h = n /\ p = (n + 1) - h
    BY <1>2
  <2> HIDE DEF l, h, p
  <2>2. p = l + 1
    BY <2>1
  <2> QED BY <2>2 DEF l
<1>4. p - 1 = Len(k) /\ p + 2 = Len(k) + 3 /\ p \in Int /\ p >= 1
  <2> DEFINE l == Len(k)
  <2>1. l \in Nat /\ p = l + 1
    BY <1>2, <1>3
  <2> HIDE DEF p, l
  <2>2. p - 1 = l /\ p + 2 = l + 3 /\ p \in Int /\ p >= 1
    BY <2>1
  <2> QED BY <2>2 DEF l
<1>5. Len(T) = Len(k) + Len(ws) - n
  BY <1>1
<1>6. p \in 1 .. Len(T) - 1
  <2> HIDE DEF p
  <2>1. Len(T) \in Int
    BY <1>2, <1>5
  <2>2. p <= Len(T) - 1
    <3> DEFINE l == Len(k)
               w == Len(ws)
               t == Len(T)
    <3>1. l \in Nat /\ w \in Nat /\ n \in Nat /\ n <= w - 2 /\ p = l + 1 /\ t = l + w - n
      BY <1>2, <1>3, <1>5
    <3> HIDE DEF l, w, t
    <3>2. p <= t - 1
      BY <3>1
    <3> QED BY <3>2 DEF t
  <2> QED BY <2>1, <2>2, <1>4
<1>7. /\ TakeOut(s, n + 1).tokens = SubSeq(T, 1, p - 1) \o SubSeq(T, p + 2, Len(T))
      /\ TakeOut(s, n + 1).shift = s.shift + (IF T[p] \in Files THEN 2 ELSE 0)
      /\ ~ TakeOut(s, n + 1).lost
  BY <1>0, <1>6 DEF TakeOut
<1> HIDE DEF p
<1> QED BY <1>1, <1>3, <1>4, <1>7

\* removeRdrFromTokens() leaves the words that were meant: its list of places,
\* shifted by two for each < and > taken out, finds every one of them.
LEMMA RemovalLeavesMeant ==
  ASSUME NEW ws \in Seq(STRING), FirstBad(ws) > Len(ws),
         \A i \in 1 .. Len(ws) : ws[i] \in Redirectors => ws[i] \in Files,
         \A i \in 2 .. Len(ws) : ~ (ws[i - 1] \in Files /\ ws[i] \in Redirectors)
  PROVE  removeRdrFromTokens(ws).tokens = Meant(ws)
<1> DEFINE N == Len(ws)
<1>1. PICK left \in [0 .. N -> Arrays] :
           /\ left[0] = [tokens |-> ws, shift |-> 0, walks |-> FALSE, lost |-> FALSE]
           /\ \A n \in 1 .. N :
                left[n] = IF n \in redirList(ws) THEN TakeOut(left[n - 1], n) ELSE left[n - 1]
           /\ removeRdrFromTokens(ws) = left[N]
  BY RemovalSteps
<1>2. PICK kept \in [0 .. N -> Seq(STRING)] :
           /\ kept[0] = <<>>
           /\ \A n \in 1 .. N :
                kept[n] = IF ws[n] \in Files \/ (n > 1 /\ ws[n - 1] \in Files) THEN kept[n - 1]
                          ELSE Append(kept[n - 1], ws[n])
           /\ Meant(ws) = kept[N]
  BY MeantSteps
<1>3. N \in Nat /\ Files \subseteq Redirectors /\ redirList(ws) = {n \in 1 .. N : ws[n] \in Files}
  BY DEF Files, Redirectors, redirList
<1> DEFINE Named(n) == n > 0 /\ ws[n] \in Files
           Good(n) == /\ left[n].tokens = kept[n] \o SubSeq(ws, (IF Named(n) THEN n + 2 ELSE n + 1), N)
                      /\ Len(kept[n]) + left[n].shift = IF Named(n) THEN n + 1 ELSE n
                      /\ ~ left[n].lost
           D == {n \in 0 .. N : Good(n)}
<1>4. 0 \in D
  <2>1. SubSeq(ws, 1, N) = ws /\ <<>> \o ws = ws /\ <<>> \in Seq(STRING) /\ Len(<<>>) = 0
    BY SubSeqFull, ConcatEmptySeq
  <2>2. left[0].tokens = ws /\ left[0].shift = 0 /\ ~ left[0].lost /\ kept[0] = <<>>
    BY <1>1, <1>2
  <2>3. ~ Named(0) /\ 0 + 1 = 1 /\ 0 + 0 = 0 /\ 0 \in 0 .. N
    BY <1>3
  <2>4. Good(0)
    BY <2>1, <2>2, <2>3
  <2> QED BY <2>3, <2>4
<1>5. ASSUME NEW n \in 0 .. N, n \in D, n < N PROVE n + 1 \in D
  <2> DEFINE k == kept[n]
             s == left[n]
             m == n + 1
  <2>1. /\ m \in 1 .. N /\ m \in 0 .. N /\ m - 1 = n /\ m > 0 /\ n \in Nat /\ m + 1 = n + 2
        /\ m + 2 = n + 3
    BY <1>3, <1>5
  <2>2. Good(n)
    BY <1>5
  <2>3. /\ k \in Seq(STRING) /\ s \in Arrays /\ ws[m] \in STRING /\ Len(k) \in Nat
        /\ s.shift \in Int /\ s.tokens \in Seq(STRING)
    BY <1>1, <1>2, <2>1 DEF Arrays
  <2>4. /\ left[m] = IF ws[m] \in Files THEN TakeOut(s, m) ELSE s
        /\ kept[m] = IF ws[m] \in Files \/ (m > 1 /\ ws[n] \in Files) THEN k ELSE Append(k, ws[m])
    BY <1>1, <1>2, <1>3, <2>1
  <2>5. n \in 0 .. N - 1 /\ (m > 1 => n \in 1 .. N) /\ (n + 1 = m)
    BY <1>3, <2>1
  <2>6. Good(n) <=> /\ s.tokens = k \o SubSeq(ws, (IF Named(n) THEN n + 2 ELSE m), N)
                    /\ Len(k) + s.shift = IF Named(n) THEN m ELSE n
                    /\ ~ s.lost
    OBVIOUS
  <2>7. Good(m) <=> /\ left[m].tokens = kept[m] \o SubSeq(ws, (IF Named(m) THEN n + 3 ELSE n + 2), N)
                    /\ Len(kept[m]) + left[m].shift = IF Named(m) THEN n + 2 ELSE m
                    /\ ~ left[m].lost
    BY <2>1
  <2> HIDE DEF k, s, Good
  <2>8. CASE ws[m] \in Files
    <3>1. m < N
      BY <2>1, <2>8, FilesHaveNames
    <3>2. ~ Named(n)
      <4> SUFFICES ASSUME n > 0, ws[n] \in Files PROVE FALSE
        OBVIOUS
      <4>1. m \in 2 .. N
        BY <2>1
      <4> QED BY <4>1, <2>1, <2>8, <1>3
    <3>3. s.tokens = k \o SubSeq(ws, n + 1, N) /\ Len(k) + s.shift = n /\ ~ s.lost
      BY <2>2, <2>6, <3>2
    <3>4. n \in 0 .. N - 2
      BY <1>3, <2>1, <3>1
    <3>5. left[m].tokens = k \o SubSeq(ws, n + 3, N) /\ left[m].shift = s.shift + 2 /\ ~ left[m].lost
      <4>1. left[m] = TakeOut(s, m)
        BY <2>4, <2>8
      <4>2. ws[n + 1] \in Files
        BY <2>8
      <4>3. n \in 0 .. Len(ws) - 2
        BY <3>4
      <4> HIDE DEF m, N
      <4>4. s.tokens = k \o SubSeq(ws, n + 1, Len(ws)) /\ Len(k) + s.shift = n /\ ~ s.lost
        BY <3>3 DEF N
      <4>5. /\ TakeOut(s, n + 1).tokens = k \o SubSeq(ws, n + 3, Len(ws))
            /\ TakeOut(s, n + 1).shift = s.shift + 2
            /\ ~ TakeOut(s, n + 1).lost
        BY <2>3, <4>2, <4>3, <4>4, TakenFromArray
      <4> QED BY <4>1, <4>5 DEF m, N
    <3>6. kept[m] = k /\ Named(m)
      BY <2>1, <2>4, <2>8
    <3>7. Len(k) + left[m].shift = n + 2
      <4> DEFINE h == s.shift
      <4>1. Len(k) \in Nat /\ h \in Int /\ n \in Nat /\ Len(k) + h = n /\ left[m].shift = h + 2
        BY <2>1, <2>3, <3>3, <3>5
      <4> HIDE DEF h, m
      <4> QED BY <4>1
    <3>8. Good(m)
      BY <2>7, <3>5, <3>6, <3>7
    <3> QED BY <2>1, <3>8
  <2>9. CASE ws[m] \notin Files
    <3>1. left[m] = s /\ ~ Named(m)
      BY <2>4, <2>9
    <3>2. CASE Named(n)
      <4>1. kept[m] = k
        BY <2>1, <2>4, <2>9, <3>2
      <4>2. s.tokens = k \o SubSeq(ws, n + 2, N) /\ Len(k) + s.shift = m /\ ~ s.lost
        BY <2>2, <2>6, <3>2
      <4>3. Good(m)
        BY <2>7, <3>1, <4>1, <4>2
      <4> QED BY <2>1, <4>3
    <3>3. CASE ~ Named(n)
      <4>1. kept[m] = Append(k, ws[m])
        BY <2>1, <2>4, <2>5, <2>9, <3>3
      <4>2. s.tokens = k \o SubSeq(ws, m, N) /\ Len(k) + s.shift = n /\ ~ s.lost
        BY <2>2, <2>6, <3>3
      <4>3. k \o SubSeq(ws, n + 1, N) = Append(k, ws[n + 1]) \o SubSeq(ws, n + 2, N)
        <5> HIDE DEF m
        <5> QED BY <2>3, <2>5, MovedOn
      <4>4. Len(kept[m]) + s.shift = m
        BY <2>1, <2>3, <4>1, <4>2
      <4>5. Good(m)
        BY <2>7, <3>1, <4>1, <4>2, <4>3, <4>4
      <4> QED BY <2>1, <4>5
    <3> QED BY <3>2, <3>3
  <2> QED BY <2>8, <2>9
<1> HIDE DEF D
<1>6. 0 .. N \subseteq D
  BY <1>3, <1>4, <1>5, UpTo
<1>7. Good(N) /\ kept[N] \in Seq(STRING)
  <2>1. N \in D /\ N \in 0 .. N
    BY <1>3, <1>6
  <2> HIDE DEF N, Good
  <2> QED BY <1>2, <2>1 DEF D
<1>8. SubSeq(ws, N + 1, N) = <<>> /\ SubSeq(ws, N + 2, N) = <<>>
  BY <1>3, SubSeqEmpty
<1>9. left[N].tokens = kept[N] \o <<>>
  BY <1>7, <1>8
<1>10. kept[N] \o <<>> = kept[N]
  BY <1>7, ConcatEmptySeq
<1> QED BY <1>1, <1>2, <1>9, <1>10

\* Without < and > all words are meant.
LEMMA AllMeant ==
  ASSUME NEW ws \in Seq(STRING), \A i \in 1 .. Len(ws) : ws[i] \notin Files
  PROVE  Meant(ws) = ws
<1> DEFINE N == Len(ws)
<1>1. N \in Nat
  OBVIOUS
<1>2. PICK kept \in [0 .. N -> Seq(STRING)] :
           /\ kept[0] = <<>>
           /\ \A n \in 1 .. N :
                kept[n] = IF ws[n] \in Files \/ (n > 1 /\ ws[n - 1] \in Files) THEN kept[n - 1]
                          ELSE Append(kept[n - 1], ws[n])
           /\ Meant(ws) = kept[N]
  BY MeantSteps, Zenon
<1> DEFINE D == {n \in 0 .. N : kept[n] \o SubSeq(ws, n + 1, N) = ws}
<1>3. 0 \in D
  <2>1. SubSeq(ws, 1, N) = ws /\ <<>> \o ws = ws /\ 0 + 1 = 1 /\ 0 \in 0 .. N
    BY SubSeqFull, ConcatEmptySeq
  <2>2. kept[0] \o SubSeq(ws, 0 + 1, N) = ws
    BY <1>2, <2>1
  <2> QED BY <2>1, <2>2
<1>4. ASSUME NEW n \in 0 .. N, n \in D, n < N PROVE n + 1 \in D
  <2>1. /\ n + 1 \in 1 .. N /\ n + 1 \in 0 .. N /\ (n + 1) - 1 = n /\ (n + 1) + 1 = n + 2
        /\ n \in 0 .. N - 1 /\ (n + 1 > 1 => n \in 1 .. N)
    BY <1>1, <1>4
  <2>2. kept[n + 1] = Append(kept[n], ws[n + 1]) /\ kept[n] \in Seq(STRING)
    BY <1>2, <2>1
  <2>3. kept[n] \o SubSeq(ws, n + 1, N) = Append(kept[n], ws[n + 1]) \o SubSeq(ws, n + 2, N)
    BY <2>1, <2>2, MovedOn
  <2> QED BY <1>4, <2>1, <2>2, <2>3
<1> HIDE DEF D
<1>5. 0 .. N \subseteq D
  BY <1>1, <1>3, <1>4, UpTo
<1>6. kept[N] \o SubSeq(ws, N + 1, N) = ws /\ kept[N] \in Seq(STRING)
  BY <1>2, <1>1, <1>5 DEF D
<1>7. SubSeq(ws, N + 1, N) = <<>> /\ kept[N] \o <<>> = kept[N]
  BY <1>1, <1>6, SubSeqEmpty, ConcatEmptySeq
<1> QED BY <1>2, <1>6, <1>7

\* The commands main() computes for a line it was given.
LEMMA CommandsTyped ==
  ASSUME NEW l \in Lines
  PROVE  CommandsOf[l] \in Seq(Seq(STRING)) /\ LeftOf[l].commands \in Seq(Seq(STRING))
<1>1. l \in Seq(STRING)
  BY SfishAssumption
<1>2. CommandsOf[l] = changePipeInTokens(l)
  BY DEF CommandsOf
<1>3. LeftOf[l].commands = changePipeInTokens(removeRdrFromTokens(l).tokens)
  BY DEF LeftOf
<1> QED BY <1>1, <1>2, <1>3, RemovalTyped, CutTyped
-----------------------------------------------------------------------------
(* The inductive invariant.                                                *)

Kinds == {"none", "new", "failed", "run", "stuck", "stopped", "zombie", "rogue"}
Places == {"prompt", "setup", "final", "execute", "fork", "group", "suspend",
           "fork_left", "wait_left", "next"} \union Ended

CommandLines == Seq(Seq(STRING))

Types ==
  /\ pc \in Places
  /\ pc = "setup" => words \in Lines
  /\ line \in CommandLines /\ stage \in Nat
  /\ cpid \in Pids \union {Nobody}
  /\ pc \in {"group", "suspend", "wait_left"} => cpid \in Pids
  /\ kids \in [Pids -> Kinds] /\ grouped \subseteq Unreaped
  /\ atPid \in {0, 1}
  /\ pgid \in [0 .. MAX_NUM_PGID - 1 -> Pids \union {Shell, Nobody, Gone}]
  /\ idxPgid \in Nat /\ totalPgid \in Nat \ {0} /\ loose \in Nat

\* Descriptors 0 and 1 are moved only under one of the two flags, which tell
\* what is in the line when it is taken apart.
Descriptors ==
  /\ ~ redirFlag /\ ~ pipeFlag => out = "tty" /\ inn = "tty"
  /\ pc \in {"fork_left", "wait_left", "next"} => pipeFlag
  /\ pc = "setup" => (redirFlag <=> Range(words) \intersect (Redirectors \ {"|"}) # {})

\* No command is left from the line before.
Entered == pc \in {"prompt", "setup"} => line = <<>>

\* SIGCHLD is blocked from executable()'s sigprocmask() to its end; the handler
\* comes inside only while sigsuspend() waits for it.
Mask ==
  /\ pc \in {"fork", "group", "suspend"} => blocked
  /\ pc \notin {"fork", "group", "suspend"} \union Ended => ~ blocked
  /\ pc \in {"fork", "group"} => ~ inHandler
  /\ pc = "suspend" /\ inHandler => atPid = 0

\* What an interrupted executable() leaves in the index: two at the most.
Index ==
  idxPgid <= 2 * loose + (IF pc = "suspend" THEN 2
                          ELSE IF pc \in {"fork", "group"} THEN 1 ELSE 0)

\* The child executable() or the pipe loop is waiting for will be reaped before
\* the line goes on; of the others there is one per interruption at the most.
Waited == pc \in {"wait_left", "group"} \/ (pc = "suspend" /\ atPid = 0)
Owed == IF Waited THEN Unreaped \ {cpid} ELSE Unreaped

Debts ==
  /\ IsFiniteSet(Unreaped)
  /\ Cardinality(Owed) <= loose
  /\ pc = "wait_left" /\ kids[cpid] = "stopped" => Cardinality(Owed) + 1 <= loose

\* In a session without interruptions SIGCHLD is neither pending nor handled
\* while the child that is waited for lives, and it stays for the handler.
Quiet == loose = 0 =>
  /\ \A p \in Pids : kids[p] \notin {"stopped", "rogue"}
  /\ pc = "fork" => ~ chld
  /\ Waited /\ kids[cpid] \in {"new", "run", "stuck"} => ~ chld /\ ~ inHandler
  /\ pc = "group" \/ (pc = "suspend" /\ atPid = 0) => kids[cpid] # "none"

\* In such a session the index and the total count from the line's beginning,
\* and nothing is ever written past the place of the program.
Counted == loose = 0 =>
  /\ pc \in {"fork", "group"} => idxPgid = 1
  /\ pc \in {"prompt", "setup"} => totalPgid = 1
  /\ pc \in {"fork_left", "wait_left", "next", "execute", "fork", "group", "suspend"} =>
       stage % 2 = 1
  /\ pc \in {"fork_left", "wait_left", "execute", "fork", "group"} /\ stage = 1 => totalPgid = 1
  /\ pc \in {"execute", "fork", "group", "suspend"} /\ Len(line) < 4 => stage = 1
  /\ pc = "suspend" => totalPgid >= 2 /\ (Len(line) < 4 => totalPgid = 2)
  /\ pc = "suspend" /\ atPid = 0 => pgid[1] = IF cpid \in grouped THEN cpid ELSE Shell
  /\ pgid[2] = Nobody

\* Neither the shell nor its group is among what ^C signals.
Safe == totalPgid <= 2 /\ (totalPgid = 2 => pgid[1] \notin {Shell, Nobody})

\* So it is at a prompt up to the first interruption, which goes there only
\* from such a table, and during a line before it.
Survives ==
  /\ pc = "prompt" /\ loose <= 1 => Safe
  /\ loose = 0 /\ pc \notin Ended => raced \/ Len(line) >= 4 \/ Safe
  /\ pc = "overrun" => loose >= 2 \/ raced \/ Len(line) >= 4

Inv == /\ Types /\ Descriptors /\ Entered /\ Mask /\ Index /\ Debts
       /\ Quiet /\ Counted /\ Survives

-----------------------------------------------------------------------------
(* Types.                                                                  *)

\* A process id is not one of the numbers that stand for no child.
LEMMA Numbers ==
  /\ Pids \subseteq Nat
  /\ Shell \notin Pids /\ Nobody \notin Pids /\ Gone \notin Pids
  /\ Shell # Nobody /\ Gone # Shell /\ Gone # Nobody
BY SfishAssumption DEF Shell, Nobody, Gone

\* fork() gives a number no child has.
LEMMA NewPidIsFresh ==
  ASSUME Fresh # {}
  PROVE  NewPid \in Fresh
<1>1. Fresh \subseteq Nat
  BY Numbers DEF Fresh
<1>2. \E p \in Fresh : \A q \in Fresh : p <= q
  BY <1>1, LeastNumber
<1> QED BY <1>2 DEF NewPid

LEMMA NoCommands == <<>> \in CommandLines
BY DEF CommandLines

LEMMA TypesInit == Init => Types
<1> SUFFICES ASSUME Init PROVE Types
  OBVIOUS
<1>1. kids \in [Pids -> Kinds] /\ grouped \subseteq Unreaped
  BY DEF Init, Kinds, Unreaped
<1>2. pgid \in [0 .. MAX_NUM_PGID - 1 -> Pids \union {Shell, Nobody, Gone}]
  BY DEF Init
<1>3. line \in CommandLines /\ stage \in Nat
  BY NoCommands DEF Init
<1>4. pc \in Places /\ pc = "prompt" /\ cpid = Nobody /\ atPid = 0 /\ totalPgid = 1
  BY DEF Init, Places
<1>5. idxPgid \in Nat /\ totalPgid \in Nat \ {0} /\ loose \in Nat
  BY DEF Init
<1> QED BY <1>1, <1>2, <1>3, <1>4, <1>5 DEF Types

\* Setup computes the commands of a line it was given.
LEMMA TypesSetup ==
  ASSUME Types, Setup
  PROVE  Types'
<1>1. words \in Lines
  BY DEF Types, Setup, Runs, At
<1>2. /\ CommandsOf[words] \in CommandLines /\ LeftOf[words].commands \in CommandLines
      /\ <<>> \in CommandLines
  BY <1>1, CommandsTyped, NoCommands DEF CommandLines
<1>3. /\ line' \in {<<>>, CommandsOf[words], LeftOf[words].commands}
      /\ pc' \in {"fork_left", "exited", "execute", "final", "undefined"}
  BY DEF Setup, Dispatch, Unreadable
<1>4. stage' = 1 /\ UNCHANGED <<cpid, signals, table, redirFlag, pipeFlag, procs, history>>
  BY DEF Setup
<1>5. line' \in CommandLines
  BY <1>2, <1>3
<1> QED BY <1>3, <1>4, <1>5 DEF Types, Places, Ended, signals, table, procs, history, Unreaped

LEMMA TypesNext == Types /\ [Next]_vars => Types'
<1> SUFFICES ASSUME Types, [Next]_vars PROVE Types'
  OBVIOUS
<1> USE DEF control, signals, table, stdio, procs, history
<1>1. CASE ReadLine
  BY <1>1 DEF Types, ReadLine, Places, Unreaped, Ended
<1>2. CASE Setup
  BY <1>2, TypesSetup
<1>3. CASE Final
  <2>1. line' \in CommandLines /\ stage' \in Nat
    BY <1>3, NoCommands DEF Final, Forget
  <2> QED BY <1>3, <2>1 DEF Types, Final, Forget, Places, Unreaped, Ended
<1>4. CASE Execute
  <2>1. pgid' \in [0 .. MAX_NUM_PGID - 1 -> Pids \union {Shell, Nobody, Gone}]
    BY <1>4 DEF Types, Execute
  <2> QED BY <1>4, <2>1 DEF Types, Execute, Places, Unreaped
<1>5. CASE Fork
  <2>1. NewPid \in Pids /\ Forks
    BY <1>5, NewPidIsFresh DEF Fork, Forks, Fresh
  <2>2. kids' \in [Pids -> Kinds] /\ grouped' \subseteq Unreaped'
    BY <2>1 DEF Types, Forks, Unreaped, Kinds
  <2> QED BY <1>5, <2>1, <2>2 DEF Types, Fork, Forks, Places
<1>6. CASE Group
  <2>1. /\ kids' = kids
        /\ grouped' = IF kids[cpid] \in {"new", "failed"} THEN grouped \union {cpid} ELSE grouped
        /\ cpid \in Pids
    BY <1>6 DEF Types, Group, Runs, At
  <2>2. kids' \in [Pids -> Kinds] /\ grouped' \subseteq Unreaped'
    BY <2>1 DEF Types, Unreaped
  <2>3. pgid' \in [0 .. MAX_NUM_PGID - 1 -> Pids \union {Shell, Nobody, Gone}]
    BY <1>6 DEF Types, Group
  <2>4. /\ pc' = "suspend" /\ cpid' = cpid /\ line' = line /\ stage' = stage /\ loose' = loose
        /\ idxPgid' = idxPgid + 1 /\ totalPgid' = totalPgid + 1 /\ atPid' = 0
    BY <1>6 DEF Group
  <2> QED BY <2>1, <2>2, <2>3, <2>4 DEF Types, Places
<1>7. CASE Resume
  BY <1>7 DEF Types, Resume, Places, Unreaped, Ended
<1>8. CASE ForkLeft
  <2>1. NewPid \in Pids /\ Forks
    BY <1>8, NewPidIsFresh DEF ForkLeft, Forks, Fresh
  <2>2. kids' \in [Pids -> Kinds] /\ grouped' \subseteq Unreaped'
    BY <2>1 DEF Types, Forks, Unreaped, Kinds
  <2> QED BY <1>8, <2>1, <2>2 DEF Types, ForkLeft, Forks, Places
<1>9. CASE WaitLeft
  <2>1. kids' \in [Pids -> Kinds] /\ grouped' \subseteq Unreaped'
    BY <1>9 DEF Types, WaitLeft, At, Reaped, Unreaped, Kinds
  <2>2. pgid' \in [0 .. MAX_NUM_PGID - 1 -> Pids \union {Shell, Nobody, Gone}]
    BY <1>9 DEF Types, WaitLeft, Reaped
  <2>3. pc' \in {"next", "undefined", "execute"}
    BY <1>9 DEF WaitLeft, TakeRight
  <2> QED BY <1>9, <2>1, <2>2, <2>3 DEF Types, WaitLeft, Places, Ended
<1>10. CASE NextPair
  BY <1>10 DEF Types, NextPair, Places, Unreaped, Ended
<1>11. CASE EnterHandler
  BY <1>11 DEF Types, EnterHandler, Places, Unreaped
<1>12. CASE ReapAny
  <2>1. kids' \in [Pids -> Kinds] /\ grouped' \subseteq Unreaped'
    BY <1>12 DEF Types, ReapAny, Continued, Unreaped, Kinds
  <2>2. pgid' \in [0 .. MAX_NUM_PGID - 1 -> Pids \union {Shell, Nobody, Gone}]
    BY <1>12 DEF Types, ReapAny
  <2> QED BY <1>12, <2>1, <2>2 DEF Types, ReapAny, Places
<1>13. ASSUME NEW p \in Pids, Exec(p) PROVE Types'
  <2>1. kids' \in [Pids -> Kinds] /\ grouped' \subseteq Unreaped'
    BY <1>13 DEF Types, Exec, Becomes, Unreaped, Kinds
  <2> QED BY <1>13, <2>1 DEF Types, Exec, Places
<1>14. ASSUME NEW p \in Pids, Exit(p) PROVE Types'
  <2>1. kids' \in [Pids -> Kinds] /\ grouped' \subseteq Unreaped'
    BY <1>14 DEF Types, Exit, Becomes, Unreaped, Kinds
  <2> QED BY <1>14, <2>1 DEF Types, Exit, Places
<1>15. ASSUME NEW p \in Pids, ReadTerminal(p) PROVE Types'
  <2>1. kids' \in [Pids -> Kinds] /\ grouped' \subseteq Unreaped'
    BY <1>15 DEF Types, ReadTerminal, Becomes, Unreaped, Kinds
  <2> QED BY <1>15, <2>1 DEF Types, ReadTerminal, Places
<1>16. CASE CtrlC
  <2>1. kids' \in [Pids -> Kinds] /\ grouped' \subseteq Unreaped'
    BY <1>16 DEF Types, CtrlC, Interrupted, Unreaped, Kinds
  <2>2. line' \in CommandLines /\ stage' \in Nat /\ cpid' \in Pids \union {Nobody}
    BY <1>16, NoCommands DEF Types, CtrlC, Forget
  <2> QED BY <1>16, <2>1, <2>2 DEF Types, CtrlC, Forget, Places, Ended
<1>17. CASE CtrlZ
  <2>1. kids' \in [Pids -> Kinds] /\ grouped' \subseteq Unreaped'
    BY <1>17 DEF Types, CtrlZ, Unreaped, Kinds
  <2> QED BY <1>17, <2>1 DEF Types, CtrlZ, Places
<1>18. CASE UNCHANGED vars
  BY <1>18 DEF Types, vars, Unreaped
<1> QED BY <1>1, <1>2, <1>3, <1>4, <1>5, <1>6, <1>7, <1>8, <1>9, <1>10, <1>11, <1>12,
           <1>13, <1>14, <1>15, <1>16, <1>17, <1>18 DEF Next, Main, Handler, Over

-----------------------------------------------------------------------------
(* The descriptors.                                                        *)

\* A redirection that was made is a word of the line.
LEMMA DoneIsWritten ==
  ASSUME NEW ws \in Seq(STRING), NEW R, Done(ws, R) # {}
  PROVE  Range(ws) \intersect R # {}
<1>1. PICK i \in 1 .. FirstBad(ws) - 1 : ws[i] \in R
  BY DEF Done
<1>2. i \in DOMAIN ws
  BY <1>1, FirstBadIsFirst
<1> QED BY <1>1, <1>2 DEF Range

LEMMA DescriptorsNext == Types /\ Descriptors /\ [Next]_vars => Descriptors'
<1> SUFFICES ASSUME Types, Descriptors, [Next]_vars PROVE Descriptors'
  OBVIOUS
<1> USE DEF control, signals, table, stdio, procs, history
<1>1. CASE ReadLine
  BY <1>1 DEF Descriptors, ReadLine, Files, Redirectors
<1>2. CASE Setup
  <2>1. words \in Seq(STRING) /\ pc = "setup"
    BY <1>2, SfishAssumption DEF Types, Setup, Runs, At
  <2>2. ~ redirFlag => Done(words, {">"}) = {} /\ Done(words, {"<"}) = {}
    BY <2>1, DoneIsWritten DEF Descriptors, Redirectors
  <2>3. out' = (IF Done(words, {">"}) = {} THEN out ELSE "file")
        /\ inn' = (IF Done(words, {"<"}) = {} THEN inn ELSE "file")
        /\ redirFlag' = redirFlag /\ pipeFlag' = pipeFlag
    BY <1>2 DEF Setup, Redirect
  <2>4. pc' # "setup" /\ (pc' \in {"fork_left", "wait_left", "next"} => pipeFlag)
    BY <1>2 DEF Setup, Dispatch, Unreadable
  <2> QED BY <2>2, <2>3, <2>4 DEF Descriptors
<1>3. CASE Final
  BY <1>3 DEF Descriptors, Final
<1>4. CASE Execute \/ Fork \/ Group \/ ForkLeft \/ Resume
  BY <1>4 DEF Descriptors, Execute, Fork, Group, ForkLeft, Resume, Runs, At
<1>5. CASE WaitLeft \/ NextPair
  BY <1>5 DEF Descriptors, WaitLeft, TakeRight, NextPair, Runs, At
<1>6. CASE EnterHandler \/ ReapAny \/ CtrlZ
  BY <1>6 DEF Descriptors, EnterHandler, ReapAny, CtrlZ
<1>7. ASSUME NEW p \in Pids, Exec(p) \/ Exit(p) \/ ReadTerminal(p) PROVE Descriptors'
  BY <1>7 DEF Descriptors, Exec, Exit, ReadTerminal
<1>8. CASE CtrlC
  BY <1>8 DEF Descriptors, CtrlC, Forget
<1>9. CASE UNCHANGED vars
  BY <1>9 DEF Descriptors, vars
<1> QED BY <1>1, <1>2, <1>3, <1>4, <1>5, <1>6, <1>7, <1>8, <1>9 DEF Next, Main, Handler, Over

LEMMA DescriptorsInit == Init => Descriptors /\ Entered
BY DEF Init, Descriptors, Entered

LEMMA EnteredNext == Entered /\ [Next]_vars => Entered'
<1> SUFFICES ASSUME Entered, [Next]_vars PROVE Entered'
  OBVIOUS
<1> USE DEF control, signals, table, stdio, procs, history
<1>1. CASE ReadLine \/ Final \/ CtrlC
  BY <1>1 DEF Entered, ReadLine, Runs, At, Final, CtrlC, Forget
<1>2. CASE Setup
  <2>1. pc' \notin {"prompt", "setup"}
    BY <1>2 DEF Setup, Dispatch, Unreadable
  <2> QED BY <2>1 DEF Entered
<1>3. CASE Execute \/ Fork \/ Group \/ Resume \/ ForkLeft \/ WaitLeft \/ NextPair
  <2>1. pc' \notin {"prompt", "setup"}
    BY <1>3 DEF Execute, Fork, Group, Resume, ForkLeft, WaitLeft, TakeRight, NextPair
  <2> QED BY <2>1 DEF Entered
<1>4. CASE EnterHandler \/ ReapAny \/ CtrlZ \/ UNCHANGED vars
  BY <1>4 DEF Entered, EnterHandler, ReapAny, CtrlZ, vars
<1>5. ASSUME NEW p \in Pids, Exec(p) \/ Exit(p) \/ ReadTerminal(p) PROVE Entered'
  BY <1>5 DEF Entered, Exec, Exit, ReadTerminal
<1> QED BY <1>1, <1>2, <1>3, <1>4, <1>5 DEF Next, Main, Handler, Over

-----------------------------------------------------------------------------
(* The signal mask and the index into the table.                           *)

LEMMA MaskNext == Types /\ Mask /\ [Next]_vars => Mask'
<1> SUFFICES ASSUME Types, Mask, [Next]_vars PROVE Mask'
  OBVIOUS
<1> USE DEF control, signals, table, stdio, procs, history, Ended
<1>1. CASE ReadLine \/ Final \/ Execute
  BY <1>1 DEF Mask, ReadLine, Final, Execute, Runs, At, Deliverable
<1>2. CASE Setup
  <2>1. pc' \in {"fork_left", "exited", "execute", "final", "undefined"}
    BY <1>2 DEF Setup, Dispatch, Unreadable
  <2> QED BY <1>2, <2>1 DEF Mask, Setup, Runs, At
<1>3. CASE Fork \/ Group \/ Resume \/ ForkLeft
  BY <1>3 DEF Mask, Fork, Group, Resume, ForkLeft, Runs, At
<1>4. CASE WaitLeft
  <2>1. pc' \in {"next", "undefined", "execute"}
    BY <1>4 DEF WaitLeft, TakeRight
  <2> QED BY <1>4, <2>1 DEF Mask, WaitLeft, At
<1>5. CASE NextPair
  BY <1>5 DEF Mask, NextPair, Runs, At
<1>6. CASE EnterHandler
  BY <1>6 DEF Mask, EnterHandler, Deliverable
<1>7. CASE ReapAny
  BY <1>7 DEF Mask, ReapAny
<1>8. ASSUME NEW p \in Pids, Exec(p) \/ Exit(p) \/ ReadTerminal(p) PROVE Mask'
  BY <1>8 DEF Mask, Exec, Exit, ReadTerminal
<1>9. CASE CtrlC
  BY <1>9 DEF Mask, CtrlC, Forget
<1>10. CASE CtrlZ
  BY <1>10 DEF Mask, CtrlZ
<1>11. CASE UNCHANGED vars
  BY <1>11 DEF Mask, vars
<1> QED BY <1>1, <1>2, <1>3, <1>4, <1>5, <1>6, <1>7, <1>8, <1>9, <1>10, <1>11
        DEF Next, Main, Handler, Over

LEMMA IndexNext == Types /\ Index /\ [Next]_vars => Index'
<1> SUFFICES ASSUME Types, Index, [Next]_vars PROVE Index'
  OBVIOUS
<1> USE DEF control, signals, table, stdio, procs, history, Ended
<1>0. idxPgid \in Nat /\ loose \in Nat
  BY DEF Types
<1>1. CASE ReadLine \/ Final \/ Execute
  BY <1>0, <1>1 DEF Index, ReadLine, Final, Execute, Runs, At
<1>2. CASE Setup
  <2>1. pc' \in {"fork_left", "exited", "execute", "final", "undefined"}
    BY <1>2 DEF Setup, Dispatch, Unreadable
  <2> QED BY <1>0, <1>2, <2>1 DEF Index, Setup, Runs, At
<1>3. CASE Fork \/ Group \/ Resume \/ ForkLeft
  BY <1>0, <1>3 DEF Index, Fork, Group, Resume, ForkLeft, Runs, At
<1>4. CASE WaitLeft
  <2>1. pc' \in {"next", "undefined", "execute"}
    BY <1>4 DEF WaitLeft, TakeRight
  <2> QED BY <1>0, <1>4, <2>1 DEF Index, WaitLeft, At
<1>5. CASE NextPair
  BY <1>0, <1>5 DEF Index, NextPair, Runs, At
<1>6. CASE EnterHandler \/ ReapAny
  BY <1>0, <1>6 DEF Index, EnterHandler, ReapAny
<1>7. ASSUME NEW p \in Pids, Exec(p) \/ Exit(p) \/ ReadTerminal(p) PROVE Index'
  BY <1>0, <1>7 DEF Index, Exec, Exit, ReadTerminal
<1>8. CASE CtrlC
  <2>1. /\ pc' \in {"prompt", "overrun"} /\ idxPgid' = idxPgid
        /\ IF pc = "prompt" THEN loose' = loose ELSE loose' = loose + 1
    BY <1>8 DEF CtrlC
  <2> QED BY <1>0, <2>1 DEF Index
<1>9. CASE CtrlZ
  BY <1>0, <1>9 DEF Index, CtrlZ
<1>10. CASE UNCHANGED vars
  BY <1>0, <1>10 DEF Index, vars
<1> QED BY <1>1, <1>2, <1>3, <1>4, <1>5, <1>6, <1>7, <1>8, <1>9, <1>10
        DEF Next, Main, Handler, Over

LEMMA MaskIndexInit == Init => Mask /\ Index
BY DEF Init, Mask, Index, Ended

-----------------------------------------------------------------------------
(* The children that are still to be waited for.                           *)

\* fork() adds its child to them, wait() takes one away.
LEMMA ForkAdds ==
  ASSUME Types, Forks
  PROVE  /\ cpid' \in Pids \ Unreaped /\ Unreaped' = Unreaped \union {cpid'}
         /\ kids'[cpid'] = "new" /\ \A p \in Unreaped : kids'[p] = kids[p]
<1>1. NewPid \in Pids \ Unreaped
  BY NewPidIsFresh DEF Forks, Fresh
<1>2. /\ cpid' = NewPid /\ kids' = [kids EXCEPT ![NewPid] = "new"] /\ kids \in [Pids -> Kinds]
  BY DEF Forks, Types
<1>3. kids'[cpid'] = "new" /\ \A p \in Pids \ {cpid'} : kids'[p] = kids[p]
  BY <1>1, <1>2
<1> QED BY <1>1, <1>2, <1>3 DEF Unreaped

LEMMA ReapTakes ==
  ASSUME Types, NEW c \in Pids, Reaped(c)
  PROVE  /\ Unreaped' = Unreaped \ {c}
         /\ \A p \in Pids \ {c} : kids'[p] = kids[p]
<1>1. kids' = [kids EXCEPT ![c] = "none"] /\ kids \in [Pids -> Kinds]
  BY DEF Reaped, Types
<1> QED BY <1>1 DEF Unreaped

\* waitpid(-1): one that is dead, or none when there is none.
LEMMA ReapAnyTakes ==
  ASSUME Types, ReapAny
  PROVE  \E dead :
           /\ \/ dead = {} /\ Unreaped = {}
              \/ \E c \in Unreaped : dead = {c} /\ kids[c] \in {"zombie", "failed"}
           /\ Unreaped' = Unreaped \ dead
           /\ grouped' = grouped \ dead
           /\ pgid' = [i \in DOMAIN pgid |-> IF pgid[i] \in dead THEN Gone ELSE pgid[i]]
           /\ \A p \in Unreaped \ dead : kids'[p] = IF p \in Continued THEN "run" ELSE kids[p]
<1>1. PICK dead \in {{p} : p \in {q \in Pids : kids[q] \in {"zombie", "failed"}}}
                       \union (IF Unreaped = {} THEN {{}} ELSE {}) :
        /\ kids' = [p \in Pids |-> IF p \in dead THEN "none"
                                    ELSE IF p \in Continued THEN "run" ELSE kids[p]]
        /\ grouped' = grouped \ dead
        /\ pgid' = [i \in DOMAIN pgid |-> IF pgid[i] \in dead THEN Gone ELSE pgid[i]]
  BY DEF ReapAny
<1>2. \/ dead = {} /\ Unreaped = {}
     \/ \E c \in Unreaped : dead = {c} /\ kids[c] \in {"zombie", "failed"}
  BY <1>1 DEF Unreaped
<1>3. Unreaped' = Unreaped \ dead
  BY <1>1, <1>2 DEF Unreaped, Continued
<1>4. \A p \in Unreaped \ dead : kids'[p] = IF p \in Continued THEN "run" ELSE kids[p]
  BY <1>1 DEF Unreaped
<1> QED BY <1>1, <1>2, <1>3, <1>4

\* A child that runs, ends, stops or is killed is still to be waited for.
LEMMA ChildStays ==
  ASSUME Types, NEW p \in Pids, NEW k \in Kinds \ {"none"}, kids[p] # "none", Becomes(p, k)
  PROVE  /\ Unreaped' = Unreaped /\ kids'[p] = k
         /\ \A q \in Pids \ {p} : kids'[q] = kids[q]
<1>1. kids' = [kids EXCEPT ![p] = k] /\ kids \in [Pids -> Kinds]
  BY DEF Becomes, Types
<1>2. kids'[p] = k /\ \A q \in Pids \ {p} : kids'[q] = kids[q]
  BY <1>1
<1> QED BY <1>2 DEF Unreaped

LEMMA CtrlCKills ==
  ASSUME Types, CtrlC
  PROVE  Unreaped' = Unreaped /\ \A p \in Pids : kids'[p] = Interrupted(p)
BY DEF Types, CtrlC, Interrupted, Reached, Unreaped

LEMMA CtrlZStops ==
  ASSUME Types, CtrlZ
  PROVE  Unreaped' = Unreaped /\ \A p \in Pids : kids'[p] \in {kids[p], "stopped"}
BY DEF Types, CtrlZ, Unreaped

\* A step that neither makes nor takes a child, nor ends a wait.
LEMMA DebtsKept ==
  ASSUME Debts, Unreaped' = Unreaped, Waited' <=> Waited, Waited => cpid' = cpid,
         loose' = loose,
         pc' = "wait_left" /\ kids'[cpid'] = "stopped" => pc = "wait_left" /\ kids[cpid] = "stopped"
  PROVE  Debts'
<1>1. Owed' = Owed
  BY DEF Owed
<1> QED BY <1>1 DEF Debts

LEMMA DebtsFork ==
  ASSUME Types, Debts, Forks, ~ Waited, Waited', loose' = loose
  PROVE  Debts'
<1>1. Owed = Unreaped /\ Owed' = Unreaped' \ {cpid'}
  BY DEF Owed
<1>2. Owed' = Owed /\ Unreaped' = Unreaped \union {cpid'}
  BY <1>1, ForkAdds
<1>3. IsFiniteSet(Unreaped')
  BY <1>2, FS_AddElement DEF Debts
<1>4. kids'[cpid'] # "stopped"
  BY ForkAdds
<1> QED BY <1>2, <1>3, <1>4 DEF Debts

\* The child that is reaped is one that is owed, or the one that is waited for.
LEMMA DebtsReap ==
  ASSUME Types, Debts, NEW dead, dead = {} \/ \E c \in Unreaped : dead = {c},
         Unreaped' = Unreaped \ dead, loose' = loose,
         \/ Waited' /\ Waited /\ cpid' = cpid
         \/ ~ Waited' /\ ~ Waited
         \/ ~ Waited' /\ Waited /\ (cpid \in Unreaped => \E c \in Unreaped : dead = {c}),
         pc' = "wait_left" /\ kids'[cpid'] = "stopped" => pc = "wait_left" /\ kids[cpid] = "stopped"
  PROVE  Debts'
<1>1. IsFiniteSet(Unreaped) /\ IsFiniteSet(Owed) /\ Cardinality(Owed) \in Nat /\ loose \in Nat
  BY FS_RemoveElement, FS_CardinalityType DEF Debts, Owed, Types
<1>2. IsFiniteSet(Unreaped')
  BY <1>1, FS_Subset
<1>3. IsFiniteSet(Owed') /\ Cardinality(Owed') \in Nat /\ Cardinality(Owed') <= Cardinality(Owed)
  <2>1. CASE Owed' \subseteq Owed
    BY <1>1, <2>1, FS_Subset, FS_CardinalityType
  <2>2. CASE ~ (Owed' \subseteq Owed)
    <3>1. ~ Waited' /\ Waited /\ cpid \in Unreaped
      BY <2>2 DEF Owed
    <3>2. PICK c \in Unreaped : dead = {c}
      BY <3>1
    <3>3. Owed = Unreaped \ {cpid} /\ Owed' = Unreaped \ {c}
      BY <3>1, <3>2 DEF Owed
    <3>4. Cardinality(Owed') = Cardinality(Owed)
      BY <1>1, <3>1, <3>2, <3>3, FS_RemoveElement
    <3> QED BY <1>1, <3>3, <3>4, FS_RemoveElement
  <2> QED BY <2>1, <2>2
<1>4. Cardinality(Owed) <= loose
  BY DEF Debts
<1>5. Cardinality(Owed') <= loose'
  BY <1>1, <1>3, <1>4
<1>6. ASSUME pc' = "wait_left", kids'[cpid'] = "stopped" PROVE Cardinality(Owed') + 1 <= loose'
  <2>1. Cardinality(Owed) + 1 <= loose
    BY <1>6 DEF Debts
  <2> QED BY <1>1, <1>3, <2>1
<1> QED BY <1>2, <1>5, <1>6 DEF Debts

\* An interruption lets the shell forget, or a child stop, for one debt more.
LEMMA DebtsLoose ==
  ASSUME Types, Debts, Unreaped' = Unreaped, loose' = loose + 1,
         Waited' => Waited /\ cpid' = cpid
  PROVE  Debts'
<1>1. IsFiniteSet(Unreaped) /\ loose \in Nat /\ Cardinality(Owed) <= loose
  BY DEF Debts, Types
<1>2. IsFiniteSet(Owed) /\ Cardinality(Owed) \in Nat
  BY <1>1, FS_RemoveElement, FS_CardinalityType DEF Owed
<1>3. Cardinality(Unreaped) <= Cardinality(Owed) + 1 /\ Cardinality(Unreaped) \in Nat
  <2>1. Cardinality(Unreaped) \in Nat
    BY <1>1, FS_CardinalityType
  <2>2. CASE Owed = Unreaped
    BY <2>1, <2>2
  <2>3. CASE Owed = Unreaped \ {cpid}
    <3>1. Cardinality(Owed) = IF cpid \in Unreaped THEN Cardinality(Unreaped) - 1
                              ELSE Cardinality(Unreaped)
      BY <1>1, <2>3, FS_RemoveElement
    <3> QED BY <2>1, <3>1
  <2> QED BY <2>1, <2>2, <2>3 DEF Owed
<1>4. Owed' = Owed \/ (~ Waited' /\ Owed' = Unreaped)
  BY DEF Owed
<1>5. Cardinality(Owed') <= loose'
  BY <1>1, <1>2, <1>3, <1>4
<1>6. ASSUME pc' = "wait_left" PROVE Cardinality(Owed') + 1 <= loose'
  <2>1. Owed' = Owed
    BY <1>6 DEF Waited, Owed
  <2> QED BY <1>1, <1>2, <2>1
<1> QED BY <1>1, <1>5, <1>6 DEF Debts

LEMMA DebtsNext == Types /\ Mask /\ Debts /\ [Next]_vars => Debts'
<1> SUFFICES ASSUME Types, Mask, Debts, [Next]_vars PROVE Debts'
  OBVIOUS
<1> USE DEF control, signals, table, stdio, procs, history
<1>1. CASE ReadLine \/ Setup \/ Final \/ Execute \/ Resume \/ NextPair
  <2>1. kids' = kids /\ loose' = loose /\ ~ Waited /\ ~ Waited' /\ pc' # "wait_left"
    BY <1>1 DEF ReadLine, Setup, Dispatch, Unreadable, Final, Execute, Resume, NextPair, Runs, At, Waited
  <2> QED BY <2>1, DebtsKept DEF Unreaped
<1>2. CASE Group
  <2>1. /\ kids' = kids /\ loose' = loose /\ cpid' = cpid
        /\ Waited /\ Waited' /\ pc' # "wait_left"
    BY <1>2 DEF Group, Runs, At, Waited
  <2> QED BY <2>1, DebtsKept DEF Unreaped
<1>3. CASE Fork \/ ForkLeft
  <2>1. Forks /\ loose' = loose /\ ~ Waited /\ Waited'
    BY <1>3 DEF Fork, ForkLeft, Runs, At, Waited
  <2> QED BY <2>1, DebtsFork
<1>4. CASE WaitLeft
  <2>1. loose' = loose /\ Waited /\ ~ Waited' /\ pc' # "wait_left" /\ pc = "wait_left" /\ cpid \in Pids
    BY <1>4 DEF Types, WaitLeft, TakeRight, At, Waited
  <2>2. CASE kids[cpid] \in {"zombie", "failed"}
    <3>1. Unreaped' = Unreaped \ {cpid}
      BY <1>4, <2>1, <2>2, ReapTakes DEF WaitLeft
    <3>2. cpid \in Unreaped
      BY <2>1, <2>2 DEF Unreaped
    <3> QED BY <2>1, <3>1, <3>2, DebtsReap
  <2>3. CASE kids[cpid] = "none"
    <3>1. kids' = kids /\ cpid \notin Unreaped
      BY <1>4, <2>3 DEF WaitLeft, Unreaped
    <3>2. Unreaped' = Unreaped \ {}
      BY <3>1 DEF Unreaped
    <3> QED BY <2>1, <3>1, <3>2, DebtsReap
  <2>4. CASE kids[cpid] = "stopped"
    <3>1. kids' = kids /\ cpid \in Unreaped
      BY <1>4, <2>1, <2>4 DEF WaitLeft, Unreaped
    <3>2. Owed = Unreaped \ {cpid} /\ Owed' = Unreaped /\ Unreaped' = Unreaped
      BY <2>1, <3>1 DEF Owed, Unreaped
    <3>3. IsFiniteSet(Unreaped) /\ Cardinality(Owed) + 1 <= loose
      BY <2>1, <2>4 DEF Debts
    <3>4. Cardinality(Owed) = Cardinality(Unreaped) - 1 /\ Cardinality(Unreaped) \in Nat
      BY <3>1, <3>2, <3>3, FS_RemoveElement, FS_CardinalityType
    <3>5. Cardinality(Owed') <= loose'
      BY <2>1, <3>2, <3>3, <3>4 DEF Types
    <3> QED BY <2>1, <3>2, <3>3, <3>5 DEF Debts
  <2> QED BY <1>4, <2>2, <2>3, <2>4 DEF WaitLeft
<1>5. CASE EnterHandler
  <2>1. /\ kids' = kids /\ loose' = loose /\ cpid' = cpid /\ pc' = pc
        /\ Waited' <=> Waited
    BY <1>5 DEF EnterHandler, Waited
  <2> QED BY <2>1, DebtsKept DEF Unreaped
<1>6. CASE ReapAny
  <2>1. PICK dead :
           /\ \/ dead = {} /\ Unreaped = {}
              \/ \E c \in Unreaped : dead = {c} /\ kids[c] \in {"zombie", "failed"}
           /\ Unreaped' = Unreaped \ dead
           /\ \A p \in Unreaped \ dead : kids'[p] = IF p \in Continued THEN "run" ELSE kids[p]
    BY <1>6, ReapAnyTakes
  <2>2. /\ loose' = loose /\ cpid' = cpid /\ pc' = pc /\ atPid' = 1
        /\ inHandler /\ (pc = "suspend" => atPid = 0) /\ pc # "group"
    BY <1>6 DEF ReapAny, Mask
  <2>3. Waited' <=> pc = "wait_left"
    BY <2>2 DEF Waited
  <2>4. pc' = "wait_left" /\ kids'[cpid'] = "stopped" => pc = "wait_left" /\ kids[cpid] = "stopped"
    <3> SUFFICES ASSUME pc = "wait_left", kids'[cpid] = "stopped" PROVE kids[cpid] = "stopped"
      BY <2>2
    <3>1. cpid \in Pids
      BY DEF Types
    <3>2. cpid \in Unreaped'
      BY <3>1 DEF Unreaped
    <3>3. cpid \in Unreaped \ dead
      BY <2>1, <3>2
    <3> QED BY <2>1, <3>3
  <2> QED BY <2>1, <2>2, <2>3, <2>4, DebtsReap DEF Waited
<1>7. ASSUME NEW p \in Pids, Exec(p) \/ Exit(p) PROVE Debts'
  <2>1. PICK k \in {"run", "failed", "zombie", "stuck"} : Becomes(p, k)
    BY <1>7 DEF Exec, Exit
  <2>2. kids[p] # "none" /\ loose' = loose /\ cpid' = cpid /\ pc' = pc /\ atPid' = atPid
    BY <1>7 DEF Exec, Exit
  <2>3. /\ Unreaped' = Unreaped /\ kids'[p] = k
        /\ \A q \in Pids \ {p} : kids'[q] = kids[q]
    BY <2>1, <2>2, ChildStays DEF Kinds
  <2>4. pc' = "wait_left" /\ kids'[cpid'] = "stopped" => pc = "wait_left" /\ kids[cpid] = "stopped"
    BY <2>1, <2>2, <2>3 DEF Types
  <2>5. Waited' <=> Waited
    BY <2>2 DEF Waited
  <2> QED BY <2>2, <2>3, <2>4, <2>5, DebtsKept
<1>8. ASSUME NEW p \in Pids, ReadTerminal(p) PROVE Debts'
  <2>1. /\ Becomes(p, "stopped") /\ kids[p] # "none"
        /\ loose' = loose + 1 /\ cpid' = cpid /\ pc' = pc /\ atPid' = atPid
    BY <1>8 DEF ReadTerminal
  <2>2. Unreaped' = Unreaped
    BY <2>1, ChildStays DEF Kinds
  <2>3. Waited' <=> Waited
    BY <2>1 DEF Waited
  <2> QED BY <2>1, <2>2, <2>3, DebtsLoose
<1>9. CASE CtrlC
  <2>1. Unreaped' = Unreaped
    BY <1>9, CtrlCKills
  <2>2. pc' \in {"prompt", "overrun"} /\ ~ Waited'
    BY <1>9 DEF CtrlC, Waited
  <2>3. CASE pc = "prompt"
    <3>1. loose' = loose /\ ~ Waited
      BY <1>9, <2>3 DEF CtrlC, Waited
    <3> QED BY <2>1, <2>2, <3>1, DebtsKept
  <2>4. CASE pc # "prompt"
    <3>1. loose' = loose + 1
      BY <1>9, <2>4 DEF CtrlC
    <3> QED BY <2>1, <2>2, <3>1, DebtsLoose
  <2> QED BY <2>3, <2>4
<1>10. CASE CtrlZ
  <2>1. loose' = loose + 1 /\ cpid' = cpid /\ pc' = pc /\ atPid' = atPid
    BY <1>10 DEF CtrlZ
  <2>2. Unreaped' = Unreaped
    BY <1>10, CtrlZStops
  <2>3. Waited' <=> Waited
    BY <2>1 DEF Waited
  <2> QED BY <2>1, <2>2, <2>3, DebtsLoose
<1>11. CASE UNCHANGED vars
  BY <1>11 DEF vars, Debts, Owed, Waited, Unreaped
<1> QED BY <1>1, <1>2, <1>3, <1>4, <1>5, <1>6, <1>7, <1>8, <1>9, <1>10, <1>11
        DEF Next, Main, Handler, Over

LEMMA DebtsInit == Init => Debts
<1> SUFFICES ASSUME Init PROVE Debts
  OBVIOUS
<1>1. Unreaped = {} /\ Owed = {}
  BY DEF Init, Unreaped, Owed
<1>2. pc = "prompt" /\ loose = 0
  BY DEF Init
<1> QED BY <1>1, <1>2, FS_EmptySet DEF Debts

-----------------------------------------------------------------------------
(* A session without interruptions.                                        *)

\* Interruptions are only ever counted up.
LEMMA LooseGrows == Types /\ [Next]_vars => loose' \in {loose, loose + 1}
<1> SUFFICES ASSUME Types, [Next]_vars PROVE loose' \in {loose, loose + 1}
  OBVIOUS
<1> USE DEF control, signals, table, stdio, procs, history
<1>1. CASE Main
  BY <1>1 DEF Main, ReadLine, Setup, Final, Execute, Fork, Group, Resume, ForkLeft, WaitLeft, NextPair
<1>2. CASE EnterHandler \/ ReapAny \/ CtrlC \/ CtrlZ \/ UNCHANGED vars
  BY <1>2 DEF EnterHandler, ReapAny, CtrlC, CtrlZ, vars
<1>3. ASSUME NEW p \in Pids, Exec(p) \/ Exit(p) \/ ReadTerminal(p)
      PROVE  loose' \in {loose, loose + 1}
  BY <1>3 DEF Exec, Exit, ReadTerminal
<1> QED BY <1>1, <1>2, <1>3 DEF Next, Handler, Over

\* Without interruptions there is no child but the one that is waited for.
LEMMA NoDebts ==
  ASSUME Types, Debts, loose = 0
  PROVE  /\ Waited => Unreaped \subseteq {cpid} /\ cpid \in Pids
         /\ ~ Waited => Unreaped = {}
<1>1. IsFiniteSet(Owed)
  BY FS_RemoveElement DEF Debts, Owed
<1>2. Cardinality(Owed) = 0
  BY <1>1, FS_CardinalityType DEF Debts
<1>3. Owed = {}
  BY <1>1, <1>2, FS_EmptySet
<1> QED BY <1>3 DEF Owed, Waited, Types

LEMMA QuietNext == Types /\ Mask /\ Debts /\ Quiet /\ [Next]_vars => Quiet'
<1> SUFFICES ASSUME Types, Mask, Debts, Quiet, [Next]_vars, loose' = 0 PROVE Quiet'
  BY DEF Quiet
<1> USE DEF control, signals, table, stdio, procs, history
<1>0. loose = 0 /\ \A p \in Pids : kids[p] \notin {"stopped", "rogue"}
  BY LooseGrows DEF Types, Quiet
<1>1. CASE ReadLine \/ Setup \/ Final \/ Resume \/ NextPair
  <2>1. kids' = kids /\ ~ Waited' /\ pc' \notin {"fork", "group", "suspend"}
    BY <1>1 DEF ReadLine, Setup, Dispatch, Unreadable, Final, Resume, NextPair, Runs, At, Waited
  <2> QED BY <1>0, <2>1 DEF Quiet
<1>2. CASE Execute
  <2>1. kids' = kids /\ ~ Waited' /\ pc' = "fork" /\ chld' = chld
    BY <1>2 DEF Execute, Waited
  <2>2. ~ chld
    BY <1>2 DEF Execute, Runs, At, Deliverable, Mask, Ended
  <2> QED BY <1>0, <2>1, <2>2 DEF Quiet
<1>3. CASE Fork \/ ForkLeft
  <2>1. /\ Forks /\ chld' = chld /\ inHandler' = inHandler /\ ~ inHandler
        /\ pc' \in {"group", "wait_left"}
    BY <1>3 DEF Fork, ForkLeft, Runs, At
  <2>2. ~ chld
    BY <1>0, <1>3 DEF Quiet, Fork, ForkLeft, Runs, At, Deliverable, Mask, Ended
  <2>3. /\ cpid' \in Pids \ Unreaped /\ Unreaped' = Unreaped \union {cpid'}
        /\ kids'[cpid'] = "new" /\ \A p \in Unreaped : kids'[p] = kids[p]
    BY <2>1, ForkAdds
  <2>4. \A p \in Pids : kids'[p] \notin {"stopped", "rogue"}
    BY <1>0, <2>3 DEF Unreaped
  <2> QED BY <2>1, <2>2, <2>3, <2>4 DEF Quiet
<1>4. CASE Group
  <2>1. /\ kids' = kids /\ cpid' = cpid /\ chld' = chld /\ inHandler' = inHandler
        /\ pc = "group" /\ pc' = "suspend"
    BY <1>4 DEF Group, Runs, At
  <2> QED BY <1>0, <2>1 DEF Quiet, Waited
<1>5. CASE WaitLeft
  <2>1. ~ Waited' /\ pc' \notin {"fork", "group", "suspend"} /\ cpid \in Pids
    BY <1>5 DEF Types, WaitLeft, TakeRight, At, Waited
  <2>2. \A p \in Pids : kids'[p] \notin {"stopped", "rogue"}
    <3>1. CASE Reaped(cpid)
      <4>1. kids' = [kids EXCEPT ![cpid] = "none"] /\ kids \in [Pids -> Kinds]
        BY <3>1 DEF Reaped, Types
      <4> QED BY <1>0, <2>1, <4>1
    <3>2. CASE kids' = kids
      BY <1>0, <3>2
    <3> QED BY <1>5, <3>1, <3>2 DEF WaitLeft
  <2> QED BY <2>1, <2>2 DEF Quiet
<1>6. CASE EnterHandler
  <2>1. /\ kids' = kids /\ cpid' = cpid /\ pc' = pc /\ atPid' = atPid /\ chld' = FALSE
        /\ chld
    BY <1>6 DEF EnterHandler, Deliverable
  <2>2. Waited' <=> Waited
    BY <2>1 DEF Waited
  <2>3. ~ (Waited /\ kids[cpid] \in {"new", "run", "stuck"})
    BY <1>0, <2>1 DEF Quiet
  <2> QED BY <1>0, <2>1, <2>2, <2>3 DEF Quiet
<1>7. CASE ReapAny
  <2>1. PICK dead :
           /\ \/ dead = {} /\ Unreaped = {}
              \/ \E c \in Unreaped : dead = {c} /\ kids[c] \in {"zombie", "failed"}
           /\ Unreaped' = Unreaped \ dead
           /\ \A p \in Unreaped \ dead : kids'[p] = IF p \in Continued THEN "run" ELSE kids[p]
    BY <1>7, ReapAnyTakes
  <2>2. /\ loose' = loose /\ cpid' = cpid /\ pc' = pc /\ atPid' = 1
        /\ inHandler /\ pc \notin {"fork", "group"}
    BY <1>7 DEF ReapAny, Mask
  <2>3. \A p \in Pids : kids'[p] \in {"none", kids[p]}
    BY <1>0, <2>1 DEF Unreaped, Continued
  <2>4. Waited' => Waited /\ cpid \in Pids
    BY <2>2 DEF Waited, Types
  <2>5. Waited => kids[cpid] \notin {"new", "run", "stuck"}
    BY <1>0, <2>2 DEF Quiet
  <2>6. ~ (Waited' /\ kids'[cpid'] \in {"new", "run", "stuck"})
    BY <2>2, <2>3, <2>4, <2>5
  <2> QED BY <1>0, <2>2, <2>3, <2>6 DEF Quiet
<1>8. ASSUME NEW p \in Pids, Exec(p) \/ Exit(p) PROVE Quiet'
  <2>1. PICK k \in {"run", "failed", "zombie", "stuck"} :
           Becomes(p, k) /\ (k \in {"run", "stuck"} => chld' = chld)
    BY <1>8 DEF Exec, Exit
  <2>2. /\ kids[p] \in {"new", "run"} /\ cpid' = cpid /\ pc' = pc /\ atPid' = atPid
        /\ inHandler' = inHandler
    BY <1>8 DEF Exec, Exit
  <2>3. /\ kids'[p] = k /\ \A q \in Pids \ {p} : kids'[q] = kids[q]
    BY <2>1, <2>2, ChildStays DEF Kinds
  <2>4. Waited /\ p = cpid
    BY <1>0, <2>2, NoDebts DEF Unreaped
  <2>5. pc # "fork"
    BY <2>4 DEF Waited
  <2>6. ~ chld /\ ~ inHandler
    BY <1>0, <2>2, <2>4 DEF Quiet
  <2>7. \A q \in Pids : kids'[q] \notin {"stopped", "rogue"}
    BY <1>0, <2>1, <2>3
  <2> QED BY <2>1, <2>2, <2>3, <2>4, <2>5, <2>6, <2>7 DEF Quiet
<1>9. ASSUME NEW p \in Pids, ReadTerminal(p) PROVE Quiet'
  BY <1>0, <1>9 DEF ReadTerminal
<1>10. CASE CtrlC
  <2>1. pc = "prompt" /\ pc' \in {"prompt", "overrun"}
    BY <1>0, <1>10 DEF CtrlC
  <2>2. Unreaped' = {}
    BY <1>0, <1>10, <2>1, NoDebts, CtrlCKills DEF Waited
  <2> QED BY <2>1, <2>2 DEF Quiet, Waited, Unreaped
<1>11. CASE CtrlZ
  BY <1>0, <1>11 DEF CtrlZ
<1>12. CASE UNCHANGED vars
  BY <1>12 DEF vars, Quiet, Waited
<1> QED BY <1>1, <1>2, <1>3, <1>4, <1>5, <1>6, <1>7, <1>8, <1>9, <1>10, <1>11, <1>12
        DEF Next, Main, Handler, Over

-----------------------------------------------------------------------------
(* The table of groups.                                                    *)

\* The table has the places of the shell, of a program and of one entry more.
LEMMA Entries ==
  ASSUME Types
  PROVE  /\ pgid \in [0 .. MAX_NUM_PGID - 1 -> Pids \union {Shell, Nobody, Gone}]
         /\ 0 \in DOMAIN pgid /\ 1 \in DOMAIN pgid /\ 2 \in DOMAIN pgid
BY SfishAssumption DEF Types

\* Without interruptions the index starts from 0.
LEMMA IndexRestarts ==
  ASSUME Types, Index, loose = 0
  PROVE  pc \notin {"fork", "group", "suspend"} => idxPgid = 0
BY DEF Types, Index

\* An entry becomes Gone or stays when a child is reaped.
LEMMA ReapedEntries ==
  ASSUME Types, NEW dead \in SUBSET Pids,
         pgid' = [i \in DOMAIN pgid |-> IF pgid[i] \in dead THEN Gone ELSE pgid[i]]
  PROVE  pgid'[1] \in {pgid[1], Gone} /\ (pgid[2] = Nobody => pgid'[2] = Nobody)
BY Entries, Numbers

LEMMA CountedNext == Types /\ Mask /\ Index /\ Counted /\ [Next]_vars => Counted'
<1> SUFFICES ASSUME Types, Mask, Index, Counted, [Next]_vars, loose' = 0 PROVE Counted'
  BY DEF Counted
<1> USE DEF control, signals, table, stdio, procs, history
<1>0. loose = 0 /\ pgid[2] = Nobody /\ stage \in Nat /\ totalPgid \in Nat \ {0} /\ Len(line) \in Nat
  BY LooseGrows DEF Types, Counted, CommandLines
<1>1. CASE ReadLine
  <2>1. pc = "prompt" /\ pc' \in {"setup", "undefined"} /\ table' = table
    BY <1>1 DEF ReadLine, Runs, At
  <2> QED BY <1>0, <2>1 DEF Counted
<1>2. CASE Setup
  <2>1. /\ pc = "setup" /\ stage' = 1 /\ table' = table
        /\ pc' \in {"fork_left", "exited", "execute", "final", "undefined"}
    BY <1>2 DEF Setup, Dispatch, Unreadable, Runs, At
  <2> QED BY <1>0, <2>1 DEF Counted
<1>3. CASE Final
  <2>1. /\ pc' \in {"prompt", "undefined"} /\ totalPgid' = 1 /\ pgid' = pgid
    BY <1>3 DEF Final
  <2> QED BY <1>0, <2>1 DEF Counted
<1>4. CASE Execute
  <2>1. /\ pc = "execute" /\ pc' = "fork" /\ stage' = stage /\ line' = line /\ totalPgid' = totalPgid
        /\ idxPgid' = idxPgid + 1 /\ pgid' = [pgid EXCEPT ![idxPgid] = Shell]
    BY <1>4 DEF Execute, Runs, At
  <2>2. idxPgid = 0
    BY <1>0, <2>1, IndexRestarts
  <2>3. pgid'[2] = pgid[2]
    BY <2>1, <2>2, Entries
  <2> QED BY <1>0, <2>1, <2>2, <2>3 DEF Counted
<1>5. CASE Fork
  <2>1. pc = "fork" /\ pc' = "group" /\ stage' = stage /\ line' = line /\ table' = table
    BY <1>5 DEF Fork, Runs, At
  <2> QED BY <1>0, <2>1 DEF Counted
<1>6. CASE Group
  <2>1. /\ pc = "group" /\ pc' = "suspend" /\ stage' = stage /\ line' = line /\ cpid' = cpid
        /\ totalPgid' = totalPgid + 1
        /\ pgid' = [pgid EXCEPT ![idxPgid] = IF cpid \in grouped' THEN cpid ELSE Shell]
    BY <1>6 DEF Group, Runs, At
  <2>2. idxPgid = 1
    BY <1>0, <2>1 DEF Counted
  <2>3. pgid'[2] = pgid[2] /\ pgid'[1] = IF cpid \in grouped' THEN cpid ELSE Shell
    BY <2>1, <2>2, Entries
  <2>4. stage % 2 = 1 /\ (Len(line) < 4 => totalPgid = 1 /\ stage = 1)
    BY <1>0, <2>1 DEF Counted
  <2> QED BY <1>0, <2>1, <2>3, <2>4 DEF Counted
<1>7. CASE Resume
  <2>1. pc = "suspend" /\ pc' \in {"next", "final"} /\ stage' = stage /\ pgid' = pgid
    BY <1>7 DEF Resume, Runs, At
  <2> QED BY <1>0, <2>1 DEF Counted
<1>8. CASE ForkLeft
  <2>1. pc = "fork_left" /\ pc' = "wait_left" /\ stage' = stage /\ line' = line /\ table' = table
    BY <1>8 DEF ForkLeft, Runs, At
  <2> QED BY <1>0, <2>1 DEF Counted
<1>9. CASE WaitLeft
  <2>1. /\ pc = "wait_left" /\ stage' = stage /\ line' = line /\ totalPgid' = totalPgid
        /\ pc' \in {"next", "undefined", "execute"} /\ (stage >= Len(line) => pc' = "next")
    BY <1>9 DEF WaitLeft, TakeRight, At
  <2>2. pgid'[2] = Nobody
    <3>1. CASE pgid' = pgid
      BY <1>0, <3>1
    <3>2. CASE Reaped(cpid)
      <4>1. pgid' = [i \in DOMAIN pgid |-> IF pgid[i] \in {cpid} THEN Gone ELSE pgid[i]]
        BY <3>2 DEF Reaped
      <4>2. cpid \in Pids
        BY <2>1 DEF Types
      <4> QED BY <1>0, <4>1, <4>2, ReapedEntries
    <3> QED BY <1>9, <3>1, <3>2 DEF WaitLeft
  <2>3. stage % 2 = 1 /\ (stage = 1 => totalPgid = 1)
    BY <1>0, <2>1 DEF Counted
  <2>4. pc' = "execute" /\ Len(line) < 4 => stage = 1
    BY <1>0, <2>1, <2>3
  <2> QED BY <1>0, <2>1, <2>2, <2>3, <2>4 DEF Counted
<1>10. CASE NextPair
  <2>1. /\ pc = "next" /\ pc' \in {"final", "undefined", "fork_left"}
        /\ stage' = stage + 2 /\ pgid' = pgid
    BY <1>10 DEF NextPair, Runs, At
  <2>2. stage % 2 = 1
    BY <1>0, <2>1 DEF Counted
  <2>3. stage' % 2 = 1 /\ stage' # 1
    BY <1>0, <2>1, <2>2
  <2> QED BY <1>0, <2>1, <2>3 DEF Counted
<1>11. CASE EnterHandler
  <2>1. control' = control /\ table' = table /\ grouped' = grouped /\ atPid' = atPid
    BY <1>11 DEF EnterHandler
  <2> QED BY <1>0, <2>1 DEF Counted
<1>12. CASE ReapAny
  <2>1. PICK dead :
           /\ dead = {} \/ \E c \in Unreaped : dead = {c}
           /\ pgid' = [i \in DOMAIN pgid |-> IF pgid[i] \in dead THEN Gone ELSE pgid[i]]
    BY <1>12, ReapAnyTakes
  <2>2. control' = control /\ atPid' = 1 /\ idxPgid' = idxPgid /\ totalPgid' = totalPgid
    BY <1>12 DEF ReapAny
  <2>3. dead \in SUBSET Pids
    BY <2>1 DEF Unreaped
  <2>4. pgid'[2] = Nobody
    BY <1>0, <2>1, <2>3, ReapedEntries
  <2> QED BY <1>0, <2>2, <2>4 DEF Counted
<1>13. ASSUME NEW p \in Pids, Exec(p) \/ Exit(p) \/ ReadTerminal(p) PROVE Counted'
  <2>1. control' = control /\ table' = table /\ grouped' = grouped /\ atPid' = atPid
    BY <1>13 DEF Exec, Exit, ReadTerminal
  <2> QED BY <1>0, <2>1 DEF Counted
<1>14. CASE CtrlC
  <2>1. pc = "prompt" /\ pc' \in {"prompt", "overrun"} /\ table' = table
    BY <1>0, <1>14 DEF CtrlC
  <2> QED BY <1>0, <2>1 DEF Counted
<1>15. CASE CtrlZ
  BY <1>0, <1>15 DEF CtrlZ
<1>16. CASE UNCHANGED vars
  BY <1>16 DEF vars, Counted
<1> QED BY <1>1, <1>2, <1>3, <1>4, <1>5, <1>6, <1>7, <1>8, <1>9, <1>10, <1>11, <1>12,
           <1>13, <1>14, <1>15, <1>16 DEF Next, Main, Handler, Over

LEMMA SurvivesNext ==
  Types /\ Index /\ Counted /\ Survives /\ [Next]_vars => Survives'
<1> SUFFICES ASSUME Types, Index, Counted, Survives, [Next]_vars PROVE Survives'
  OBVIOUS
<1> USE DEF control, signals, table, stdio, procs, history
<1>0. loose \in Nat /\ totalPgid \in Nat \ {0} /\ Len(line) \in Nat
  BY DEF Types, CommandLines
<1>1. CASE ReadLine
  <2>1. pc = "prompt" /\ pc' \in {"setup", "undefined"} /\ table' = table /\ loose' = loose
    BY <1>1 DEF ReadLine, Runs, At
  <2> QED BY <1>0, <2>1 DEF Survives, Safe
<1>2. CASE Setup
  <2>1. /\ pc = "setup" /\ table' = table /\ loose' = loose
        /\ pc' \in {"fork_left", "exited", "execute", "final", "undefined"}
    BY <1>2 DEF Setup, Dispatch, Unreadable, Runs, At
  <2>2. loose = 0 => totalPgid = 1
    BY <2>1 DEF Counted
  <2> QED BY <1>0, <2>1, <2>2 DEF Survives, Safe
<1>3. CASE Final
  <2>1. pc' \in {"prompt", "undefined"} /\ totalPgid' = 1
    BY <1>3 DEF Final
  <2> QED BY <1>0, <2>1 DEF Survives, Safe
<1>4. CASE Execute
  <2>1. /\ pc = "execute" /\ pc' = "fork" /\ line' = line /\ loose' = loose /\ raced' = raced
        /\ totalPgid' = totalPgid /\ pgid' = [pgid EXCEPT ![idxPgid] = Shell]
    BY <1>4 DEF Execute, Runs, At
  <2>2. loose = 0 => pgid'[1] = pgid[1]
    BY <2>1, IndexRestarts, Entries
  <2> QED BY <1>0, <2>1, <2>2 DEF Survives, Safe, Ended
<1>5. CASE Fork \/ ForkLeft \/ Resume \/ NextPair
  <2>1. /\ line' = line /\ loose' = loose /\ raced' = raced /\ pgid' = pgid /\ totalPgid' = totalPgid
        /\ pc' \notin {"prompt", "overrun"} /\ pc \notin Ended
    BY <1>5 DEF Fork, ForkLeft, Resume, NextPair, Runs, At, Ended
  <2> QED BY <1>0, <2>1 DEF Survives, Safe
<1>6. CASE Group
  <2>1. /\ pc = "group" /\ pc' = "suspend" /\ line' = line /\ loose' = loose
        /\ totalPgid' = totalPgid + 1
        /\ pgid' = [pgid EXCEPT ![idxPgid] = IF cpid \in grouped' THEN cpid ELSE Shell]
    BY <1>6 DEF Group, Runs, At
  <2>2. ~ raced' => cpid \in grouped'
    BY <1>6 DEF Group
  <2>3. ASSUME loose = 0, Len(line) < 4, cpid \in grouped' PROVE Safe'
    <3>1. idxPgid = 1 /\ totalPgid = 1
      BY <2>1, <2>3 DEF Counted
    <3>2. pgid'[1] = cpid
      BY <2>1, <2>3, <3>1, Entries
    <3>3. cpid \in Pids
      BY <2>1 DEF Types
    <3> QED BY <2>1, <3>1, <3>2, <3>3, Numbers DEF Safe
  <2> QED BY <1>0, <2>1, <2>2, <2>3 DEF Survives
<1>7. CASE WaitLeft
  <2>1. /\ pc = "wait_left" /\ line' = line /\ loose' = loose /\ raced' = raced
        /\ totalPgid' = totalPgid /\ pc' \in {"next", "undefined", "execute"}
    BY <1>7 DEF WaitLeft, TakeRight, At
  <2>2. pgid'[1] \in {pgid[1], Gone}
    <3>1. CASE pgid' = pgid
      BY <3>1
    <3>2. CASE Reaped(cpid)
      <4>1. pgid' = [i \in DOMAIN pgid |-> IF pgid[i] \in {cpid} THEN Gone ELSE pgid[i]]
        BY <3>2 DEF Reaped
      <4>2. cpid \in Pids
        BY <2>1 DEF Types
      <4> QED BY <4>1, <4>2, ReapedEntries
    <3> QED BY <1>7, <3>1, <3>2 DEF WaitLeft
  <2>3. Safe => Safe'
    BY <2>1, <2>2, Numbers DEF Safe
  <2> QED BY <1>0, <2>1, <2>3 DEF Survives, Ended
<1>8. CASE EnterHandler
  <2>1. control' = control /\ table' = table /\ history' = history
    BY <1>8 DEF EnterHandler
  <2> QED BY <1>0, <2>1 DEF Survives, Safe
<1>9. CASE ReapAny
  <2>1. PICK dead :
           /\ dead = {} \/ \E c \in Unreaped : dead = {c}
           /\ pgid' = [i \in DOMAIN pgid |-> IF pgid[i] \in dead THEN Gone ELSE pgid[i]]
    BY <1>9, ReapAnyTakes
  <2>2. control' = control /\ totalPgid' = totalPgid /\ history' = history
    BY <1>9 DEF ReapAny
  <2>3. dead \in SUBSET Pids
    BY <2>1 DEF Unreaped
  <2>4. Safe => Safe'
    BY <2>1, <2>2, <2>3, ReapedEntries, Numbers DEF Safe
  <2> QED BY <1>0, <2>2, <2>4 DEF Survives
<1>10. ASSUME NEW p \in Pids, Exec(p) \/ Exit(p) \/ ReadTerminal(p) PROVE Survives'
  <2>1. control' = control /\ table' = table /\ raced' = raced /\ loose' \in {loose, loose + 1}
    BY <1>10 DEF Exec, Exit, ReadTerminal
  <2> QED BY <1>0, <2>1 DEF Survives, Safe
<1>11. CASE CtrlC
  <2> DEFINE Bad == \E i \in 1 .. totalPgid - 1 : pgid[i] \in {Shell, Nobody}
  <2>1. /\ table' = table /\ raced' = raced
        /\ loose' = IF pc = "prompt" THEN loose ELSE loose + 1
        /\ IF Bad THEN pc' = "overrun" /\ line' = line ELSE pc' = "prompt"
        /\ pc \notin Ended
    BY <1>11 DEF CtrlC
  <2>2. Safe => ~ Bad
    BY <1>0 DEF Safe
  <2>3. loose = 0 /\ ~ Bad => Safe
    <3> SUFFICES ASSUME loose = 0, ~ Bad PROVE Safe
      OBVIOUS
    <3>1. pgid[2] = Nobody
      BY DEF Counted
    <3>2. totalPgid <= 2
      <4> SUFFICES ASSUME totalPgid > 2 PROVE FALSE
        BY <1>0
      <4>1. 2 \in 1 .. totalPgid - 1
        BY <1>0
      <4> QED BY <3>1, <4>1
    <3>3. totalPgid = 2 => 1 \in 1 .. totalPgid - 1
      BY <1>0
    <3> QED BY <3>2, <3>3 DEF Safe
  <2> HIDE DEF Bad
  <2>4. CASE Bad
    <3>1. pc = "prompt" => loose >= 2
      BY <1>0, <2>2, <2>4 DEF Survives
    <3>2. pc # "prompt" => loose >= 1 \/ raced \/ Len(line) >= 4
      BY <1>0, <2>1, <2>2, <2>4 DEF Survives
    <3> QED BY <1>0, <2>1, <2>4, <3>1, <3>2 DEF Survives, Ended
  <2>5. CASE ~ Bad
    <3>1. pc' = "prompt" /\ (Safe => Safe')
      BY <2>1, <2>5 DEF Safe
    <3>2. loose' <= 1 => Safe
      BY <1>0, <2>1, <2>3, <2>5 DEF Survives
    <3>3. loose' = 0 => loose' <= 1
      OBVIOUS
    <3> QED BY <3>1, <3>2, <3>3 DEF Survives
  <2> QED BY <2>4, <2>5
<1>12. CASE CtrlZ
  <2>1. control' = control /\ table' = table /\ raced' = raced /\ loose' = loose + 1
    BY <1>12 DEF CtrlZ
  <2> QED BY <1>0, <2>1 DEF Survives, Safe
<1>13. CASE UNCHANGED vars
  BY <1>13 DEF vars, Survives, Safe
<1> QED BY <1>1, <1>2, <1>3, <1>4, <1>5, <1>6, <1>7, <1>8, <1>9, <1>10, <1>11, <1>12, <1>13
        DEF Next, Main, Handler, Over

LEMMA CountedInit == Init => Quiet /\ Counted /\ Survives
<1> SUFFICES ASSUME Init PROVE Quiet /\ Counted /\ Survives
  OBVIOUS
<1>1. /\ pc = "prompt" /\ totalPgid = 1 /\ loose = 0 /\ kids = [p \in Pids |-> "none"]
  BY DEF Init
<1>2. pgid[2] = Nobody
  BY SfishAssumption DEF Init
<1> QED BY <1>1, <1>2 DEF Quiet, Counted, Survives, Safe, Waited

-----------------------------------------------------------------------------
(* The theorems.                                                           *)

LEMMA InvInit == Init => Inv
BY TypesInit, DescriptorsInit, MaskIndexInit, DebtsInit, CountedInit DEF Inv

LEMMA InvNext == Inv /\ [Next]_vars => Inv'
<1> SUFFICES ASSUME Inv, [Next]_vars PROVE Inv'
  OBVIOUS
<1>1. Types' /\ Descriptors' /\ Entered' /\ Mask' /\ Index'
  BY TypesNext, DescriptorsNext, EnteredNext, MaskNext, IndexNext DEF Inv
<1>2. Debts' /\ Quiet' /\ Counted' /\ Survives'
  BY DebtsNext, QuietNext, CountedNext, SurvivesNext DEF Inv
<1> QED BY <1>1, <1>2 DEF Inv

\* Every state main(), its handlers and its children reach satisfies Inv: the
\* types, the descriptors, the mask, the table and the children still owed.
THEOREM ShellInvariant == Spec => []Inv
<1>1. Init => Inv
  BY InvInit
<1>2. Inv /\ [Next]_vars => Inv'
  BY InvNext
<1> QED BY <1>1, <1>2, PTL DEF Spec

\* At the prompt there is at most one child per interruption that nobody has
\* waited for: sigchld_handler() and the pipe loop share the others out.
THEOREM PromptIsAlwaysClean == Spec => []PromptIsClean
<1>1. Inv => PromptIsClean
  BY DEF Inv, Debts, Owed, Waited, PromptIsClean
<1> QED BY <1>1, ShellInvariant, PTL

\* Final gives the terminal back to descriptors 0 and 1 after every line, and no
\* redirection is made without the flag that makes Final do it.
THEOREM StdioIsRestored == Spec => []StdioRestored
<1>1. Inv => StdioRestored
  BY DEF Inv, Descriptors, StdioRestored
<1> QED BY <1>1, ShellInvariant, PTL

\* What ^C will signal during the first executable() of a line is its program,
\* and an interruption moves the index of the table by two at the most.
THEOREM TableIsSound == Spec => []TableSound
<1>1. Inv => TableSound
  <2> SUFFICES ASSUME Inv PROVE TableSound
    OBVIOUS
  <2>1. idxPgid <= 2 * (loose + 1)
    BY DEF Inv, Types, Index
  <2>2. ASSUME pc = "suspend", atPid = 0, loose = 0, Len(line) < 4
        PROVE  {pgid[i] : i \in 1 .. totalPgid - 1} = {IF cpid \in grouped THEN cpid ELSE Shell}
    <3>1. totalPgid = 2 /\ pgid[1] = IF cpid \in grouped THEN cpid ELSE Shell
      BY <2>2 DEF Inv, Counted
    <3>2. 1 .. totalPgid - 1 = {1}
      BY <3>1
    <3> QED BY <3>1, <3>2
  <2> QED BY <2>1, <2>2 DEF TableSound
<1> QED BY <1>1, ShellInvariant, PTL

\* waitpid(-1) in sigchld_handler() finds a dead child or none at all, as long as
\* nothing stopped one: the handler does not hang.
THEOREM HandlerDoesNotBlock == Spec => []HandlerNeverBlocks
<1>1. Inv => HandlerNeverBlocks
  <2> SUFFICES ASSUME Inv, inHandler, loose = 0, Unreaped # {}
               PROVE  \E p \in Pids : kids[p] \in {"zombie", "failed"}
    BY DEF HandlerNeverBlocks
  <2>1. Waited /\ Unreaped = {cpid} /\ cpid \in Pids
    BY NoDebts DEF Inv
  <2>2. kids[cpid] \notin {"stopped", "rogue", "new", "run", "stuck"}
    BY <2>1 DEF Inv, Quiet
  <2>3. kids[cpid] \in Kinds /\ kids[cpid] # "none"
    BY <2>1 DEF Inv, Types, Unreaped
  <2>4. kids[cpid] \in {"zombie", "failed"}
    BY <2>2, <2>3 DEF Kinds
  <2> QED BY <2>1, <2>4
<1> QED BY <1>1, ShellInvariant, PTL

\* The first ^C of a session comes back to the prompt: sigint_handler() finds
\* neither the shell nor an entry nobody wrote in the table, but for a child that
\* called execvp() before setpgid() and a line of four commands.
THEOREM FirstInterruptIsSurvived == Spec => []FirstInterruptSurvives
<1>1. Inv => FirstInterruptSurvives
  BY DEF Inv, Survives, FirstInterruptSurvives
<1> QED BY <1>1, ShellInvariant, PTL

\* The first ^C reaches the program the shell waits for, in whichever group it is:
\* none is left that has called execvp() and runs or waits for a pipe.  A child
\* still before execvp() is not excluded; it may become a second shell.
THEOREM InterruptAlwaysKills == Spec => InterruptKills
<1> DEFINE Killed == pc = "suspend" /\ pc' = "prompt" /\ loose = 0 /\ loose' = 1 =>
                       \A p \in Pids : kids'[p] \notin {"run", "stuck"}
<1>1. Inv /\ [Next]_vars => [Killed]_vars
  <2> SUFFICES ASSUME Inv, [Next]_vars, pc = "suspend", pc' = "prompt", loose = 0, loose' = 1,
                      NEW p \in Pids
               PROVE  kids'[p] \notin {"run", "stuck"}
    OBVIOUS
  <2>1. CtrlC
    <3> USE DEF control, signals, table, stdio, procs, history
    <3>1. ~ Main
      BY DEF Main, ReadLine, Setup, Final, Execute, Fork, Group, Resume, ForkLeft, WaitLeft,
             NextPair, Runs, At
    <3>2. ~ Handler /\ ~ CtrlZ /\ ~ Over /\ ~ UNCHANGED vars
      BY DEF Handler, EnterHandler, ReapAny, CtrlZ, Over, vars
    <3>3. \A q \in Pids : ~ (Exec(q) \/ Exit(q) \/ ReadTerminal(q))
      BY DEF Exec, Exit, ReadTerminal
    <3> QED BY <3>1, <3>2, <3>3 DEF Next
  <2>2. kids'[p] = Interrupted(p)
    BY <2>1, CtrlCKills DEF Inv
  <2>3. CASE p \notin Unreaped
    BY <2>2, <2>3 DEF Interrupted, Reached, Unreaped
  <2>4. CASE p \in Unreaped
    <3>1. Waited /\ p = cpid
      BY <2>4, NoDebts DEF Inv
    <3>2. totalPgid \in Nat /\ totalPgid >= 2 /\ pgid[1] = IF cpid \in grouped THEN cpid ELSE Shell
      BY <3>1 DEF Inv, Types, Counted, Waited
    <3>3. p \in Reached
      BY <2>4, <3>1, <3>2 DEF Reached
    <3> QED BY <2>2, <3>3 DEF Interrupted
  <2> QED BY <2>3, <2>4
<1> QED BY <1>1, ShellInvariant, PTL DEF Spec, InterruptKills

\* The commands of a line that is not mixed are what its redirections leave of
\* it, cut at the pipes, however many redirections there are and wherever.
LEMMA LeftIsMeant ==
  ASSUME NEW ws \in Seq(STRING), ~ Mixed(ws), FirstBad(ws) > Len(ws),
         Range(ws) \intersect (Redirectors \ {"|"}) # {}
  PROVE  removeRdrFromTokens(ws).tokens = Meant(ws)
<1>1. Range(ws) \intersect Files # {} /\ "|" \notin Range(ws)
  BY DEF Mixed
<1>2. \A i \in 1 .. Len(ws) : ws[i] \in Range(ws)
  BY DEF Range
<1>3. \A i \in 1 .. Len(ws) : ws[i] \in Redirectors => ws[i] \in Files
  BY <1>1, <1>2 DEF Mixed
<1>4. \A i \in 2 .. Len(ws) : ~ (ws[i - 1] \in Files /\ ws[i] \in Redirectors)
  BY DEF Mixed
<1> QED BY <1>3, <1>4, RemovalLeavesMeant

\* What setRedirection() and removeRdrFromTokens() hand on to executable() and
\* runPipeInput() is what the user typed without the redirections.
THEOREM WordsReachTheirPrograms == Spec => WordsReachPrograms
<1> DEFINE Reach == pc = "setup" /\ line' # <<>> /\ ~ Mixed(words) => line' = Commands(words)
<1>1. Inv /\ [Next]_vars => [Reach]_vars
  <2> SUFFICES ASSUME Inv, [Next]_vars, pc = "setup", line' # <<>>, ~ Mixed(words)
               PROVE  line' = Commands(words)
    OBVIOUS
  <2>1. line = <<>> /\ words \in Lines /\ words \in Seq(STRING)
    BY SfishAssumption DEF Inv, Entered, Types
  <2>2. Setup
    <3> USE DEF control, signals, table, stdio, procs, history
    <3>1. ~ (ReadLine \/ Final \/ Execute \/ Fork \/ Group \/ Resume \/ ForkLeft \/ WaitLeft \/ NextPair)
      BY DEF ReadLine, Final, Execute, Fork, Group, Resume, ForkLeft, WaitLeft, NextPair, Runs, At
    <3>2. ~ Handler /\ ~ CtrlC /\ ~ CtrlZ /\ ~ Over /\ ~ UNCHANGED vars
      BY <2>1 DEF Handler, EnterHandler, ReapAny, CtrlC, Forget, CtrlZ, Over, vars
    <3>3. \A q \in Pids : ~ (Exec(q) \/ Exit(q) \/ ReadTerminal(q))
      BY <2>1 DEF Exec, Exit, ReadTerminal
    <3> QED BY <3>1, <3>2, <3>3 DEF Next, Main
  <2>3. FirstBad(words) > Len(words)
    <3>1. ~ (FirstBad(words) <= Len(words))
      BY <2>2 DEF Setup
    <3> QED BY <2>1, <3>1, FirstBadIsFirst
  <2>4. CASE ~ redirFlag
    <3>1. line' = CommandsOf[words]
      BY <2>2, <2>3, <2>4 DEF Setup, Dispatch
    <3>2. \A i \in 1 .. Len(words) : words[i] \notin Files
      <4>1. Range(words) \intersect (Redirectors \ {"|"}) = {}
        BY <2>4 DEF Inv, Descriptors
      <4>2. Files \subseteq Redirectors \ {"|"}
        BY DEF Files, Redirectors
      <4>3. \A i \in 1 .. Len(words) : words[i] \in Range(words)
        BY <2>1 DEF Range
      <4> QED BY <4>1, <4>2, <4>3
    <3>3. Meant(words) = words
      BY <2>1, <3>2, AllMeant
    <3> QED BY <2>1, <3>1, <3>3 DEF CommandsOf, Commands
  <2>5. CASE redirFlag
    <3>1. line' = LeftOf[words].commands
      BY <2>2, <2>3, <2>5 DEF Setup, Dispatch, Unreadable
    <3>2. LeftOf[words].commands = changePipeInTokens(removeRdrFromTokens(words).tokens)
      BY <2>1 DEF LeftOf
    <3>3. removeRdrFromTokens(words).tokens = Meant(words)
      BY <2>1, <2>3, <2>5, LeftIsMeant DEF Inv, Descriptors
    <3> QED BY <3>1, <3>2, <3>3 DEF Commands
  <2> QED BY <2>4, <2>5
<1> QED BY <1>1, ShellInvariant, PTL DEF Spec, WordsReachPrograms
=============================================================================
