----------------------------- MODULE UtfProofs -----------------------------
(***************************************************************************)
(* What the hw2 codecs keep, for every code point, and what a run of the   *)
(* converter keeps, for every text, command line and choice of failing     *)
(* system calls: the inductive invariant IInv and what follows from it.    *)
(***************************************************************************)
EXTENDS Utf, Recursion, SequenceTheorems, TLAPS

CodePoint == {cp \in Nat : cp <= 1114111}

\* The first byte written for a code point announces the bytes that follow it:
\* the reader of from_utf8_to_utf16le/be asks for exactly the glyph's length.
LEMMA LeadByte ==
    ASSUME NEW cp \in CodePoint
    PROVE  /\ cp <= 127 => remaining_utf8_bytes(cp % 256) = 0
           /\ remaining_utf8_bytes(192 + ((cp \div 64) % 32)) = 1
           /\ remaining_utf8_bytes(224 + ((cp \div 4096) % 16)) = 2
           /\ remaining_utf8_bytes(240 + ((cp \div 262144) % 8)) = 3
<1>1. cp <= 127 => remaining_utf8_bytes(cp % 256) = 0
  BY DEF CodePoint, remaining_utf8_bytes
<1>2. remaining_utf8_bytes(192 + ((cp \div 64) % 32)) = 1
  BY DEF CodePoint, remaining_utf8_bytes
<1>3. remaining_utf8_bytes(224 + ((cp \div 4096) % 16)) = 2
  BY DEF CodePoint, remaining_utf8_bytes
<1>4. remaining_utf8_bytes(240 + ((cp \div 262144) % 8)) = 3
  BY DEF CodePoint, remaining_utf8_bytes
<1>5. QED BY <1>1, <1>2, <1>3, <1>4

\* Encoding a code point with utf8_*_encode and decoding it with the
\* utf8_*_decode its first byte selects gives the code point back.
THEOREM Utf8RoundTrip ==
    \A cp \in CodePoint : utf8_decode(code_point_to_utf8_glyph(cp)) = cp
<1> SUFFICES ASSUME NEW cp \in CodePoint
             PROVE  utf8_decode(code_point_to_utf8_glyph(cp)) = cp
  OBVIOUS
<1>1. CASE cp <= 127
  <2>1. code_point_to_utf8_glyph(cp) = <<cp % 256>>
    BY <1>1 DEF CodePoint, code_point_to_utf8_glyph,
       utf8_glyph_size_of_code_point, utf8_one_byte_encode
  <2>2. cp % 256 = cp
    BY <1>1 DEF CodePoint
  <2>3. QED
    BY <1>1, <2>1, <2>2, LeadByte DEF utf8_decode, utf8_one_byte_decode
<1>2. CASE cp > 127 /\ cp <= 2047
  <2>1. code_point_to_utf8_glyph(cp) = <<192 + ((cp \div 64) % 32), Cont(cp)>>
    BY <1>2 DEF CodePoint, code_point_to_utf8_glyph,
       utf8_glyph_size_of_code_point, utf8_two_byte_encode
  <2>2. utf8_decode(<<192 + ((cp \div 64) % 32), Cont(cp)>>)
        = utf8_two_byte_decode(<<192 + ((cp \div 64) % 32), Cont(cp)>>)
    BY LeadByte DEF utf8_decode
  <2>3. utf8_two_byte_decode(<<192 + ((cp \div 64) % 32), Cont(cp)>>) = cp
    BY <1>2 DEF CodePoint, utf8_two_byte_decode, Cont
  <2>4. QED BY <2>1, <2>2, <2>3
<1>3. CASE cp > 2047 /\ cp <= 65535
  <2> DEFINE g == <<224 + ((cp \div 4096) % 16), Cont(cp \div 64), Cont(cp)>>
  <2>1. code_point_to_utf8_glyph(cp) = g
    BY <1>3 DEF CodePoint, code_point_to_utf8_glyph,
       utf8_glyph_size_of_code_point, utf8_three_byte_encode
  <2>2. utf8_decode(g) = utf8_three_byte_decode(g)
    BY LeadByte DEF utf8_decode
  <2>3. utf8_three_byte_decode(g) = cp
    BY <1>3 DEF CodePoint, utf8_three_byte_decode, Cont
  <2>4. QED BY <2>1, <2>2, <2>3
<1>4. CASE cp > 65535
  <2> DEFINE g == <<240 + ((cp \div 262144) % 8), Cont(cp \div 4096),
                    Cont(cp \div 64), Cont(cp)>>
  <2>1. code_point_to_utf8_glyph(cp) = g
    BY <1>4 DEF CodePoint, code_point_to_utf8_glyph,
       utf8_glyph_size_of_code_point, utf8_four_byte_encode
  <2>2. utf8_decode(g) = utf8_four_byte_decode(g)
    BY LeadByte DEF utf8_decode
  <2>3. utf8_four_byte_decode(g) = cp
    BY <1>4 DEF CodePoint, utf8_four_byte_decode, Cont
  <2>4. QED BY <2>1, <2>2, <2>3
<1>5. QED BY <1>1, <1>2, <1>3, <1>4 DEF CodePoint

----------------------------------------------------------------------------

\* The code points whose pair begins with D800 or DBFF.
EdgePoint == {cp \in CodePoint : (cp >= 65536 /\ cp <= 66559) \/ cp >= 1113088}

\* A pair made by code_point_to_utf16le/be_glyph is put together again by
\* utf16le/be_glyph_to_code_point, unless its first half is D800 or DBFF.
THEOREM Utf16RoundTrip ==
    \A cp \in CodePoint :
        is_code_point_surrogate(cp) /\ cp \notin EdgePoint =>
            utf16_glyph_to_code_point(Upper(cp), Lower(cp)) = cp
<1> SUFFICES ASSUME NEW cp \in CodePoint, cp >= 65536, cp \notin EdgePoint
             PROVE  utf16_glyph_to_code_point(Upper(cp), Lower(cp)) = cp
  BY DEF is_code_point_surrogate
<1>1. Upper(cp) = (cp - 65536) \div 1024 + 55296
  BY DEF CodePoint, Upper, is_code_point_surrogate
<1>2. is_upper_surrogate_pair(Upper(cp))
  BY <1>1 DEF CodePoint, EdgePoint, is_upper_surrogate_pair
<1>3. Lower(cp) = (cp % 1024) + 56320
  BY DEF CodePoint, Lower, is_code_point_surrogate
<1>4. QED
  BY <1>1, <1>2, <1>3 DEF CodePoint, utf16_glyph_to_code_point

\* The pairs with first half D800 or DBFF are never put together: the strict
\* comparisons of is_upper_surrogate_pair() take the half for a character.
THEOREM EdgePairsSplit ==
    \A cp \in EdgePoint : utf16_glyph_to_code_point(Upper(cp), Lower(cp)) # cp
<1> SUFFICES ASSUME NEW cp \in EdgePoint
             PROVE  utf16_glyph_to_code_point(Upper(cp), Lower(cp)) # cp
  OBVIOUS
<1>1. Upper(cp) \in {55296, 56319}
  BY DEF CodePoint, EdgePoint, Upper, is_code_point_surrogate
<1>2. QED
  BY <1>1 DEF CodePoint, EdgePoint, utf16_glyph_to_code_point, is_upper_surrogate_pair

----------------------------------------------------------------------------
(* The bytes of a text                                                     *)

\* A value of 16 bits, and one that is no first half.
IsUnit(v) == v \in Nat /\ v < 65536
IsLast(v) == IsUnit(v) /\ ~ (55296 <= v /\ v < 56320)

\* What the assumption says of one code point.
StandardCase(cp, w) ==
    \/ cp < 128 /\ Len(w) = 1 /\ w[1] = cp
    \/ /\ 128 <= cp /\ cp < 2048 /\ Len(w) = 2
       /\ w[1] = 192 + (cp \div 64) /\ w[2] = 128 + (cp % 64)
    \/ /\ 2048 <= cp /\ cp < 65536 /\ Len(w) = 3
       /\ w[1] = 224 + (cp \div 4096) /\ w[2] = 128 + ((cp \div 64) % 64) /\ w[3] = 128 + (cp % 64)
    \/ /\ 65536 <= cp /\ Len(w) = 4
       /\ w[1] = 240 + (cp \div 262144) /\ w[2] = 128 + ((cp \div 4096) % 64)
       /\ w[3] = 128 + ((cp \div 64) % 64) /\ w[4] = 128 + (cp % 64)

\* The bytes of the standard, case by case.
LEMMA StandardBytes ==
  ASSUME NEW cp \in DOMAIN Standard
  PROVE  /\ Scalar(cp) /\ Standard[cp].utf8 \in Seq(Byte)
         /\ StandardCase(cp, Standard[cp].utf8)
<1> DEFINE w == Standard[cp].utf8
           u == Standard[cp].utf16
<1>1. Scalar(cp) /\ w = Standard8(cp)
  BY UtfAssumption
<1>2. cp \in Nat /\ cp < 1114112
  BY <1>1 DEF Scalar
<1> HIDE DEF w, u
<1>3. CASE cp < 128
  <2>1. w = <<cp>> /\ cp \in Byte
    BY <1>1, <1>2, <1>3 DEF Standard8, Byte
  <2> HIDE DEF Byte
  <2>2. w \in Seq(Byte) /\ StandardCase(cp, w)
    BY <2>1, <1>3 DEF StandardCase
  <2> QED BY <1>1, <2>2 DEF w, u
<1>4. CASE 128 <= cp /\ cp < 2048
  <2> DEFINE x == 192 + (cp \div 64)
             y == 128 + (cp % 64)
  <2>1. w = <<x, y>>
    BY <1>1, <1>2, <1>4 DEF Standard8
  <2>2. x \in Byte /\ y \in Byte
    BY <1>2, <1>4 DEF Byte
  <2>3. StandardCase(cp, w)
    BY <2>1, <1>4 DEF StandardCase
  <2> HIDE DEF Byte, x, y
  <2>4. w \in Seq(Byte)
    BY <2>1, <2>2
  <2> QED BY <1>1, <2>3, <2>4 DEF w, u
<1>5. CASE 2048 <= cp /\ cp < 65536
  <2> DEFINE x == 224 + (cp \div 4096)
             y == 128 + ((cp \div 64) % 64)
             z == 128 + (cp % 64)
  <2>1. w = <<x, y, z>>
    BY <1>1, <1>2, <1>5 DEF Standard8
  <2>2. x \in Byte /\ y \in Byte /\ z \in Byte
    BY <1>2, <1>5 DEF Byte
  <2>3. StandardCase(cp, w)
    BY <2>1, <1>5 DEF StandardCase
  <2> HIDE DEF Byte, x, y, z
  <2>4. w \in Seq(Byte)
    BY <2>1, <2>2
  <2> QED BY <1>1, <2>3, <2>4 DEF w, u
<1>6. CASE 65536 <= cp
  <2> DEFINE x == 240 + (cp \div 262144)
             y == 128 + ((cp \div 4096) % 64)
             z == 128 + ((cp \div 64) % 64)
             v == 128 + (cp % 64)
  <2>1. w = <<x, y, z, v>>
    BY <1>1, <1>2, <1>6 DEF Standard8
  <2>2. x \in Byte /\ y \in Byte /\ z \in Byte /\ v \in Byte
    BY <1>2, <1>6 DEF Byte
  <2>3. StandardCase(cp, w)
    BY <2>1, <1>6 DEF StandardCase
  <2> HIDE DEF Byte, x, y, z, v
  <2>4. w \in Seq(Byte)
    BY <2>1, <2>2
  <2> QED BY <1>1, <2>3, <2>4 DEF w, u
<1> QED BY <1>2, <1>3, <1>4, <1>5, <1>6

\* The units of one code point.
LEMMA StandardUnits ==
  ASSUME NEW cp \in DOMAIN Standard
  PROVE  \/ /\ cp < 65536 /\ Len(Standard[cp].utf16) = 1
            /\ Standard[cp].utf16[1] = cp /\ IsLast(cp)
         \/ /\ cp >= 65536 /\ Len(Standard[cp].utf16) = 2
            /\ Standard[cp].utf16[1] = 55296 + ((cp - 65536) \div 1024)
            /\ Standard[cp].utf16[2] = 56320 + (cp % 1024)
            /\ IsUnit(Standard[cp].utf16[1]) /\ IsLast(Standard[cp].utf16[2])
            /\ Standard[cp].utf16[1] >= 55296 /\ Standard[cp].utf16[1] < 56320
<1> DEFINE u == Standard[cp].utf16
<1>1. Scalar(cp) /\ u = Standard16(cp)
  BY UtfAssumption
<1>2. cp \in Nat /\ cp < 1114112 /\ (cp < 55296 \/ cp > 57343)
  BY <1>1 DEF Scalar
<1> HIDE DEF u
<1>3. CASE cp < 65536
  <2>1. u = <<cp>>
    BY <1>1, <1>3 DEF Standard16
  <2>2. IsLast(cp)
    BY <1>2, <1>3 DEF IsLast, IsUnit
  <2> QED BY <2>1, <2>2, <1>3 DEF u
<1>4. CASE cp >= 65536
  <2> DEFINE x == 55296 + ((cp - 65536) \div 1024)
             y == 56320 + (cp % 1024)
  <2>1. u = <<x, y>>
    BY <1>1, <1>2, <1>4 DEF Standard16
  <2>2. x \in Nat /\ x >= 55296 /\ x < 56320 /\ y \in Nat /\ y >= 56320 /\ y < 57344
    BY <1>2, <1>4
  <2> HIDE DEF x, y
  <2>3. u[1] = x /\ u[2] = y /\ Len(u) = 2
    BY <2>1
  <2>4. IsUnit(x) /\ IsLast(y)
    BY <2>2 DEF IsUnit, IsLast
  <2> QED BY <2>2, <2>3, <2>4, <1>4 DEF u, x, y
<1> QED BY <1>2, <1>3, <1>4

\* The standard encodes code points that are no halves of pairs.
LEMMA StandardPoint ==
  ASSUME NEW cp \in DOMAIN Standard
  PROVE  /\ Standard[cp].utf8 \in Seq(Byte) /\ Len(Standard[cp].utf8) \in Nat \ {0}
         /\ Standard[cp].utf8[1] < 254
         /\ \/ Len(Standard[cp].utf16) = 1 /\ IsLast(Standard[cp].utf16[1])
            \/ /\ Len(Standard[cp].utf16) = 2
               /\ IsUnit(Standard[cp].utf16[1]) /\ IsLast(Standard[cp].utf16[2])
<1> DEFINE w == Standard[cp].utf8
           u == Standard[cp].utf16
<1>1. Scalar(cp) /\ w \in Seq(Byte) /\ StandardCase(cp, w)
  BY StandardBytes
<1>2. \/ Len(u) = 1 /\ IsLast(u[1])
      \/ Len(u) = 2 /\ IsUnit(u[1]) /\ IsLast(u[2])
  BY StandardUnits
<1>3. cp \in Nat /\ cp < 1114112
  BY <1>1 DEF Scalar
<1> HIDE DEF w, u
<1>4. Len(w) \in Nat \ {0}
  BY <1>1 DEF StandardCase
<1>5. \/ w[1] = cp /\ cp < 128
      \/ w[1] = 192 + (cp \div 64) /\ cp < 2048
      \/ w[1] = 224 + (cp \div 4096) /\ cp < 65536
      \/ w[1] = 240 + (cp \div 262144)
  BY <1>1 DEF StandardCase
<1> DEFINE v == w[1]
<1> HIDE DEF v
<1>6. v < 254
  <2>1. cp < 2048 => 192 + (cp \div 64) < 254
    BY <1>3
  <2>2. cp < 65536 => 224 + (cp \div 4096) < 254
    BY <1>3
  <2>3. 240 + (cp \div 262144) < 254
    BY <1>3
  <2>4. \/ v = cp /\ cp < 128
        \/ v = 192 + (cp \div 64) /\ cp < 2048
        \/ v = 224 + (cp \div 4096) /\ cp < 65536
        \/ v = 240 + (cp \div 262144)
    BY <1>5 DEF v
  <2> QED BY <2>1, <2>2, <2>3, <2>4, <1>3
<1> QED BY <1>1, <1>2, <1>4, <1>6 DEF w, u, v

\* The mark in the two encodings.
LEMMA StandardMark ==
  Standard[Bom].utf8 = <<239, 187, 191>> /\ Standard[Bom].utf16 = <<65279>>
<1>1. Standard[Bom].utf8 = Standard8(65279) /\ Standard[Bom].utf16 = Standard16(65279)
  BY UtfAssumption DEF Bom
<1>2. 65279 \div 4096 = 15 /\ (65279 \div 64) % 64 = 59 /\ 65279 % 64 = 63
  OBVIOUS
<1>3. Standard8(65279) = <<224 + 15, 128 + 59, 128 + 63>>
  BY <1>2 DEF Standard8
<1>4. Standard16(65279) = <<65279>>
  BY DEF Standard16
<1> QED BY <1>1, <1>3, <1>4

\* A unit is two bytes, the low or the high one first.
LEMMA PairBytes ==
  ASSUME NEW f, NEW u, IsUnit(u)
  PROVE  /\ Pair(f, u) \in Seq(Byte) /\ Len(Pair(f, u)) = 2
         /\ Pair(f, u)[1] = IF f = "UTF16LE" THEN u % 256 ELSE u \div 256
         /\ Pair(f, u)[2] = IF f = "UTF16LE" THEN u \div 256 ELSE u % 256
<1>1. u % 256 \in Byte /\ u \div 256 \in Byte
  BY DEF Byte, IsUnit
<1> QED BY <1>1 DEF Pair

\* A code point takes at least a byte, and whole units in UTF-16, the last of
\* which is no first half.
TwoForms == {"UTF16LE", "UTF16BE"}

\* What is written of a code point.
LEMMA EncodedPoint ==
  ASSUME NEW f \in Formats, NEW cp \in DOMAIN Standard
  PROVE  /\ Encoded(f, cp) \in Seq(Byte)
         /\ Len(Encoded(f, cp)) \in Nat \ {0}
         /\ f = "UTF8" => Encoded(f, cp)[1] < 254
<1> DEFINE u == Standard[cp].utf16
           w == Standard[cp].utf8
<1>1. /\ w \in Seq(Byte) /\ Len(w) \in Nat \ {0} /\ w[1] < 254
      /\ \/ Len(u) = 1 /\ IsUnit(u[1])
         \/ Len(u) = 2 /\ IsUnit(u[1]) /\ IsUnit(u[2])
  BY StandardPoint DEF IsLast
<1>2. Encoded(f, cp) = IF f = "UTF8" THEN w
                       ELSE IF Len(u) = 1 THEN Pair(f, u[1]) ELSE Pair(f, u[1]) \o Pair(f, u[2])
  BY DEF Encoded
<1> HIDE DEF u, w
<1>3. CASE f = "UTF8"
  BY <1>1, <1>2, <1>3
<1>4. CASE f # "UTF8" /\ Len(u) = 1
  BY <1>1, <1>2, <1>4, PairBytes
<1>5. CASE f # "UTF8" /\ Len(u) = 2
  <2>1. Encoded(f, cp) = Pair(f, u[1]) \o Pair(f, u[2])
    BY <1>2, <1>5
  <2>2. Pair(f, u[1]) \in Seq(Byte) /\ Len(Pair(f, u[1])) = 2
    BY <1>1, <1>5, PairBytes
  <2>3. Pair(f, u[2]) \in Seq(Byte) /\ Len(Pair(f, u[2])) = 2
    BY <1>1, <1>5, PairBytes
  <2> HIDE DEF Byte
  <2> DEFINE p == Pair(f, u[1])
             q == Pair(f, u[2])
  <2>4. p \in Seq(Byte) /\ q \in Seq(Byte) /\ Len(p) = 2 /\ Len(q) = 2
    BY <2>2, <2>3
  <2> HIDE DEF p, q
  <2>5. p \o q \in Seq(Byte) /\ Len(p \o q) = Len(p) + Len(q)
    BY <2>4, ConcatProperties
  <2>6. Len(p \o q) = 4
    BY <2>4, <2>5
  <2> QED BY <2>1, <2>5, <2>6, <1>5 DEF p, q
<1> QED BY <1>1, <1>3, <1>4, <1>5

\* In UTF-16 the last two bytes are those of a unit that is no first half.
EndsIn(f, bs, v) ==
    /\ IsLast(v)
    /\ Len(bs) \in Nat /\ Len(bs) >= 2 /\ Len(bs) % 2 = 0
    /\ bs[Len(bs) - 1] = Pair(f, v)[1] /\ bs[Len(bs)] = Pair(f, v)[2]

\* A code point ends in its last unit.
LEMMA EncodedUnits ==
  ASSUME NEW f \in TwoForms, NEW cp \in DOMAIN Standard
  PROVE  EndsIn(f, Encoded(f, cp), Standard[cp].utf16[Len(Standard[cp].utf16)])
<1> DEFINE u == Standard[cp].utf16
           e == Encoded(f, cp)
<1>1. \/ Len(u) = 1 /\ IsUnit(u[1]) /\ IsLast(u[1])
      \/ Len(u) = 2 /\ IsUnit(u[1]) /\ IsUnit(u[2]) /\ IsLast(u[2])
  BY StandardPoint DEF IsLast
<1>2. e = IF Len(u) = 1 THEN Pair(f, u[1]) ELSE Pair(f, u[1]) \o Pair(f, u[2])
  BY DEF Encoded, TwoForms
<1> HIDE DEF u, e
<1>3. CASE Len(u) = 1
  <2>1. e = Pair(f, u[1]) /\ Len(e) = 2
    BY <1>1, <1>2, <1>3, PairBytes
  <2> QED BY <2>1, <1>1, <1>3 DEF EndsIn, u, e
<1>4. CASE Len(u) = 2
  <2> DEFINE p == Pair(f, u[1])
             q == Pair(f, u[2])
  <2>0. IsUnit(u[1]) /\ IsUnit(u[2]) /\ IsLast(u[2])
    BY <1>1, <1>4
  <2>1. e = p \o q
    BY <1>2, <1>4
  <2>2. p \in Seq(Byte) /\ Len(p) = 2
    BY <2>0, PairBytes
  <2>3. q \in Seq(Byte) /\ Len(q) = 2
    BY <2>0, PairBytes
  <2> HIDE DEF p, q, Byte
  <2>4. Len(e) = 4 /\ e[3] = q[1] /\ e[4] = q[2]
    <3>1. /\ Len(p \o q) = Len(p) + Len(q)
          /\ \A i \in 1 .. Len(p) + Len(q) : (p \o q)[i] = IF i <= Len(p) THEN p[i] ELSE q[i - Len(p)]
      BY <2>2, <2>3, ConcatProperties
    <3>2. \A i \in 1 .. 4 : e[i] = IF i <= 2 THEN p[i] ELSE q[i - 2]
      BY <3>1, <2>1, <2>2, <2>3
    <3> QED BY <2>1, <2>2, <2>3, <3>1, <3>2
  <2>5. EndsIn(f, e, u[2])
    BY <2>4, <2>0 DEF EndsIn, q
  <2> QED BY <2>5, <1>4 DEF u, e
<1> QED BY <1>1, <1>3, <1>4

\* The encoding of a text, one code point after the other.
EncodedSoFar(f, text, k) ==
    /\ EncodedTo(f, text, k) \in Seq(Byte)
    /\ k = 0 => EncodedTo(f, text, k) = <<>>
    /\ k > 0 => EncodedTo(f, text, k) = EncodedTo(f, text, k - 1) \o Encoded(f, text[k])

\* The encoding of a text obeys its recursion.
LEMMA EncodedSteps ==
  ASSUME NEW f \in Formats, NEW text \in Seq(DOMAIN Standard), NEW k \in 0 .. Len(text)
  PROVE  EncodedSoFar(f, text, k)
<1> DEFINE N == Len(text)
           S == Seq(Byte)
           b == <<>>
           Add(s, i) == s \o Encoded(f, text[i])
           Rec(h) == [i \in 0 .. N |-> IF i = 0 THEN b ELSE Add(h[i - 1], i)]
           g == [i \in 1 .. N |-> [s \in S |-> Add(s, i)]]
           enc == CHOOSE h : h = Rec(h)
<1>1. N \in Nat /\ b \in S
  OBVIOUS
<1>2. \A i \in 1 .. N : text[i] \in DOMAIN Standard
  OBVIOUS
<1>3. \A n \in 0 .. N : EncodedTo(f, text, n) = enc[n]
  BY DEF EncodedTo
<1>4. \A s \in S, i \in 1 .. N : Add(s, i) \in S
  <2> TAKE s \in S, i \in 1 .. N
  <2>1. Encoded(f, text[i]) \in Seq(Byte)
    BY <1>2, EncodedPoint
  <2> HIDE DEF Byte
  <2> QED BY <2>1, ConcatProperties
<1> HIDE DEF b, N, S, Add
<1>5. g \in [1 .. N -> [S -> S]]
  BY <1>4
<1>6. \E h : h = Rec(h)
  <2> HIDE DEF g
  <2> OfSteps(g, N, S)
    BY <1>5 DEF OfSteps
  <2> PICK h : Taken(h, N, S, b, g)
    BY <1>1, StepByStep
  <2>1. h \in [0 .. N -> S] /\ h[0] = b /\ \A n \in 1 .. N : h[n] = g[n][h[n - 1]]
    BY DEF Taken
  <2>2. \A n \in 1 .. N : h[n - 1] \in S
    BY <2>1, <1>1
  <2>3. \A n \in 1 .. N : h[n] = Add(h[n - 1], n)
    BY <2>1, <2>2 DEF g
  <2>4. h = Rec(h)
    BY <2>1, <2>3, <1>1
  <2> QED BY <2>4
<1>7. enc = Rec(enc)
  BY <1>6
<1> HIDE DEF enc
<1>8. enc[0] = b
  BY <1>7, <1>1
<1>9. \A n \in 1 .. N : enc[n] = Add(enc[n - 1], n)
  BY <1>7, <1>1
<1> DEFINE D == {n \in 0 .. N : enc[n] \in S}
<1>10. ASSUME NEW n \in 0 .. N, n \in D, n < N PROVE n + 1 \in D
  <2>1. n + 1 \in 1 .. N /\ n + 1 \in 0 .. N /\ (n + 1) - 1 = n
    BY <1>10, <1>1
  <2>2. enc[n + 1] \in S
    BY <2>1, <1>4, <1>9, <1>10
  <2> QED BY <2>1, <2>2
<1>11. 0 \in D
  BY <1>8, <1>1
<1> HIDE DEF D
<1>12. 0 .. N \subseteq D
  BY <1>1, <1>10, <1>11, UpTo
<1>13. k \in 0 .. N /\ N \in Nat
  BY <1>1 DEF N
<1>14. enc[k] \in S /\ (k = 0 => enc[k] = b)
  BY <1>8, <1>12, <1>13 DEF D
<1>15. k > 0 => enc[k] = Add(enc[k - 1], k) /\ EncodedTo(f, text, k - 1) = enc[k - 1]
  <2> HAVE k > 0
  <2>1. k \in 1 .. N /\ k - 1 \in 0 .. N
    BY <1>13
  <2> QED BY <2>1, <1>3, <1>9
<1>16. EncodedTo(f, text, k) = enc[k]
  BY <1>3, <1>13
<1> QED BY <1>14, <1>15, <1>16 DEF EncodedSoFar, b, S, Add

\* A sequence of bytes at the head of another.
Heads(a, bs) ==
    /\ bs \in Seq(Byte) /\ Len(bs) >= Len(a)
    /\ \A i \in 1 .. Len(a) : bs[i] = a[i]

\* What heads a sequence heads every longer one.
LEMMA HeadsAppend ==
  ASSUME NEW a \in Seq(Byte), NEW bs, Heads(a, bs), NEW c \in Seq(Byte)
  PROVE  Heads(a, bs \o c)
<1> HIDE DEF Byte
<1>1. bs \in Seq(Byte) /\ Len(a) \in Nat /\ Len(bs) \in Nat /\ Len(c) \in Nat /\ Len(bs) >= Len(a)
  BY DEF Heads
<1>2. /\ bs \o c \in Seq(Byte) /\ Len(bs \o c) = Len(bs) + Len(c)
      /\ \A i \in 1 .. Len(bs) + Len(c) : (bs \o c)[i] = IF i <= Len(bs) THEN bs[i] ELSE c[i - Len(bs)]
  BY <1>1, ConcatProperties
<1>3. ASSUME NEW i \in 1 .. Len(a) PROVE (bs \o c)[i] = a[i]
  <2>1. i \in 1 .. Len(bs) + Len(c) /\ i <= Len(bs)
    BY <1>1
  <2>2. bs[i] = a[i]
    BY DEF Heads
  <2> QED BY <2>1, <2>2, <1>2
<1> QED BY <1>1, <1>2, <1>3 DEF Heads

\* A text that is not empty begins with its first code point ...
LEMMA EncodedBegins ==
  ASSUME NEW f \in Formats, NEW text \in Seq(DOMAIN Standard), NEW k \in 1 .. Len(text)
  PROVE  Heads(Encoded(f, text[1]), EncodedTo(f, text, k))
<1> DEFINE N == Len(text)
           e == Encoded(f, text[1])
           D == {n \in 0 .. N : n > 0 => Heads(e, EncodedTo(f, text, n))}
<1>1. N \in Nat /\ \A i \in 1 .. N : text[i] \in DOMAIN Standard
  OBVIOUS
<1>2. \A i \in 1 .. N : Encoded(f, text[i]) \in Seq(Byte)
  BY <1>1, EncodedPoint
<1>3. \A n \in 0 .. N : EncodedSoFar(f, text, n)
  BY EncodedSteps
<1> HIDE DEF N, Byte
<1>4. 0 \in D
  BY <1>1
<1>5. ASSUME NEW n \in 0 .. N, n \in D, n < N PROVE n + 1 \in D
  <2>1. n + 1 \in 1 .. N /\ n + 1 \in 0 .. N /\ (n + 1) - 1 = n /\ n + 1 > 0
    BY <1>5, <1>1
  <2>2. EncodedTo(f, text, n + 1) = EncodedTo(f, text, n) \o Encoded(f, text[n + 1])
    BY <2>1, <1>3 DEF EncodedSoFar
  <2>3. Encoded(f, text[n + 1]) \in Seq(Byte)
    BY <2>1, <1>2
  <2>4. CASE n = 0
    <3>1. EncodedTo(f, text, 0) = <<>>
      BY <1>3, <1>1 DEF EncodedSoFar
    <3>2. 1 \in 1 .. N
      BY <2>4, <2>1
    <3>3. e \in Seq(Byte)
      BY <3>2, <1>2
    <3>4. EncodedTo(f, text, n + 1) = e
      BY <2>2, <2>4, <3>1, <3>3, ConcatEmptySeq
    <3>5. Heads(e, e)
      BY <3>3 DEF Heads
    <3> QED BY <2>1, <3>4, <3>5
  <2>5. CASE n > 0
    <3>1. Heads(e, EncodedTo(f, text, n))
      BY <1>5, <2>5
    <3>2. 1 \in 1 .. N
      BY <1>5, <1>1, <2>5
    <3>3. e \in Seq(Byte)
      BY <1>2, <3>2
    <3> HIDE DEF e
    <3>4. Heads(e, EncodedTo(f, text, n + 1))
      BY <3>1, <3>3, <2>2, <2>3, HeadsAppend
    <3> QED BY <3>4, <2>1
  <2> QED BY <2>4, <2>5, <1>1
<1>6. 0 .. N \subseteq D
  <2> HIDE DEF D
  <2> QED BY <1>1, <1>4, <1>5, UpTo
<1>7. k \in 0 .. N /\ k > 0
  BY <1>1 DEF N
<1> QED BY <1>6, <1>7

\* ... and in UTF-16 is whole units.
LEMMA EncodedEven ==
  ASSUME NEW f \in TwoForms, NEW text \in Seq(DOMAIN Standard), NEW k \in 0 .. Len(text)
  PROVE  Len(EncodedTo(f, text, k)) % 2 = 0
<1> DEFINE N == Len(text)
           L(n) == Len(EncodedTo(f, text, n))
           D == {n \in 0 .. N : L(n) % 2 = 0}
<1>0. f \in Formats
  BY DEF TwoForms, Formats
<1>1. N \in Nat /\ \A i \in 1 .. N : text[i] \in DOMAIN Standard
  OBVIOUS
<1>2. ASSUME NEW i \in 1 .. N
      PROVE  Encoded(f, text[i]) \in Seq(Byte) /\ Len(Encoded(f, text[i])) % 2 = 0
  <2>1. text[i] \in DOMAIN Standard
    BY <1>1
  <2>2. Encoded(f, text[i]) \in Seq(Byte)
    BY <2>1, <1>0, EncodedPoint
  <2>3. EndsIn(f, Encoded(f, text[i]), Standard[text[i]].utf16[Len(Standard[text[i]].utf16)])
    BY <2>1, EncodedUnits
  <2> DEFINE e == Encoded(f, text[i])
  <2>4. Len(e) % 2 = 0
    <3> HIDE DEF e
    <3>1. \A v : EndsIn(f, e, v) => Len(e) % 2 = 0
      BY DEF EndsIn
    <3> QED BY <2>3, <3>1 DEF e
  <2> QED BY <2>2, <2>4
<1>3. \A n \in 0 .. N : EncodedSoFar(f, text, n)
  BY <1>0, EncodedSteps
<1> HIDE DEF N, Byte
<1>4. 0 \in D
  <2>1. EncodedTo(f, text, 0) = <<>>
    BY <1>3, <1>1 DEF EncodedSoFar
  <2> QED BY <2>1, <1>1
<1>5. ASSUME NEW n \in 0 .. N, n \in D, n < N PROVE n + 1 \in D
  <2>1. n + 1 \in 1 .. N /\ n + 1 \in 0 .. N /\ (n + 1) - 1 = n /\ n + 1 > 0
    BY <1>5, <1>1
  <2> DEFINE x == EncodedTo(f, text, n)
             e == Encoded(f, text[n + 1])
  <2>2. EncodedTo(f, text, n + 1) = x \o e
    BY <2>1, <1>3 DEF EncodedSoFar
  <2>3. e \in Seq(Byte) /\ Len(e) % 2 = 0
    BY <2>1, <1>2
  <2>4. x \in Seq(Byte) /\ Len(x) % 2 = 0
    BY <1>3, <1>5 DEF EncodedSoFar
  <2> HIDE DEF x, e
  <2>5. Len(x) \in Nat /\ Len(e) \in Nat /\ Len(x \o e) = Len(x) + Len(e)
    BY <2>3, <2>4, SMTT(30)
  <2>6. Len(x \o e) % 2 = 0
    BY <2>3, <2>4, <2>5, SMTT(30)
  <2> QED BY <2>1, <2>2, <2>6
<1>6. 0 .. N \subseteq D
  <2> HIDE DEF D
  <2> QED BY <1>1, <1>4, <1>5, UpTo
<1>7. k \in 0 .. N
  BY DEF N
<1> QED BY <1>6, <1>7

----------------------------------------------------------------------------
(* The input files                                                         *)

\* The whole text of an input, before anything is cut off.
All(in) == IF in.format = "none" THEN EncodedTo("UTF8", in.text, Len(in.text))
           ELSE Whole(in.format, in.text)

\* A text behind its mark.
LEMMA MarkedText ==
  ASSUME NEW text \in Seq(DOMAIN Standard)
  PROVE  /\ Marked(text) \in Seq(DOMAIN Standard) /\ Len(Marked(text)) = Len(text) + 1
         /\ Marked(text)[1] = Bom
         /\ \A i \in 1 .. Len(text) : Marked(text)[i + 1] = text[i]
<1>1. Bom \in DOMAIN Standard
  BY UtfAssumption
<1> DEFINE S == DOMAIN Standard
<1>2. <<Bom>> \in Seq(S) /\ Len(<<Bom>>) = 1 /\ <<Bom>>[1] = Bom
  BY <1>1
<1> HIDE DEF S
<1> DEFINE m == <<Bom>> \o text
<1>3. /\ m \in Seq(S) /\ Len(m) = 1 + Len(text)
      /\ \A i \in 1 .. 1 + Len(text) : m[i] = IF i <= 1 THEN <<Bom>>[i] ELSE text[i - 1]
  <2>1. text \in Seq(S)
    BY DEF S
  <2> QED BY <1>2, <2>1, ConcatProperties
<1>4. Len(text) \in Nat
  OBVIOUS
<1> HIDE DEF m
<1>5. m[1] = Bom
  BY <1>2, <1>3, <1>4
<1>6. ASSUME NEW i \in 1 .. Len(text) PROVE m[i + 1] = text[i]
  <2>1. i + 1 \in 1 .. 1 + Len(text) /\ ~ (i + 1 <= 1) /\ (i + 1) - 1 = i
    BY <1>4
  <2> QED BY <2>1, <1>3
<1>7. Marked(text) = m
  BY DEF Marked, m
<1> QED BY <1>3, <1>4, <1>5, <1>6, <1>7 DEF S

\* The input file is the head of the text's encoding.
CutFrom(bs, all, cut) ==
    /\ all \in Seq(Byte) /\ bs \in Seq(Byte) /\ Len(bs) \in Nat /\ Len(bs) <= Len(all)
    /\ \A i \in 1 .. Len(bs) : bs[i] = all[i]
    /\ cut = 0 => bs = all

\* Every input file is the head of the encoding of its text.
LEMMA FileIsCut ==
  ASSUME NEW in \in Inputs
  PROVE  CutFrom(FileOf(in), All(in), in.cut)
<1> DEFINE all == All(in)
           n == Len(all) - in.cut
<1>1. IsInput(in.format, in.text, in.cut)
  BY UtfAssumption
<1>2. in.text \in Seq(DOMAIN Standard) /\ in.cut \in Nat /\ in.format \in Formats \union {"none"}
  BY <1>1 DEF IsInput
<1>3. all \in Seq(Byte)
  <2>1. CASE in.format = "none"
    <3>1. "UTF8" \in Formats /\ Len(in.text) \in 0 .. Len(in.text)
      BY <1>2 DEF Formats
    <3>2. EncodedSoFar("UTF8", in.text, Len(in.text))
      BY <1>2, <3>1, EncodedSteps
    <3> QED BY <2>1, <3>2 DEF EncodedSoFar, All
  <2>2. CASE in.format # "none"
    <3>1. in.format \in Formats /\ Marked(in.text) \in Seq(DOMAIN Standard)
      BY <1>2, <2>2, MarkedText
    <3>2. Len(in.text) + 1 \in 0 .. Len(Marked(in.text))
      BY <1>2, MarkedText
    <3>3. EncodedSoFar(in.format, Marked(in.text), Len(in.text) + 1)
      BY <3>1, <3>2, EncodedSteps
    <3> QED BY <2>2, <3>3 DEF EncodedSoFar, All, Whole
  <2> QED BY <2>1, <2>2
<1>4. FileOf(in) = SubSeq(all, 1, n)
  BY DEF FileOf, All
<1> HIDE DEF all, Byte
<1>5. Len(all) \in Nat /\ n \in Int /\ n <= Len(all)
  BY <1>2, <1>3
<1> HIDE DEF n
<1>6. \A i \in 1 .. n : all[i] \in Byte
  BY <1>3, <1>5
<1>7. /\ FileOf(in) \in Seq(Byte)
      /\ Len(FileOf(in)) = IF 1 <= n THEN n - 1 + 1 ELSE 0
      /\ \A i \in 1 .. n - 1 + 1 : FileOf(in)[i] = all[1 + i - 1]
  BY <1>4, <1>5, <1>6, SubSeqProperties
<1>8. Len(FileOf(in)) \in Nat /\ Len(FileOf(in)) <= Len(all)
  BY <1>5, <1>7
<1>9. ASSUME NEW i \in 1 .. Len(FileOf(in)) PROVE FileOf(in)[i] = all[i]
  <2>1. i \in 1 .. n - 1 + 1 /\ 1 + i - 1 = i
    BY <1>5, <1>7
  <2> QED BY <2>1, <1>7
<1>10. in.cut = 0 => FileOf(in) = all
  <2> HAVE in.cut = 0
  <2>1. n = Len(all)
    BY <1>3 DEF n
  <2> QED BY <2>1, <1>3, <1>4, SubSeqFull
<1> QED BY <1>3, <1>7, <1>8, <1>9, <1>10 DEF CutFrom, all

\* The mark, in bytes, is at the head of every file that has one.
MarkOf(f) == CASE f = "UTF16LE" -> <<255, 254>>
               [] f = "UTF16BE" -> <<254, 255>>
               [] f = "UTF8" -> <<239, 187, 191>>

\* The mark as it is written in each format.
LEMMA EncodedMark ==
  ASSUME NEW f \in Formats
  PROVE  Encoded(f, Bom) = MarkOf(f)
<1>1. Standard[Bom].utf8 = <<239, 187, 191>> /\ Standard[Bom].utf16 = <<65279>>
  BY StandardMark
<1>2. 65279 % 256 = 255 /\ 65279 \div 256 = 254
  OBVIOUS
<1>3. Encoded(f, Bom) = IF f = "UTF8" THEN <<239, 187, 191>> ELSE Pair(f, 65279)
  BY <1>1 DEF Encoded
<1> QED BY <1>2, <1>3 DEF Pair, MarkOf, Formats

\* The first bytes of a file with a mark.
LEMMA FileMarked ==
  ASSUME NEW in \in Inputs, in.format # "none", Len(FileOf(in)) > 2
  PROVE  /\ in.format = "UTF8" =>
              FileOf(in)[1] = 239 /\ FileOf(in)[2] = 187 /\ FileOf(in)[3] = 191
         /\ in.format = "UTF16LE" => FileOf(in)[1] = 255 /\ FileOf(in)[2] = 254
         /\ in.format = "UTF16BE" => FileOf(in)[1] = 254 /\ FileOf(in)[2] = 255
         /\ in.format \in Formats
<1> DEFINE all == All(in)
           t == Marked(in.text)
           f == in.format
           bs == FileOf(in)
<1>1. IsInput(in.format, in.text, in.cut)
  BY UtfAssumption
<1>2. in.text \in Seq(DOMAIN Standard) /\ f \in Formats
  BY <1>1 DEF IsInput
<1>3. t \in Seq(DOMAIN Standard) /\ Len(t) = Len(in.text) + 1 /\ t[1] = Bom /\ Len(in.text) \in Nat
  BY <1>2, MarkedText
<1>4. all = EncodedTo(f, t, Len(in.text) + 1)
  BY DEF All, Whole
<1>5. CutFrom(bs, all, in.cut)
  BY FileIsCut
<1> HIDE DEF all, t, bs, f
<1>6. Len(in.text) + 1 \in 1 .. Len(t)
  BY <1>3
<1>7. Heads(Encoded(f, t[1]), all)
  BY <1>2, <1>3, <1>4, <1>6, EncodedBegins
<1>8. Heads(MarkOf(f), all)
  BY <1>2, <1>3, <1>7, EncodedMark
<1>9. Len(bs) > 2 /\ Len(bs) \in Nat /\ \A i \in 1 .. Len(bs) : bs[i] = all[i]
  BY <1>5 DEF CutFrom, bs
<1>10. bs[1] = all[1] /\ bs[2] = all[2] /\ bs[3] = all[3]
  <2>1. 1 \in 1 .. Len(bs) /\ 2 \in 1 .. Len(bs) /\ 3 \in 1 .. Len(bs)
    BY <1>9
  <2> QED BY <2>1, <1>9
<1>11. ASSUME NEW x, NEW y, MarkOf(f) = <<x, y>> PROVE bs[1] = x /\ bs[2] = y
  <2>1. all[1] = x /\ all[2] = y
    BY <1>8, <1>11 DEF Heads
  <2> QED BY <2>1, <1>10
<1>12. CASE f = "UTF8"
  <2>1. MarkOf(f) = <<239, 187, 191>>
    BY <1>12 DEF MarkOf
  <2>2. all[1] = 239 /\ all[2] = 187 /\ all[3] = 191
    BY <1>8, <2>1 DEF Heads
  <2> QED BY <2>2, <1>2, <1>10, <1>12 DEF f, bs
<1>13. CASE f = "UTF16LE"
  BY <1>2, <1>11, <1>13 DEF MarkOf, f, bs
<1>14. CASE f = "UTF16BE"
  BY <1>2, <1>11, <1>14 DEF MarkOf, f, bs
<1> QED BY <1>2, <1>12, <1>13, <1>14 DEF Formats, f

\* check_bom() knows the mark of every input that has one ...
LEMMA MarkKnown ==
  ASSUME NEW in \in Inputs, in.format # "none", file = FileOf(in), Len(file) > 2
  PROVE  Recognized # {}
<1>1. /\ in.format = "UTF8" => file[1] = 239 /\ file[2] = 187 /\ file[3] = 191
      /\ in.format = "UTF16LE" => file[1] = 255 /\ file[2] = 254
      /\ in.format = "UTF16BE" => file[1] = 254 /\ file[2] = 255
      /\ in.format \in Formats
  BY FileMarked
<1>2. CutFrom(file, All(in), in.cut)
  BY FileIsCut
<1> DEFINE b == SubSeq(file, 1, 3)
<1>3. b[1] = file[1] /\ b[2] = file[2] /\ b[3] = file[3]
  BY <1>2 DEF CutFrom
<1>4. Recognized = IF b[1] + 256 * b[2] + 65536 * b[3] = 12565487 THEN {"UTF8"}
                   ELSE {f \in TwoForms : 256 * b[1] + b[2] = Code[f]}
  BY DEF Recognized, Code, TwoForms
<1> HIDE DEF b
<1>5. Code["UTF16LE"] = 65534 /\ Code["UTF16BE"] = 65279
  BY DEF Code
<1>6. CASE in.format = "UTF8"
  <2>1. b[1] + 256 * b[2] + 65536 * b[3] = 12565487
    BY <1>1, <1>3, <1>6
  <2> QED BY <2>1, <1>4
<1>7. CASE in.format = "UTF16LE"
  <2>1. 256 * b[1] + b[2] = Code["UTF16LE"]
    BY <1>1, <1>3, <1>5, <1>7
  <2> QED BY <2>1, <1>4 DEF TwoForms
<1>8. CASE in.format = "UTF16BE"
  <2>1. 256 * b[1] + b[2] = Code["UTF16BE"]
    BY <1>1, <1>3, <1>5, <1>8
  <2> QED BY <2>1, <1>4 DEF TwoForms
<1> QED BY <1>1, <1>6, <1>7, <1>8 DEF Formats

\* ... and takes a mark of UTF-16 for nothing else.
LEMMA MarkTrue ==
  ASSUME NEW in \in Inputs, file = FileOf(in), Len(file) > 2,
         NEW f \in TwoForms, f \in Recognized
  PROVE  in.format = f
<1>1. IsInput(in.format, in.text, in.cut)
  BY UtfAssumption
<1>2. CutFrom(file, All(in), in.cut)
  BY FileIsCut
<1> DEFINE b == SubSeq(file, 1, 3)
<1>3. b[1] = file[1] /\ b[2] = file[2] /\ b[3] = file[3]
  BY <1>2 DEF CutFrom
<1>4. ~ (b[1] + 256 * b[2] + 65536 * b[3] = 12565487) /\ 256 * b[1] + b[2] = Code[f]
  BY DEF Recognized, Code, TwoForms
<1>5. file[1] \in Byte /\ file[2] \in Byte /\ file[3] \in Byte
  BY <1>2 DEF CutFrom
<1> HIDE DEF b
<1>6. /\ f = "UTF16LE" => 256 * file[1] + file[2] = 65534
      /\ f = "UTF16BE" => 256 * file[1] + file[2] = 65279
  BY <1>3, <1>4 DEF Code
<1>7. /\ f = "UTF16LE" => file[1] = 255 /\ file[2] = 254
      /\ f = "UTF16BE" => file[1] = 254 /\ file[2] = 255
  <2> DEFINE x == file[1]
             y == file[2]
  <2>1. x \in 0 .. 255 /\ y \in 0 .. 255
    BY <1>5 DEF Byte
  <2>2. /\ f = "UTF16LE" => 256 * x + y = 65534
        /\ f = "UTF16BE" => 256 * x + y = 65279
    BY <1>6
  <2> HIDE DEF x, y
  <2>3. 256 * x + y = 65534 => x = 255 /\ y = 254
    BY <2>1
  <2>4. 256 * x + y = 65279 => x = 254 /\ y = 255
    BY <2>1
  <2>5. /\ f = "UTF16LE" => x = 255 /\ y = 254
        /\ f = "UTF16BE" => x = 254 /\ y = 255
    BY <2>2, <2>3, <2>4
  <2> QED BY <2>5 DEF x, y
<1>8. CASE in.format = "none"
  <2>1. All(in) = EncodedTo("UTF8", in.text, Len(in.text)) /\ in.text \in Seq(DOMAIN Standard)
    BY <1>1, <1>8 DEF All, IsInput
  <2> DEFINE t == in.text
             e == EncodedTo("UTF8", t, Len(t))
  <2>2. Len(t) \in Nat /\ "UTF8" \in Formats /\ t \in Seq(DOMAIN Standard)
    BY <2>1 DEF Formats
  <2>3. Len(t) # 0
    <3> SUFFICES ASSUME Len(t) = 0 PROVE FALSE
      OBVIOUS
    <3>1. 0 \in 0 .. Len(t)
      BY <2>2
    <3>2. EncodedSoFar("UTF8", t, 0)
      BY <2>2, <3>1, EncodedSteps
    <3>3. All(in) = <<>>
      BY <2>1, <3>2 DEF EncodedSoFar
    <3> QED BY <3>3, <1>2 DEF CutFrom
  <2>4. Len(t) \in 1 .. Len(t) /\ 1 \in 1 .. Len(t)
    BY <2>2, <2>3
  <2>5. Heads(Encoded("UTF8", t[1]), e)
    BY <2>2, <2>4, EncodedBegins
  <2>6. t[1] \in DOMAIN Standard
    BY <2>2, <2>4
  <2>7. Encoded("UTF8", t[1])[1] < 254 /\ Len(Encoded("UTF8", t[1])) \in Nat \ {0}
    BY <2>2, <2>6, EncodedPoint
  <2>8. file[1] = All(in)[1]
    BY <1>2 DEF CutFrom
  <2> DEFINE c == Encoded("UTF8", t[1])
  <2>9. All(in) = e /\ Heads(c, e) /\ Len(c) \in Nat \ {0} /\ c[1] < 254
    BY <2>1, <2>5, <2>7
  <2> HIDE DEF c, e
  <2>10. e[1] = c[1]
    BY <2>9 DEF Heads
  <2>11. file[1] < 254
    BY <2>8, <2>9, <2>10
  <2>12. file[1] = 255 \/ file[1] = 254
    BY <1>7 DEF TwoForms
  <2> QED BY <2>11, <2>12
<1>9. CASE in.format # "none"
  <2>1. /\ in.format = "UTF8" => file[1] = 239 /\ file[2] = 187 /\ file[3] = 191
        /\ in.format = "UTF16LE" => file[1] = 255 /\ file[2] = 254
        /\ in.format = "UTF16BE" => file[1] = 254 /\ file[2] = 255
        /\ in.format \in Formats
    BY <1>9, FileMarked
  <2> QED BY <2>1, <1>7 DEF TwoForms, Formats
<1> QED BY <1>8, <1>9

\* The last unit of a file in UTF-16 that is not truncated.
LastUnit(text) == IF text = <<>> THEN 65279
                  ELSE Standard[text[Len(text)]].utf16[Len(Standard[text[Len(text)]].utf16)]

\* What follows whole units ends as it ends.
LEMMA EndsAppend ==
  ASSUME NEW f, NEW a \in Seq(Byte), Len(a) % 2 = 0, NEW e \in Seq(Byte), NEW v, EndsIn(f, e, v)
  PROVE  EndsIn(f, a \o e, v)
<1> HIDE DEF Byte
<1>1. /\ Len(a) \in Nat /\ Len(e) \in Nat /\ Len(a \o e) = Len(a) + Len(e)
      /\ \A i \in 1 .. Len(a) + Len(e) : (a \o e)[i] = IF i <= Len(a) THEN a[i] ELSE e[i - Len(a)]
  BY ConcatProperties
<1>2. /\ Len(e) >= 2 /\ Len(e) % 2 = 0
      /\ e[Len(e) - 1] = Pair(f, v)[1] /\ e[Len(e)] = Pair(f, v)[2]
  BY DEF EndsIn
<1> DEFINE x == a \o e
           m == Len(a)
           n == Len(e)
           p == Pair(f, v)
<1>3. m \in Nat /\ n \in Nat /\ n >= 2 /\ m % 2 = 0 /\ n % 2 = 0 /\ Len(x) = m + n
  BY <1>1, <1>2
<1>4. \A i \in 1 .. m + n : x[i] = IF i <= m THEN a[i] ELSE e[i - m]
  BY <1>1
<1>5. e[n - 1] = p[1] /\ e[n] = p[2] 
  BY <1>2
<1> HIDE DEF x, m, n, p
<1>6. m + n \in 1 .. m + n /\ m + n - 1 \in 1 .. m + n /\ (m + n) - m = n /\ (m + n - 1) - m = n - 1
      /\ ~ (m + n <= m) /\ ~ (m + n - 1 <= m)
  BY <1>3
<1>7. x[m + n] = e[n]
  BY <1>4, <1>6
<1>8. x[m + n - 1] = e[n - 1]
  BY <1>4, <1>6
<1>9. (m + n) % 2 = 0 /\ m + n >= 2 /\ m + n \in Nat
  BY <1>3
<1>10. Len(x) \in Nat /\ Len(x) >= 2 /\ Len(x) % 2 = 0 /\ x[Len(x) - 1] = p[1] /\ x[Len(x)] = p[2]
  BY <1>3, <1>5, <1>7, <1>8, <1>9
<1>11. IsLast(v)
  BY DEF EndsIn
<1> QED BY <1>10, <1>11 DEF EndsIn, x, p

\* A whole file in UTF-16 ends in the last unit of its text.
LEMMA FileEnds ==
  ASSUME NEW in \in Inputs, in.format \in TwoForms, in.cut = 0
  PROVE  EndsIn(in.format, FileOf(in), LastUnit(in.text))
<1> DEFINE f == in.format
           text == in.text
           t == Marked(text)
           n == Len(text)
<1>1. IsInput(in.format, in.text, in.cut)
  BY UtfAssumption
<1>2. text \in Seq(DOMAIN Standard) /\ n \in Nat /\ f \in TwoForms /\ f \in Formats /\ f # "none"
  BY <1>1 DEF IsInput, TwoForms, Formats
<1>3. /\ t \in Seq(DOMAIN Standard) /\ Len(t) = n + 1 /\ t[1] = Bom
      /\ \A i \in 1 .. n : t[i + 1] = text[i]
  BY <1>2, MarkedText
<1>4. FileOf(in) = EncodedTo(f, t, n + 1)
  <2>1. CutFrom(FileOf(in), All(in), in.cut)
    BY FileIsCut
  <2> QED BY <2>1, <1>2 DEF CutFrom, All, Whole
<1> HIDE DEF t, n, f
<1>5. n + 1 \in 0 .. Len(t) /\ n \in 0 .. Len(t) /\ n + 1 > 0 /\ (n + 1) - 1 = n
  BY <1>2, <1>3
<1>6. EncodedSoFar(f, t, n + 1)
  BY <1>2, <1>3, <1>5, EncodedSteps
<1>7. EncodedSoFar(f, t, n)
  BY <1>2, <1>3, <1>5, EncodedSteps
<1>8. Len(EncodedTo(f, t, n)) % 2 = 0
  BY <1>2, <1>3, <1>5, EncodedEven
<1>9. EncodedTo(f, t, n + 1) = EncodedTo(f, t, n) \o Encoded(f, t[n + 1])
  BY <1>5, <1>6 DEF EncodedSoFar
<1>10. EncodedTo(f, t, n) \in Seq(Byte)
  BY <1>7 DEF EncodedSoFar
<1>11. t[n + 1] \in DOMAIN Standard
  <2>1. n + 1 \in 1 .. Len(t)
    BY <1>5
  <2> QED BY <2>1, <1>3
<1>12. Encoded(f, t[n + 1]) \in Seq(Byte)
  BY <1>2, <1>11, EncodedPoint
<1>13. EndsIn(f, Encoded(f, t[n + 1]), Standard[t[n + 1]].utf16[Len(Standard[t[n + 1]].utf16)])
  BY <1>2, <1>11, EncodedUnits
<1>14. Standard[t[n + 1]].utf16[Len(Standard[t[n + 1]].utf16)] = LastUnit(text)
  <2>1. CASE n = 0
    <3>1. text = <<>> /\ t[n + 1] = Bom
      BY <2>1, <1>2, <1>3 DEF n
    <3>2. Standard[Bom].utf16 = <<65279>>
      BY StandardMark
    <3> QED BY <3>1, <3>2 DEF LastUnit
  <2>2. CASE n # 0
    <3>1. n \in 1 .. n /\ text # <<>>
      BY <2>2, <1>2 DEF n
    <3>2. t[n + 1] = text[n]
      BY <3>1, <1>3
    <3> QED BY <3>1, <3>2 DEF LastUnit, n
  <2> QED BY <2>1, <2>2
<1>15. EndsIn(f, Encoded(f, t[n + 1]), LastUnit(text))
  BY <1>13, <1>14
<1>16. EndsIn(f, EncodedTo(f, t, n + 1), LastUnit(text))
  BY <1>8, <1>9, <1>10, <1>12, <1>15, EndsAppend
<1> QED BY <1>4, <1>16 DEF f

----------------------------------------------------------------------------
(* The command line                                                        *)

\* The words, and what getopt keeps between two of them.
Words == STRING \union Formats \union {"none"}
States == [waits : BOOLEAN, value : Words, wrong : BOOLEAN, over : BOOLEAN, names : Seq(Words)]
Begin == [waits |-> FALSE, value |-> "none", wrong |-> FALSE, over |-> FALSE, names |-> <<>>]

\* The words that are options of the program or end them.
Known(w) == w \in {"-e", "--"} \/ \E f \in Formats : w = Joined[f]

\* What one word does, field by field: an argument, a name, an option.
Same(s, r) == r.names = s.names /\ r.value = s.value /\ r.wrong = s.wrong

Waited(s, w, r) ==
    /\ ~ r.waits /\ r.value = w /\ r.over = s.over /\ r.names = s.names
    /\ r.wrong <=> s.wrong \/ w \notin Formats
Named(s, w, r) ==
    /\ r.names = Append(s.names, w) /\ ~ r.waits /\ r.value = s.value /\ r.over = s.over
    /\ r.wrong = s.wrong
Option(s, w, r) ==
    /\ w = "-e" => Same(s, r) /\ r.waits /\ ~ r.over
    /\ w = "--" => Same(s, r) /\ ~ r.waits /\ r.over
    /\ \A f \in Formats : w = Joined[f] =>
          r.names = s.names /\ r.value = f /\ r.wrong = s.wrong /\ ~ r.waits /\ ~ r.over
    /\ ~ Known(w) => r.wrong
Kept(s, r) == s.wrong => r.wrong
Steps(s, w, r) ==
    /\ r \in States
    /\ Kept(s, r)
    /\ s.waits => Waited(s, w, r)
    /\ ~ s.waits /\ (s.over \/ w \notin Dashed) => Named(s, w, r)
    /\ ~ s.waits /\ ~ s.over /\ w \in Dashed => Option(s, w, r)

\* The formats and the options are different words.
LEMMA WordsDiffer ==
  /\ \A f \in Formats : /\ f \notin Dashed /\ Joined[f] \in Dashed
                        /\ f \notin {"-e", "--", "none"} /\ Joined[f] \notin {"-e", "--"}
                        /\ \A g \in Formats : Joined[f] = Joined[g] => f = g
  /\ "-e" \in Dashed /\ "--" \in Dashed /\ "in" \notin Dashed /\ "out" \notin Dashed
<1>1. /\ {"-e", "--"} \union {Joined[f] : f \in Formats} \subseteq Dashed
      /\ Dashed \intersect (Formats \union {"in", "out", "none"}) = {}
  BY UtfAssumption
<1>2. ASSUME NEW f \in Formats
      PROVE  /\ f \notin {"-e", "--", "none"} /\ Joined[f] \notin {"-e", "--"}
             /\ \A g \in Formats : Joined[f] = Joined[g] => f = g
  BY DEF Formats, Joined
<1> QED BY <1>1, <1>2

\* A word taken, field by field.
LEMMA ScanSteps ==
  ASSUME NEW s \in States, NEW w \in Words
  PROVE  Steps(s, w, Scan(s, w))
<1> DEFINE r == Scan(s, w)
<1> SUFFICES Steps(s, w, r)
  OBVIOUS
<1>0. s.waits \in BOOLEAN /\ s.wrong \in BOOLEAN /\ s.over \in BOOLEAN
  BY DEF States
<1>1. CASE s.waits
  <2>1. r = [s EXCEPT !.waits = FALSE, !.value = w, !.wrong = @ \/ w \notin Formats]
    BY <1>1 DEF Scan
  <2>2. /\ r \in States /\ r.waits = FALSE /\ r.value = w /\ r.over = s.over /\ r.names = s.names
        /\ r.wrong = (s.wrong \/ w \notin Formats)
    BY <2>1 DEF States
  <2> HIDE DEF r
  <2>3. (r.wrong <=> s.wrong \/ w \notin Formats) /\ (s.wrong => r.wrong) /\ ~ r.waits
    BY <2>2
  <2>4. Waited(s, w, r)
    BY <2>2, <2>3 DEF Waited
  <2>5. Kept(s, r)
    BY <2>3 DEF Kept
  <2> QED BY <1>1, <2>2, <2>4, <2>5, Zenon DEF Steps
<1>2. CASE ~ s.waits /\ (s.over \/ w \notin Dashed)
  <2>1. r = [s EXCEPT !.names = Append(@, w)]
    BY <1>2 DEF Scan
  <2>2. Append(s.names, w) \in Seq(Words)
    BY DEF States
  <2>3. /\ r \in States /\ r.names = Append(s.names, w) /\ r.waits = s.waits
        /\ r.value = s.value /\ r.over = s.over /\ r.wrong = s.wrong
    BY <2>1, <2>2 DEF States
  <2> HIDE DEF r
  <2>4. Named(s, w, r)
    BY <1>2, <2>3 DEF Named
  <2>5. Kept(s, r)
    BY <2>3 DEF Kept
  <2> QED BY <1>2, <2>3, <2>4, <2>5, Zenon DEF Steps
<1>3. CASE ~ s.waits /\ ~ s.over /\ w \in Dashed /\ w \in {"-e", "--"}
  <2>1. r = [s EXCEPT !.waits = (w = "-e"), !.over = (w = "--")]
    BY <1>3 DEF Scan
  <2>2. /\ r \in States /\ r.names = s.names /\ r.waits = (w = "-e")
        /\ r.value = s.value /\ r.over = (w = "--") /\ r.wrong = s.wrong
    BY <2>1 DEF States
  <2> HIDE DEF r
  <2>3. w = "-e" => Same(s, r) /\ r.waits /\ ~ r.over
    BY <2>2 DEF Same
  <2>4. w = "--" => Same(s, r) /\ ~ r.waits /\ r.over
    BY <2>2 DEF Same
  <2>5. Known(w) /\ \A f \in Formats : w # Joined[f]
    BY <1>3, WordsDiffer DEF Known
  <2>6. Option(s, w, r)
    BY <2>3, <2>4, <2>5 DEF Option
  <2>7. Kept(s, r)
    BY <2>2 DEF Kept
  <2> QED BY <1>3, <2>2, <2>6, <2>7, Zenon DEF Steps
<1>4. ASSUME NEW f \in Formats, w = Joined[f], ~ s.waits, ~ s.over
      PROVE  Steps(s, w, r)
  <2>1. w \in Dashed /\ w \notin {"-e", "--"} /\ \A g \in Formats : w = Joined[g] => g = f
    BY <1>4, WordsDiffer
  <2>2. (CHOOSE g \in Formats : w = Joined[g]) = f
    BY <1>4, <2>1
  <2>3. r = [s EXCEPT !.value = f]
    BY <1>4, <2>1, <2>2 DEF Scan
  <2>4. f \in Words
    BY DEF Words
  <2>5. /\ r \in States /\ r.names = s.names /\ r.waits = s.waits
        /\ r.value = f /\ r.over = s.over /\ r.wrong = s.wrong
    BY <2>3, <2>4 DEF States
  <2> HIDE DEF r
  <2>6. Known(w)
    BY <1>4 DEF Known
  <2>7. ~ r.waits /\ ~ r.over
    BY <1>4, <2>5
  <2>8. Option(s, w, r)
    BY <1>4, <2>1, <2>5, <2>6, <2>7 DEF Option
  <2>9. Kept(s, r)
    BY <2>5 DEF Kept
  <2> QED BY <1>4, <2>1, <2>5, <2>8, <2>9, Zenon DEF Steps
<1>5. CASE ~ s.waits /\ ~ s.over /\ w \in Dashed /\ ~ Known(w)
  <2>1. r = [s EXCEPT !.wrong = TRUE]
    BY <1>5 DEF Scan, Known
  <2>2. r \in States /\ r.wrong = TRUE
    BY <2>1 DEF States
  <2> HIDE DEF r
  <2>3. w \notin {"-e", "--"} /\ \A f \in Formats : w # Joined[f]
    BY <1>5 DEF Known
  <2>4. Option(s, w, r)
    BY <2>2, <2>3 DEF Option
  <2>5. Kept(s, r)
    BY <2>2 DEF Kept
  <2> QED BY <1>5, <2>2, <2>4, <2>5, Zenon DEF Steps
<1> HIDE DEF r
<1>6. CASE ~ s.waits /\ ~ s.over /\ w \in Dashed /\ Known(w)
  <2>1. w \in {"-e", "--"} \/ \E f \in Formats : w = Joined[f]
    BY <1>6, Zenon DEF Known
  <2>2. CASE w \in {"-e", "--"}
    BY <1>3, <1>6, <2>2, Zenon
  <2>3. CASE \E f \in Formats : w = Joined[f]
    BY <1>4, <1>6, <2>3, Zenon
  <2> QED BY <2>1, <2>2, <2>3, Zenon
<1> QED BY <1>1, <1>2, <1>5, <1>6, Zenon

\* What the first n words of a line say: whether they are well formed so far,
FitAt(ws, i) ==
    /\ ws[i] \in Dashed /\ ~ Behind(ws, i) => Known(ws[i])
    /\ i > 1 /\ ws[i - 1] = "-e" /\ ~ Behind(ws, i - 1) => ws[i] \in Formats
Fit(ws, n) == \A i \in 1 .. n : FitAt(ws, i)

\* which names are the first two,
NamePair(ws, i, j) ==
    IsName(ws, i) /\ IsName(ws, j) /\ \A l \in 1 .. j : IsName(ws, l) => l \in {i, j}
FirstNames(ws, n, ns) ==
    /\ ns \in Seq(Words)
    /\ Len(ns) = 0 => \A l \in 1 .. n : ~ IsName(ws, l)
    /\ Len(ns) = 1 => \E i \in 1 .. n : /\ IsName(ws, i) /\ ns[1] = ws[i]
                                        /\ \A l \in 1 .. n : IsName(ws, l) => l = i
    /\ Len(ns) > 1 => \E i \in 1 .. n : \E j \in i + 1 .. n :
                        NamePair(ws, i, j) /\ ns[1] = ws[i] /\ ns[2] = ws[j]

\* which format is the last.
NoFormat(ws, i) == \A f \in Formats : ~ AsksFor(ws, i, f)
LastFormat(ws, n, v) ==
    \/ v = "none" /\ \A i \in 1 .. n : NoFormat(ws, i)
    \/ v \in Formats /\ \E i \in 1 .. n : AsksFor(ws, i, v) /\ \A j \in i + 1 .. n : NoFormat(ws, j)

\* What getopt keeps after n words.
WaitsAt(ws, n) == n > 0 /\ ws[n] = "-e" /\ ~ Behind(ws, n)
Scanned(ws, n, s) ==
    /\ s \in States
    /\ s.wrong <=> ~ Fit(ws, n)
    /\ ~ s.wrong => /\ s.over <=> Behind(ws, n + 1)
                    /\ s.waits <=> WaitsAt(ws, n)
                    /\ FirstNames(ws, n, s.names)
                    /\ LastFormat(ws, n, s.value)

\* What the next word is depends on that only.
LEMMA WordSeen ==
  ASSUME NEW ws, NEW n \in Nat, NEW over \in BOOLEAN, NEW waits \in BOOLEAN,
         over <=> Behind(ws, n + 1), waits <=> WaitsAt(ws, n)
  PROVE  /\ waits => ~ over
         /\ Behind(ws, (n + 1) + 1) <=> over \/ ws[n + 1] = "--"
         /\ WaitsAt(ws, n + 1) <=> ~ over /\ ws[n + 1] = "-e"
         /\ IsName(ws, n + 1) <=> over \/ (ws[n + 1] \notin Dashed /\ ~ waits)
         /\ \A f : AsksFor(ws, n + 1, f) <=> ~ over /\ (ws[n + 1] = Joined[f] \/ (waits /\ ws[n + 1] = f))
         /\ FitAt(ws, n + 1) <=> /\ ws[n + 1] \in Dashed /\ ~ over => Known(ws[n + 1])
                                 /\ waits => ws[n + 1] \in Formats
<1>1. (n + 1) - 1 = n /\ ((n + 1) + 1) - 1 = n + 1 /\ (n + 1 > 1 <=> n > 0) /\ (n + 1 = 1 <=> ~ (n > 0)) /\ n + 1 > 0
  OBVIOUS
<1>2. \A k \in Nat : 1 .. (k + 1) = (1 .. k) \union {k + 1}
  OBVIOUS
<1>3. \A k \in Nat : Behind(ws, (k + 1) + 1) <=> Behind(ws, k + 1) \/ ws[k + 1] = "--"
  <2> TAKE k \in Nat
  <2>1. ((k + 1) + 1) - 1 = k + 1 /\ (k + 1) - 1 = k
    OBVIOUS
  <2>2. 1 .. (k + 1) = (1 .. k) \union {k + 1}
    BY <1>2
  <2>3. Behind(ws, (k + 1) + 1) <=> \E j \in 1 .. (k + 1) : ws[j] = "--"
    BY <2>1 DEF Behind
  <2>4. Behind(ws, k + 1) <=> \E j \in 1 .. k : ws[j] = "--"
    BY <2>1 DEF Behind
  <2> QED BY <2>2, <2>3, <2>4
<1>4. n > 0 => (Behind(ws, n + 1) <=> Behind(ws, n) \/ ws[n] = "--")
  <2> HAVE n > 0
  <2>1. n - 1 \in Nat /\ (n - 1) + 1 = n
    OBVIOUS
  <2> QED BY <2>1, <1>3
<1>5. waits => ~ over
  BY <1>4 DEF WaitsAt
<1>6. ~ over => (n > 0 /\ ws[n] = "-e" <=> waits)
  BY <1>4 DEF WaitsAt
<1>7. Behind(ws, (n + 1) + 1) <=> over \/ ws[n + 1] = "--"
  BY <1>3
<1>8. WaitsAt(ws, n + 1) <=> ~ over /\ ws[n + 1] = "-e"
  BY <1>1 DEF WaitsAt
<1>9. IsName(ws, n + 1) <=> over \/ (ws[n + 1] \notin Dashed /\ ~ waits)
  BY <1>1, <1>6 DEF IsName
<1>10. \A f : AsksFor(ws, n + 1, f) <=> ~ over /\ (ws[n + 1] = Joined[f] \/ (waits /\ ws[n + 1] = f))
  BY <1>1, <1>6 DEF AsksFor
<1>11. FitAt(ws, n + 1) <=> /\ ws[n + 1] \in Dashed /\ ~ over => Known(ws[n + 1])
                            /\ waits => ws[n + 1] \in Formats
  BY <1>1 DEF FitAt, WaitsAt
<1> QED BY <1>5, <1>7, <1>8, <1>9, <1>10, <1>11

\* The first names after one more word,
LEMMA NamesGrow ==
  ASSUME NEW ws, NEW n \in Nat, NEW ns, FirstNames(ws, n, ns), ws[n + 1] \in Words
  PROVE  /\ ~ IsName(ws, n + 1) => FirstNames(ws, n + 1, ns)
         /\ IsName(ws, n + 1) => FirstNames(ws, n + 1, Append(ns, ws[n + 1]))
<1> DEFINE r == Append(ns, ws[n + 1])
           k == Len(ns)
<1>0. ns \in Seq(Words)
  BY DEF FirstNames
<1>1. /\ r \in Seq(Words) /\ Len(r) = k + 1 /\ r[k + 1] = ws[n + 1]
      /\ \A i \in 1 .. k : r[i] = ns[i]
  BY <1>0, AppendProperties
<1>2. k \in Nat
  BY <1>0
<1>3. 1 .. (n + 1) = (1 .. n) \union {n + 1} /\ n + 1 \in 1 .. n + 1
  OBVIOUS
<1>4. /\ k = 0 => \A l \in 1 .. n : ~ IsName(ws, l)
      /\ k = 1 => \E i \in 1 .. n : /\ IsName(ws, i) /\ ns[1] = ws[i]
                                    /\ \A l \in 1 .. n : IsName(ws, l) => l = i
      /\ k > 1 => \E i \in 1 .. n : \E j \in i + 1 .. n :
                    NamePair(ws, i, j) /\ ns[1] = ws[i] /\ ns[2] = ws[j]
  BY DEF FirstNames
<1> HIDE DEF r, k
<1>5. \A i \in 1 .. n : \A j \in i + 1 .. n : i \in 1 .. n + 1 /\ j \in i + 1 .. n + 1
  OBVIOUS
<1>6. ASSUME ~ IsName(ws, n + 1) PROVE FirstNames(ws, n + 1, ns)
  <2>1. k = 0 => \A l \in 1 .. n + 1 : ~ IsName(ws, l)
    BY <1>3, <1>4, <1>6
  <2>2. k = 1 => \E i \in 1 .. n + 1 : /\ IsName(ws, i) /\ ns[1] = ws[i]
                                       /\ \A l \in 1 .. n + 1 : IsName(ws, l) => l = i
    BY <1>3, <1>4, <1>6
  <2>3. k > 1 => \E i \in 1 .. n + 1 : \E j \in i + 1 .. n + 1 :
                    NamePair(ws, i, j) /\ ns[1] = ws[i] /\ ns[2] = ws[j]
    BY <1>4, <1>5
  <2> QED BY <1>0, <2>1, <2>2, <2>3 DEF FirstNames, k
<1>7. ASSUME IsName(ws, n + 1) PROVE FirstNames(ws, n + 1, r)
  <2>1. CASE k = 0
    <3>1. Len(r) = 1 /\ r[1] = ws[n + 1]
      BY <1>1, <2>1
    <3>2. \A l \in 1 .. n + 1 : IsName(ws, l) => l = n + 1
      BY <1>3, <1>4, <2>1
    <3>3. \E i \in 1 .. n + 1 : /\ IsName(ws, i) /\ r[1] = ws[i]
                                /\ \A l \in 1 .. n + 1 : IsName(ws, l) => l = i
      BY <1>3, <1>7, <3>1, <3>2
    <3>4. Len(r) # 0 /\ ~ (Len(r) > 1)
      BY <3>1
    <3> QED BY <1>1, <3>1, <3>3, <3>4 DEF FirstNames
  <2>2. CASE k = 1
    <3>1. PICK i \in 1 .. n : /\ IsName(ws, i) /\ ns[1] = ws[i]
                              /\ \A l \in 1 .. n : IsName(ws, l) => l = i
      BY <1>4, <2>2
    <3>2. Len(r) = 2 /\ r[2] = ws[n + 1] /\ r[1] = ws[i]
      <4>1. 1 \in 1 .. k /\ k + 1 = 2
        BY <2>2
      <4> QED BY <4>1, <1>1, <3>1
    <3>3. i \in 1 .. n + 1 /\ n + 1 \in i + 1 .. n + 1
      OBVIOUS
    <3>4. NamePair(ws, i, n + 1)
      BY <1>3, <1>7, <3>1 DEF NamePair
    <3>5. Len(r) # 0 /\ Len(r) # 1
      BY <3>2
    <3> QED BY <1>1, <3>2, <3>3, <3>4, <3>5 DEF FirstNames
  <2>3. CASE k > 1
    <3>1. PICK i \in 1 .. n : \E j \in i + 1 .. n :
                    NamePair(ws, i, j) /\ ns[1] = ws[i] /\ ns[2] = ws[j]
      BY <1>4, <2>3
    <3>2. PICK j \in i + 1 .. n : NamePair(ws, i, j) /\ ns[1] = ws[i] /\ ns[2] = ws[j]
      BY <3>1
    <3>3. 1 \in 1 .. k /\ 2 \in 1 .. k /\ Len(r) # 0 /\ Len(r) # 1
      BY <1>1, <1>2, <2>3
    <3>4. r[1] = ws[i] /\ r[2] = ws[j]
      BY <1>1, <3>2, <3>3
    <3>5. i \in 1 .. n + 1 /\ j \in i + 1 .. n + 1
      BY <1>5
    <3> QED BY <1>1, <3>2, <3>3, <3>4, <3>5 DEF FirstNames
  <2> QED BY <1>2, <2>1, <2>2, <2>3
<1> QED BY <1>6, <1>7 DEF r

\* and the last format.
LEMMA FormatKept ==
  ASSUME NEW ws, NEW n \in Nat, NEW v, LastFormat(ws, n, v), NoFormat(ws, n + 1)
  PROVE  LastFormat(ws, n + 1, v)
<1>1. 1 .. (n + 1) = (1 .. n) \union {n + 1}
      /\ \A i \in 1 .. n : (i + 1) .. (n + 1) = ((i + 1) .. n) \union {n + 1}
  OBVIOUS
<1> QED BY <1>1 DEF LastFormat

LEMMA FormatSet ==
  ASSUME NEW ws, NEW n \in Nat, NEW v \in Formats, AsksFor(ws, n + 1, v)
  PROVE  LastFormat(ws, n + 1, v)
<1>1. n + 1 \in 1 .. n + 1 /\ ((n + 1) + 1) .. (n + 1) = {}
  OBVIOUS
<1> QED BY <1>1 DEF LastFormat

\* One more word.
LEMMA FitGrows ==
  ASSUME NEW ws, NEW n \in Nat
  PROVE  Fit(ws, n + 1) <=> Fit(ws, n) /\ FitAt(ws, n + 1)
<1>1. 1 .. (n + 1) = (1 .. n) \union {n + 1}
  OBVIOUS
<1> QED BY <1>1 DEF Fit

\* What is known of a scan that is right so far, and of the one after a word.
RightSoFar(ws, n, s) ==
    /\ s \in States /\ ~ s.wrong
    /\ s.over <=> Behind(ws, n + 1)
    /\ s.waits <=> WaitsAt(ws, n)
    /\ FirstNames(ws, n, s.names)
    /\ LastFormat(ws, n, s.value)

LEMMA WordScanned ==
  ASSUME NEW ws, NEW n \in Nat, NEW s, RightSoFar(ws, n, s), ws[n + 1] \in Words
  PROVE  /\ Scan(s, ws[n + 1]).wrong <=> ~ FitAt(ws, n + 1)
         /\ FitAt(ws, n + 1) => RightSoFar(ws, n + 1, Scan(s, ws[n + 1]))
<1> DEFINE w == ws[n + 1]
           r == Scan(s, w)
           Good == /\ ~ r.wrong
                   /\ FitAt(ws, n + 1)
                   /\ r.over <=> Behind(ws, (n + 1) + 1)
                   /\ r.waits <=> WaitsAt(ws, n + 1)
                   /\ FirstNames(ws, n + 1, r.names)
                   /\ LastFormat(ws, n + 1, r.value)
<1>1. s \in States /\ ~ s.wrong /\ s.over \in BOOLEAN /\ s.waits \in BOOLEAN
  BY DEF RightSoFar, States
<1>2. Steps(s, w, r) /\ r \in States
  BY <1>1, ScanSteps DEF Steps
<1>3. /\ s.over <=> Behind(ws, n + 1)
      /\ s.waits <=> WaitsAt(ws, n)
      /\ FirstNames(ws, n, s.names)
      /\ LastFormat(ws, n, s.value)
  BY DEF RightSoFar
<1>4. /\ s.waits => ~ s.over
      /\ Behind(ws, (n + 1) + 1) <=> s.over \/ w = "--"
      /\ WaitsAt(ws, n + 1) <=> ~ s.over /\ w = "-e"
      /\ IsName(ws, n + 1) <=> s.over \/ (w \notin Dashed /\ ~ s.waits)
      /\ \A f : AsksFor(ws, n + 1, f) <=> ~ s.over /\ (w = Joined[f] \/ (s.waits /\ w = f))
      /\ FitAt(ws, n + 1) <=> /\ w \in Dashed /\ ~ s.over => Known(w)
                              /\ s.waits => w \in Formats
  BY <1>1, <1>3, WordSeen
<1>5. /\ ~ IsName(ws, n + 1) => FirstNames(ws, n + 1, s.names)
      /\ IsName(ws, n + 1) => FirstNames(ws, n + 1, Append(s.names, w))
  BY <1>3, NamesGrow
<1>6. /\ NoFormat(ws, n + 1) => LastFormat(ws, n + 1, s.value)
      /\ \A f \in Formats : AsksFor(ws, n + 1, f) => LastFormat(ws, n + 1, f)
  BY <1>3, FormatKept, FormatSet
<1>7. SUFFICES (r.wrong /\ ~ FitAt(ws, n + 1)) \/ Good
  BY <1>2 DEF RightSoFar
<1> HIDE DEF r, w
<1>8. CASE s.waits
  <2>1. ~ r.waits /\ r.value = w /\ r.over = s.over /\ r.names = s.names
        /\ (r.wrong <=> w \notin Formats) /\ ~ s.over
    BY <1>1, <1>2, <1>4, <1>8 DEF Steps, Waited
  <2>2. CASE w \notin Formats
    BY <1>4, <1>8, <2>1, <2>2
  <2>3. CASE w \in Formats
    <3>1. w \notin Dashed /\ w \notin {"-e", "--"}
      BY <2>3, WordsDiffer
    <3>2. FitAt(ws, n + 1) /\ ~ IsName(ws, n + 1) /\ AsksFor(ws, n + 1, w)
      BY <1>4, <1>8, <2>1, <2>3, <3>1
    <3>3. r.over <=> Behind(ws, (n + 1) + 1)
      BY <1>4, <2>1, <3>1
    <3>4. r.waits <=> WaitsAt(ws, n + 1)
      BY <1>4, <2>1, <3>1
    <3>5. FirstNames(ws, n + 1, r.names) /\ LastFormat(ws, n + 1, r.value)
      BY <1>5, <1>6, <2>1, <2>3, <3>2
    <3>6. ~ r.wrong
      BY <2>1, <2>3
    <3> QED BY <3>2, <3>3, <3>4, <3>5, <3>6
  <2> QED BY <2>2, <2>3
<1>9. CASE ~ s.waits /\ (s.over \/ w \notin Dashed)
  <2>1. r.names = Append(s.names, w) /\ ~ r.waits /\ r.value = s.value /\ r.over = s.over
        /\ ~ r.wrong
    BY <1>1, <1>2, <1>9 DEF Steps, Named
  <2>2. ~ s.over => w \notin {"-e", "--"} /\ \A f \in Formats : w # Joined[f]
    BY <1>9, WordsDiffer
  <2>3. FitAt(ws, n + 1) /\ IsName(ws, n + 1) /\ NoFormat(ws, n + 1)
    BY <1>4, <1>9, <2>2 DEF NoFormat
  <2>4. r.over <=> Behind(ws, (n + 1) + 1)
    BY <1>4, <2>1, <2>2
  <2>5. r.waits <=> WaitsAt(ws, n + 1)
    BY <1>4, <2>1, <2>2
  <2>6. FirstNames(ws, n + 1, r.names) /\ LastFormat(ws, n + 1, r.value)
    BY <1>5, <1>6, <2>1, <2>3
  <2> QED BY <2>1, <2>3, <2>4, <2>5, <2>6
<1>10. CASE ~ s.waits /\ ~ s.over /\ w \in Dashed
  <2>1. Option(s, w, r) /\ ~ IsName(ws, n + 1)
    BY <1>2, <1>4, <1>10 DEF Steps
  <2>2. FitAt(ws, n + 1) <=> Known(w)
    BY <1>4, <1>10
  <2>3. CASE w = "-e" \/ w = "--"
    <3>1. Known(w) /\ \A f \in Formats : w # Joined[f]
      BY <2>3, WordsDiffer DEF Known
    <3>2. FitAt(ws, n + 1) /\ NoFormat(ws, n + 1)
      BY <1>4, <1>10, <2>2, <3>1 DEF NoFormat
    <3>3. Same(s, r) /\ (r.waits <=> w = "-e") /\ (r.over <=> w = "--")
      BY <2>1, <2>3 DEF Option
    <3>4. r.names = s.names /\ r.value = s.value /\ ~ r.wrong
      BY <1>1, <3>3 DEF Same
    <3>5. FirstNames(ws, n + 1, r.names) /\ LastFormat(ws, n + 1, r.value)
      BY <1>5, <1>6, <2>1, <3>2, <3>4
    <3>6. (r.over <=> Behind(ws, (n + 1) + 1)) /\ (r.waits <=> WaitsAt(ws, n + 1))
      BY <1>4, <1>10, <3>3
    <3> QED BY <3>2, <3>4, <3>5, <3>6
  <2>4. ASSUME NEW f \in Formats, w = Joined[f] PROVE Good
    <3>1. Known(w) /\ w \notin {"-e", "--"}
      BY <2>4, WordsDiffer DEF Known
    <3>2. r.names = s.names /\ r.value = f /\ ~ r.wrong /\ ~ r.waits /\ ~ r.over
      BY <1>1, <2>1, <2>4 DEF Option
    <3>3. FitAt(ws, n + 1) /\ AsksFor(ws, n + 1, f)
      BY <1>4, <1>10, <2>2, <2>4, <3>1
    <3>4. FirstNames(ws, n + 1, r.names) /\ LastFormat(ws, n + 1, r.value)
      BY <1>5, <1>6, <2>1, <3>2, <3>3
    <3>5. (r.over <=> Behind(ws, (n + 1) + 1)) /\ (r.waits <=> WaitsAt(ws, n + 1))
      BY <1>4, <1>10, <3>1, <3>2
    <3> QED BY <3>2, <3>3, <3>4, <3>5
  <2>5. CASE ~ Known(w)
    BY <2>1, <2>2, <2>5 DEF Option
  <2> QED BY <2>3, <2>4, <2>5 DEF Known
<1> QED BY <1>1, <1>8, <1>9, <1>10

LEMMA ScannedNext ==
  ASSUME NEW ws, NEW n \in Nat, NEW s, Scanned(ws, n, s), ws[n + 1] \in Words
  PROVE  Scanned(ws, n + 1, Scan(s, ws[n + 1]))
<1> DEFINE w == ws[n + 1]
           r == Scan(s, w)
<1>1. s \in States /\ (s.wrong <=> ~ Fit(ws, n))
  BY DEF Scanned
<1>2. Steps(s, w, r)
  BY <1>1, ScanSteps
<1>3. r \in States /\ (s.wrong => r.wrong)
  BY <1>2 DEF Steps, Kept
<1>4. Fit(ws, n + 1) <=> Fit(ws, n) /\ FitAt(ws, n + 1)
  BY FitGrows
<1>5. CASE s.wrong
  <2> SUFFICES Scanned(ws, n + 1, r)
    OBVIOUS
  <2> HIDE DEF r
  <2> QED BY <1>1, <1>3, <1>4, <1>5 DEF Scanned
<1>6. CASE ~ s.wrong
  <2>1. RightSoFar(ws, n, s)
    BY <1>6 DEF Scanned, RightSoFar
  <2>2. (r.wrong <=> ~ FitAt(ws, n + 1)) /\ (FitAt(ws, n + 1) => RightSoFar(ws, n + 1, r))
    BY <2>1, WordScanned
  <2> SUFFICES Scanned(ws, n + 1, r)
    OBVIOUS
  <2> HIDE DEF r
  <2> QED BY <1>1, <1>3, <1>4, <1>6, <2>2 DEF Scanned, RightSoFar
<1> QED BY <1>5, <1>6

\* Before the first word.
LEMMA ScannedNone ==
  ASSUME NEW ws
  PROVE  Begin \in States /\ Scanned(ws, 0, Begin)
<1>1. <<>> \in Seq(Words) /\ Len(<<>>) = 0 /\ "none" \in Words
  BY EmptySeq DEF Words
<1>2. /\ Begin \in States /\ Begin.wrong = FALSE /\ Begin.over = FALSE /\ Begin.waits = FALSE
      /\ Begin.names = <<>> /\ Begin.value = "none"
  BY <1>1 DEF Begin, States
<1>3. 1 .. 0 = {} /\ (0 + 1) - 1 = 0
  OBVIOUS
<1>4. Fit(ws, 0) /\ ~ Behind(ws, 0 + 1) /\ ~ WaitsAt(ws, 0)
  BY <1>3 DEF Fit, Behind, WaitsAt
<1>5. FirstNames(ws, 0, <<>>)
  BY <1>1, <1>3 DEF FirstNames
<1>6. LastFormat(ws, 0, "none")
  BY <1>3 DEF LastFormat
<1> QED BY <1>2, <1>4, <1>5, <1>6 DEF Scanned

\* The scan of a whole line.
LEMMA GetoptScanned ==
  ASSUME NEW ws \in Seq(STRING)
  PROVE  Scanned(ws, Len(ws), Getopt(ws))
<1> DEFINE N == Len(ws)
           S == States
           b == Begin
           Rec(h) == [i \in 0 .. N |-> IF i = 0 THEN b ELSE Scan(h[i - 1], ws[i])]
           g == [i \in 1 .. N |-> [s \in S |-> Scan(s, ws[i])]]
           scan == CHOOSE h : h = Rec(h)
           D == {n \in 0 .. N : Scanned(ws, n, scan[n])}
<1>1. \A i \in 1 .. N : ws[i] \in Words
  BY ElementOfSeq DEF Words
<1>2. Getopt(ws) = scan[N]
  BY DEF Getopt, Begin
<1>3. b \in S /\ Scanned(ws, 0, b)
  BY ScannedNone
<1>4. \A s \in S, i \in 1 .. N : Scan(s, ws[i]) \in S
  BY <1>1, ScanSteps DEF Steps
<1> HIDE DEF b, S
<1>5. g \in [1 .. N -> [S -> S]]
  BY <1>4
<1>6. \E h : h = Rec(h)
  <2> HIDE DEF g
  <2>0. N \in Nat
    OBVIOUS
  <2> OfSteps(g, N, S)
    BY <1>5 DEF OfSteps
  <2> PICK h : Taken(h, N, S, b, g)
    BY <2>0, <1>3, StepByStep
  <2>1. h \in [0 .. N -> S] /\ h[0] = b /\ \A n \in 1 .. N : h[n] = g[n][h[n - 1]]
    BY DEF Taken
  <2>2. \A n \in 1 .. N : h[n - 1] \in S
    BY <2>1
  <2>3. \A n \in 1 .. N : h[n] = Scan(h[n - 1], ws[n])
    BY <2>1, <2>2 DEF g
  <2>4. h = Rec(h)
    BY <2>1, <2>3
  <2> QED BY <2>4
<1>7. scan = Rec(scan)
  BY <1>6
<1>8. N \in Nat
  OBVIOUS
<1> HIDE DEF scan
<1>9. scan[0] = b
  BY <1>7, <1>8
<1>10. \A n \in 1 .. N : scan[n] = Scan(scan[n - 1], ws[n])
  BY <1>7
<1> HIDE DEF N
<1>11. 0 \in D
  BY <1>3, <1>8, <1>9
<1>12. ASSUME NEW n \in 0 .. N, n \in D, n < N
       PROVE  n + 1 \in D
  <2>1. n \in Nat /\ n + 1 \in 1 .. N /\ n + 1 \in 0 .. N /\ (n + 1) - 1 = n
    BY <1>8, <1>12
  <2>2. Scanned(ws, n, scan[n]) /\ ws[n + 1] \in Words
    BY <1>1, <1>12, <2>1
  <2>3. Scanned(ws, n + 1, Scan(scan[n], ws[n + 1]))
    BY <2>1, <2>2, ScannedNext
  <2>4. scan[n + 1] = Scan(scan[n], ws[n + 1])
    BY <1>10, <2>1
  <2> QED BY <2>1, <2>3, <2>4
<1> HIDE DEF D
<1>13. 0 .. N \subseteq D
  BY <1>8, <1>11, <1>12, UpTo
<1>14. N \in D
  BY <1>8, <1>13
<1> QED BY <1>2, <1>14 DEF D, N

\* determine_format() knows the formats and nothing else.
LEMMA FormatsAre ==
  /\ "none" \notin Formats
  /\ \A w : determine_format(w) = "none" \/ (determine_format(w) = w /\ w \in Formats)
  /\ \A w \in Formats : determine_format(w) = w
  /\ determine_format("none") = "none"
BY DEF Formats, determine_format

\* The files of a line, as parse_args() finds them.
Names(ws) == IF Getopt(ws).names = <<>> THEN ws ELSE Getopt(ws).names
NameAt(ws, i) == IF i <= Len(Names(ws)) THEN Names(ws)[i] ELSE "NULL"
Target(ws) == determine_format(Getopt(ws).value)
Accepted(ws) == Counted(ws) /\ ~ Getopt(ws).wrong /\ ~ Getopt(ws).waits

\* Fit and not left waiting for a format is well formed.
LEMMA FitWellFormed ==
  ASSUME NEW ws \in Seq(STRING), Len(ws) = 4
  PROVE  WellFormed(ws) <=> Fit(ws, 4) /\ ~ WaitsAt(ws, 4)
<1>1. \A i \in 1 .. 4 : (i < 4 => i + 1 \in 1 .. 4 /\ (i + 1) - 1 = i /\ i + 1 > 1)
                        /\ (~ (i < 4) => i = 4) /\ (i > 1 => i - 1 \in 1 .. 4 /\ (i - 1) + 1 = i)
  OBVIOUS
<1>2. 4 > 0 /\ 4 \in 1 .. 4 /\ ~ (4 < 4)
  OBVIOUS
<1>3. "-e" \in Dashed /\ \A f \in Formats : "-e" # Joined[f]
  BY WordsDiffer
<1>4. ASSUME WellFormed(ws) PROVE Fit(ws, 4) /\ ~ WaitsAt(ws, 4)
  <2>1. ASSUME NEW i \in 1 .. 4, ws[i] = "-e", ~ Behind(ws, i)
        PROVE  i < 4 /\ ws[i + 1] \in Formats
    BY <1>3, <1>4, <2>1 DEF WellFormed
  <2>2. ~ WaitsAt(ws, 4)
    BY <1>2, <2>1 DEF WaitsAt
  <2>3. ASSUME NEW i \in 1 .. 4 PROVE FitAt(ws, i)
    <3>1. ws[i] \in Dashed /\ ~ Behind(ws, i) => Known(ws[i])
      BY <1>4 DEF WellFormed, Known
    <3>2. ASSUME i > 1, ws[i - 1] = "-e", ~ Behind(ws, i - 1) PROVE ws[i] \in Formats
      BY <1>1, <2>1, <3>2
    <3> QED BY <3>1, <3>2 DEF FitAt
  <2> QED BY <2>2, <2>3 DEF Fit
<1>5. ASSUME Fit(ws, 4), ~ WaitsAt(ws, 4) PROVE WellFormed(ws)
  <2> SUFFICES ASSUME NEW i \in 1 .. 4, ws[i] \in Dashed, ~ Behind(ws, i)
               PROVE  \/ ws[i] = "--" \/ \E f \in Formats : ws[i] = Joined[f]
                      \/ ws[i] = "-e" /\ i < 4 /\ ws[i + 1] \in Formats
    BY DEF WellFormed
  <2>1. FitAt(ws, i) /\ (i < 4 => FitAt(ws, i + 1))
    BY <1>1, <1>5 DEF Fit
  <2>2. Known(ws[i])
    BY <2>1 DEF FitAt
  <2>3. ASSUME ws[i] = "-e" PROVE i < 4 /\ ws[i + 1] \in Formats
    <3>1. i < 4
      BY <1>1, <1>2, <1>5, <2>3 DEF WaitsAt
    <3> QED BY <1>1, <2>1, <2>3, <3>1 DEF FitAt
  <2> QED BY <2>2, <2>3 DEF Known
<1> QED BY <1>4, <1>5

\* An accepted line whose first file is there, and that has a format and a
\* second file, asks for these.
LEMMA LineParsed ==
  ASSUME NEW ws \in Seq(STRING), Accepted(ws), Target(ws) \in Formats,
         NameAt(ws, 1) \in {"in", "out"}, NameAt(ws, 2) # "NULL"
  PROVE  Asked(ws, Target(ws), NameAt(ws, 1), NameAt(ws, 2))
<1> DEFINE s == Getopt(ws)
           ns == s.names
<1>1. Len(ws) = 4 /\ ~ s.wrong /\ ~ s.waits
  BY DEF Accepted, Counted
<1>2. Scanned(ws, 4, s)
  BY <1>1, GetoptScanned
<1> HIDE DEF s
<1>3. Fit(ws, 4) /\ ~ WaitsAt(ws, 4) /\ FirstNames(ws, 4, ns) /\ LastFormat(ws, 4, s.value)
  BY <1>1, <1>2 DEF Scanned
<1>4. WellFormed(ws)
  BY <1>1, <1>3, FitWellFormed
<1>5. \E i \in 1 .. 4 : /\ AsksFor(ws, i, Target(ws))
                        /\ \A j \in i + 1 .. 4 : \A g \in Formats : ~ AsksFor(ws, j, g)
  <2>1. Target(ws) = s.value /\ s.value # "none"
    BY FormatsAre DEF Target, s
  <2> QED BY <1>3, <2>1 DEF LastFormat, NoFormat
<1>6. \E i \in 1 .. 4 : \E j \in i + 1 .. 4 :
           /\ IsName(ws, i) /\ ws[i] = NameAt(ws, 1)
           /\ IsName(ws, j) /\ ws[j] = NameAt(ws, 2)
           /\ \A l \in 1 .. j : IsName(ws, l) => l \in {i, j}
  <2>1. ns \in Seq(Words) /\ Len(ns) \in Nat
    BY <1>3 DEF FirstNames
  <2>2. Len(ns) # 0
    <3> SUFFICES ASSUME Len(ns) = 0 PROVE FALSE
      OBVIOUS
    <3>1. \A l \in 1 .. 4 : ~ IsName(ws, l)
      BY <1>3 DEF FirstNames
    <3>2. ns = <<>>
      BY <2>1, EmptySeq
    <3>3. NameAt(ws, 1) = ws[1]
      BY <1>1, <3>2 DEF NameAt, Names, s
    <3>4. ws[1] \notin Dashed
      BY <3>3, WordsDiffer
    <3>5. IsName(ws, 1)
      BY <3>4 DEF IsName
    <3>6. 1 \in 1 .. 4
      OBVIOUS
    <3> QED BY <3>1, <3>5, <3>6
  <2>3. Names(ws) = ns
    <3>1. ns # <<>>
      BY <2>2, EmptySeq
    <3> QED BY <3>1 DEF Names, s
  <2>4. Len(ns) # 1
    BY <2>3 DEF NameAt
  <2> DEFINE k == Len(ns)
  <2>5. k > 1
    <3>1. k \in Nat /\ k # 0 /\ k # 1
      BY <2>1, <2>2, <2>4
    <3> HIDE DEF k
    <3> QED BY <3>1
  <2>6. NameAt(ws, 1) = ns[1] /\ NameAt(ws, 2) = ns[2]
    <3>1. k \in Nat /\ 1 <= k /\ 2 <= k
      BY <2>1, <2>5
    <3> QED BY <2>3, <3>1 DEF NameAt
  <2>7. \E i \in 1 .. 4 : \E j \in i + 1 .. 4 : NamePair(ws, i, j) /\ ns[1] = ws[i] /\ ns[2] = ws[j]
    BY <1>3, <2>5 DEF FirstNames
  <2> QED BY <2>6, <2>7 DEF NamePair
<1> QED BY <1>1, <1>4, <1>5, <1>6 DEF Asked

\* A word asks for one format at most.
LEMMA OneFormat ==
  ASSUME NEW ws, NEW i, NEW f \in Formats, NEW g \in Formats, AsksFor(ws, i, f), AsksFor(ws, i, g)
  PROVE  f = g
BY WordsDiffer DEF AsksFor

\* A line that asks for a format and the two files is accepted, and read so.
LEMMA LineRead ==
  ASSUME NEW ws \in Seq(STRING), NEW f \in Formats, Asked(ws, f, "in", "out")
  PROVE  Accepted(ws) /\ Target(ws) = f /\ NameAt(ws, 1) = "in" /\ NameAt(ws, 2) = "out"
<1> DEFINE s == Getopt(ws)
           ns == s.names
<1>1. Len(ws) = 4 /\ WellFormed(ws)
  BY DEF Asked
<1>2. Scanned(ws, 4, s)
  BY <1>1, GetoptScanned
<1>3. Fit(ws, 4) /\ ~ WaitsAt(ws, 4)
  BY <1>1, FitWellFormed
<1> HIDE DEF s
<1>4. ~ s.wrong /\ ~ s.waits /\ FirstNames(ws, 4, ns) /\ LastFormat(ws, 4, s.value)
  BY <1>2, <1>3 DEF Scanned
<1>5. Accepted(ws)
  BY <1>1, <1>4 DEF Accepted, Counted, s
<1>6. s.value = f
  <2>1. PICK i \in 1 .. 4 : /\ AsksFor(ws, i, f)
                            /\ \A j \in i + 1 .. 4 : \A g \in Formats : ~ AsksFor(ws, j, g)
    BY DEF Asked
  <2>2. s.value \in Formats /\ \E j \in 1 .. 4 : AsksFor(ws, j, s.value) /\ \A l \in j + 1 .. 4 : NoFormat(ws, l)
    BY <1>4, <2>1 DEF LastFormat, NoFormat
  <2>3. PICK j \in 1 .. 4 : AsksFor(ws, j, s.value) /\ \A l \in j + 1 .. 4 : NoFormat(ws, l)
    BY <2>2
  <2>4. j \in i + 1 .. 4 \/ i \in j + 1 .. 4 \/ i = j
    OBVIOUS
  <2>5. i = j
    BY <2>1, <2>2, <2>3, <2>4 DEF NoFormat
  <2> QED BY <2>1, <2>2, <2>3, <2>5, OneFormat
<1>7. Target(ws) = f
  BY <1>6, FormatsAre DEF Target, s
<1>8. NameAt(ws, 1) = "in" /\ NameAt(ws, 2) = "out"
  <2>1. PICK i \in 1 .. 4 : \E j \in i + 1 .. 4 :
           /\ IsName(ws, i) /\ ws[i] = "in"
           /\ IsName(ws, j) /\ ws[j] = "out"
           /\ \A l \in 1 .. j : IsName(ws, l) => l \in {i, j}
    BY DEF Asked
  <2>2. PICK j \in i + 1 .. 4 :
           /\ IsName(ws, i) /\ ws[i] = "in"
           /\ IsName(ws, j) /\ ws[j] = "out"
           /\ \A l \in 1 .. j : IsName(ws, l) => l \in {i, j}
    BY <2>1
  <2>3. i \in Int /\ j \in Int /\ i < j /\ j \in 1 .. 4
    OBVIOUS
  <2>4. Len(ns) # 0
    BY <1>4, <2>2 DEF FirstNames
  <2>5. Len(ns) # 1
    <3> SUFFICES ASSUME Len(ns) = 1 PROVE FALSE
      OBVIOUS
    <3>1. \E m \in 1 .. 4 : \A l \in 1 .. 4 : IsName(ws, l) => l = m
      BY <1>4 DEF FirstNames
    <3>2. i = j
      BY <2>2, <2>3, <3>1
    <3> QED BY <2>3, <3>2
  <2> DEFINE k == Len(ns)
  <2>6. ns \in Seq(Words) /\ k \in Nat
    BY <1>4 DEF FirstNames
  <2>7. k > 1
    <3>1. k \in Nat /\ k # 0 /\ k # 1
      BY <2>4, <2>5, <2>6
    <3> HIDE DEF k
    <3> QED BY <3>1
  <2>8. \E a \in 1 .. 4 : \E b \in a + 1 .. 4 : NamePair(ws, a, b) /\ ns[1] = ws[a] /\ ns[2] = ws[b]
    BY <1>4, <2>7 DEF FirstNames
  <2>9. PICK a \in 1 .. 4 : \E b \in a + 1 .. 4 : NamePair(ws, a, b) /\ ns[1] = ws[a] /\ ns[2] = ws[b]
    BY <2>8
  <2>10. PICK b \in a + 1 .. 4 : NamePair(ws, a, b) /\ ns[1] = ws[a] /\ ns[2] = ws[b]
    BY <2>9
  <2>11. a \in Int /\ b \in Int /\ a < b
    OBVIOUS
  <2>12. a = i /\ b = j
    <3>1. CASE j <= b
      <4>1. i \in 1 .. b /\ j \in 1 .. b
        BY <2>3, <2>11, <3>1
      <4>2. i \in {a, b} /\ j \in {a, b}
        BY <2>2, <2>10, <4>1 DEF NamePair
      <4> QED BY <2>3, <2>11, <4>2
    <3>2. CASE b <= j
      <4>1. a \in 1 .. j /\ b \in 1 .. j
        BY <2>3, <2>11, <3>2
      <4>2. a \in {i, j} /\ b \in {i, j}
        BY <2>2, <2>10, <4>1 DEF NamePair
      <4> QED BY <2>3, <2>11, <4>2
    <3> QED BY <2>3, <2>11, <3>1, <3>2
  <2>13. ns[1] = "in" /\ ns[2] = "out"
    BY <2>2, <2>10, <2>12
  <2>14. Names(ws) = ns
    <3>1. ns # <<>>
      BY <2>4, EmptySeq
    <3> QED BY <3>1 DEF Names, s
  <2>15. 1 <= k /\ 2 <= k
    BY <2>6, <2>7
  <2> QED BY <2>13, <2>14, <2>15 DEF NameAt
<1> QED BY <1>5, <1>7, <1>8

----------------------------------------------------------------------------
(* What the system calls and the codecs return                             *)

\* write(2) adds its bytes behind what was written.
LEMMA OverlayIs ==
  ASSUME out \in Seq(Byte), wpos \in Nat, wpos <= Len(out), NEW bs \in Seq(Byte)
  PROVE  /\ Overlay(bs) \in Seq(Byte)
         /\ wpos + Len(bs) \in Nat /\ wpos + Len(bs) <= Len(Overlay(bs))
         /\ SubSeq(Overlay(bs), 1, wpos + Len(bs)) = Written \o bs
<1> HIDE DEF Byte
<1> DEFINE a == SubSeq(out, 1, wpos)
           c == SubSeq(out, wpos + Len(bs) + 1, Len(out))
           n == wpos + Len(bs)
           x == (a \o bs) \o c
<1>0. Len(out) \in Nat /\ Len(bs) \in Nat
  OBVIOUS
<1>1. a \in Seq(Byte) /\ Len(a) = wpos
  <2>1. \A i \in 1 .. wpos : out[i] \in Byte
    BY <1>0
  <2>2. a \in Seq(Byte) /\ Len(a) = IF 1 <= wpos THEN wpos - 1 + 1 ELSE 0
    BY <2>1, SubSeqProperties
  <2> QED BY <2>2
<1>2. c \in Seq(Byte)
  <2>1. wpos + Len(bs) + 1 \in Int /\ \A i \in wpos + Len(bs) + 1 .. Len(out) : out[i] \in Byte
    BY <1>0
  <2> QED BY <1>0, <2>1, SubSeqProperties
<1>3. Overlay(bs) = x
  BY DEF Overlay
<1> HIDE DEF a, c
<1>4. a \o bs \in Seq(Byte) /\ Len(a \o bs) = n
  BY <1>1, ConcatProperties
<1> DEFINE p == a \o bs
<1>5. /\ x \in Seq(Byte) /\ Len(x) = Len(p) + Len(c)
      /\ \A i \in 1 .. Len(p) + Len(c) : x[i] = IF i <= Len(p) THEN p[i] ELSE c[i - Len(p)]
  <2>1. p \in Seq(Byte) /\ x = p \o c
    BY <1>4
  <2> HIDE DEF x, p
  <2> QED BY <1>2, <2>1, ConcatProperties
<1>6. Len(c) \in Nat /\ n \in Nat /\ Len(p) = n /\ p \in Seq(Byte)
  BY <1>0, <1>2, <1>4
<1> HIDE DEF x, p, n
<1>7. n <= Len(x) /\ \A i \in 1 .. n : x[i] = p[i] /\ x[i] \in Byte
  <2>1. n <= Len(x) /\ Len(x) \in Nat
    BY <1>5, <1>6
  <2>2. ASSUME NEW i \in 1 .. n PROVE x[i] = p[i] /\ x[i] \in Byte
    <3>1. i \in 1 .. Len(p) + Len(c) /\ i <= Len(p) /\ i \in 1 .. Len(p)
      BY <1>6
    <3> QED BY <1>5, <1>6, <3>1
  <2> QED BY <2>1, <2>2
<1> DEFINE y == SubSeq(x, 1, n)
<1>8. /\ y \in Seq(Byte)
      /\ Len(y) = IF 1 <= n THEN n - 1 + 1 ELSE 0
      /\ \A i \in 1 .. n - 1 + 1 : y[i] = x[1 + i - 1]
  BY <1>6, <1>7, SubSeqProperties
<1> HIDE DEF y
<1>9. Len(y) = n /\ \A i \in 1 .. n : y[i] = p[i]
  <2>1. Len(y) = n
    BY <1>6, <1>8
  <2>2. ASSUME NEW i \in 1 .. n PROVE y[i] = p[i]
    <3>1. i \in 1 .. n - 1 + 1 /\ 1 + i - 1 = i
      BY <1>6
    <3> QED BY <3>1, <1>7, <1>8
  <2> QED BY <2>1, <2>2
<1>10. y = p
  BY <1>6, <1>8, <1>9, SeqEqual
<1> QED BY <1>3, <1>5, <1>6, <1>7, <1>10 DEF x, y, p, n, a, Written

\* A write of bytes, failing or not.
Wrote(bs) ==
    /\ out' \in Seq(Byte) /\ wpos' \in Nat /\ wpos' <= Len(out')
    /\ faults' \in Nat /\ faults' >= faults
    /\ faults' = 0 => faults = 0 /\ Written' = Written \o bs

\* A write keeps the output file sound; without a fault it is whole.
LEMMA WriteDoes ==
  ASSUME out \in Seq(Byte), wpos \in Nat, wpos <= Len(out), faults \in Nat,
         NEW bs \in Seq(Byte), Write(bs)
  PROVE  Wrote(bs)
<1>1. CASE out' = Overlay(bs) /\ wpos' = wpos + Len(bs) /\ UNCHANGED faults
  <2>1. /\ Overlay(bs) \in Seq(Byte)
        /\ wpos + Len(bs) \in Nat /\ wpos + Len(bs) <= Len(Overlay(bs))
        /\ SubSeq(Overlay(bs), 1, wpos + Len(bs)) = Written \o bs
    BY OverlayIs
  <2>2. Written' = Written \o bs
    BY <1>1, <2>1 DEF Written
  <2>3. faults' \in Nat /\ faults' >= faults /\ (faults' = 0 => faults = 0)
    BY <1>1
  <2> HIDE DEF Byte
  <2> QED BY <1>1, <2>1, <2>2, <2>3 DEF Wrote
<1>2. CASE faults < MaxFaults /\ faults' = faults + 1 /\ UNCHANGED <<out, wpos>>
  BY <1>2 DEF Wrote
<1> QED BY <1>1, <1>2 DEF Write

\* A read leaves bytes in the buffer.
LEMMA Filled ==
  ASSUME NEW g \in [1 .. 4 -> Byte], NEW i \in 1 .. 4, NEW k \in Nat, NEW n \in Nat, file \in Seq(Byte)
  PROVE  Fill(g, i, k, n) \in [1 .. 4 -> Byte]
<1> HIDE DEF Byte
<1>1. ASSUME NEW j \in 1 .. 4, j >= i, k + (j - i) < Len(file) PROVE file[k + (j - i) + 1] \in Byte
  <2>1. k + (j - i) + 1 \in 1 .. Len(file)
    BY <1>1
  <2> QED BY <2>1
<1> QED BY <1>1 DEF Fill

\* The offset stays inside the file, and never goes back.
LEMMA Clipped ==
  ASSUME file \in Seq(Byte), off \in Nat, off <= Len(file), NEW n \in Nat
  PROVE  Clip(n) \in Nat /\ Clip(n) <= Len(file) /\ Clip(n) >= off
BY DEF Clip

\* Buffers of four bytes and their values.
LEMMA NativeUnit ==
  ASSUME NEW a \in Byte, NEW b \in Byte
  PROVE  Native(<<a, b>>, 1) \in Nat /\ Native(<<a, b>>, 1) < 65536
         /\ Reversed(<<a, b>>) = <<b, a>>
BY DEF Native, Reversed, Byte

\* A decoded glyph is a number.
LEMMA Decoded ==
  ASSUME NEW g \in [1 .. 4 -> Byte]
  PROVE  utf8_decode(g) \in Nat /\ remaining_utf8_bytes(g[1]) \in Nat
<1>1. g[1] \in 0 .. 255 /\ g[2] \in 0 .. 255 /\ g[3] \in 0 .. 255 /\ g[4] \in 0 .. 255
  BY DEF Byte
<1> DEFINE a == g[1]
           b == g[2]
           c == g[3]
           d == g[4]
<1>2. a \in Nat /\ b \in Nat /\ c \in Nat /\ d \in Nat
  BY <1>1
<1> HIDE DEF a, b, c, d
<1>3. a % 32 \in Nat /\ a % 16 \in Nat /\ a % 8 \in Nat /\ b % 64 \in Nat /\ c % 64 \in Nat /\ d % 64 \in Nat
  BY <1>2
<1>4. utf8_two_byte_decode(g) = (a % 32) * 64 + (b % 64)
  BY DEF utf8_two_byte_decode, a, b
<1>5. utf8_three_byte_decode(g) = (a % 16) * 4096 + (b % 64) * 64 + (c % 64)
  BY DEF utf8_three_byte_decode, a, b, c
<1>6. utf8_four_byte_decode(g) = (a % 8) * 262144 + (b % 64) * 4096 + (c % 64) * 64 + (d % 64)
  BY DEF utf8_four_byte_decode, a, b, c, d
<1>7. utf8_one_byte_decode(g) \in Nat /\ utf8_two_byte_decode(g) \in Nat
      /\ utf8_three_byte_decode(g) \in Nat /\ utf8_four_byte_decode(g) \in Nat
  BY <1>2, <1>3, <1>4, <1>5, <1>6 DEF utf8_one_byte_decode, a
<1>8. remaining_utf8_bytes(g[1]) \in Nat
  BY DEF remaining_utf8_bytes
<1> QED BY <1>7, <1>8 DEF utf8_decode

\* Continuation bytes are bytes.
LEMMA ContByte ==
  ASSUME NEW cp \in Nat
  PROVE  Cont(cp) \in Byte /\ Cont(cp \div 64) \in Byte /\ Cont(cp \div 4096) \in Byte
<1>1. \A n \in Nat : Cont(n) \in Byte
  BY DEF Cont, Byte
<1>2. cp \div 64 \in Nat /\ cp \div 4096 \in Nat
  OBVIOUS
<1> QED BY <1>1, <1>2

\* A glyph in UTF-8 is bytes.
LEMMA Utf8Bytes ==
  ASSUME NEW cp \in Nat
  PROVE  code_point_to_utf8_glyph(cp) \in Seq(Byte)
<1>1. Cont(cp) \in Byte /\ Cont(cp \div 64) \in Byte /\ Cont(cp \div 4096) \in Byte
  BY ContByte
<1>2. cp % 256 \in Byte /\ 192 + ((cp \div 64) % 32) \in Byte
  BY DEF Byte
<1>3. 224 + ((cp \div 4096) % 16) \in Byte /\ 240 + ((cp \div 262144) % 8) \in Byte
  BY DEF Byte
<1> HIDE DEF Byte
<1>4. utf8_one_byte_encode(cp) \in Seq(Byte)
  BY <1>2 DEF utf8_one_byte_encode
<1>5. utf8_two_byte_encode(cp) \in Seq(Byte)
  BY <1>1, <1>2 DEF utf8_two_byte_encode
<1>6. utf8_three_byte_encode(cp) \in Seq(Byte)
  BY <1>1, <1>3 DEF utf8_three_byte_encode
<1>7. utf8_four_byte_encode(cp) \in Seq(Byte)
  BY <1>1, <1>3 DEF utf8_four_byte_encode
<1> QED BY <1>4, <1>5, <1>6, <1>7 DEF code_point_to_utf8_glyph

\* A unit in memory is two bytes.
LEMMA MemoryBytes ==
  ASSUME NEW u \in Nat, u < 65536
  PROVE  /\ Memory(u) \in Seq(Byte) /\ Len(Memory(u)) = 2
         /\ Reversed(Memory(u)) \in Seq(Byte)
<1>1. u % 256 \in Byte /\ u \div 256 \in Byte
  BY DEF Byte
<1> HIDE DEF Byte
<1> QED BY <1>1 DEF Memory, Reversed

\* A glyph in UTF-16 is bytes.
LEMMA Utf16Bytes ==
  ASSUME NEW cp \in Nat
  PROVE  /\ code_point_to_utf16le_glyph(cp) \in Seq(Byte)
         /\ code_point_to_utf16be_glyph(cp) \in Seq(Byte)
<1>1. Upper(cp) \in Nat /\ Upper(cp) < 65536
  BY DEF Upper, is_code_point_surrogate
<1>2. Lower(cp) \in Nat /\ Lower(cp) < 65536
  BY DEF Lower, is_code_point_surrogate
<1>3. /\ Memory(Upper(cp)) \in Seq(Byte) /\ Reversed(Memory(Upper(cp))) \in Seq(Byte)
      /\ Memory(Lower(cp)) \in Seq(Byte) /\ Reversed(Memory(Lower(cp))) \in Seq(Byte)
  BY <1>1, <1>2, MemoryBytes
<1> HIDE DEF Byte
<1>4. /\ Memory(Upper(cp)) \o Memory(Lower(cp)) \in Seq(Byte)
      /\ Reversed(Memory(Upper(cp))) \o Reversed(Memory(Lower(cp))) \in Seq(Byte)
  BY <1>3, ConcatProperties
<1> QED BY <1>3, <1>4 DEF code_point_to_utf16le_glyph, code_point_to_utf16be_glyph

----------------------------------------------------------------------------
(* The inductive invariant                                                 *)

Typed ==
    /\ input \in Inputs /\ argv \in Argvs
    /\ pc \in {"args", "bom", "open", "start", "loop", "done", "failed", "crashed"}
    /\ to \in Formats \union {"none"} /\ from \in Formats \union {"none"}
    /\ file \in Seq(Byte) /\ off \in Nat /\ off <= Len(file)
    /\ out \in Seq(Byte) /\ wpos \in Nat /\ wpos <= Len(out)
    /\ buf \in [1 .. 4 -> Byte]
    /\ faults \in Nat

\* Nothing is read or written before the two files are open.
Untouched == pc \in {"args", "bom", "open", "start"} => off = 0 /\ wpos = 0

\* What the program knows of its files is what the line says.
FromLine ==
    /\ pc = "args" => to = "none" /\ file = FileOf(input)
    /\ pc \notin {"args", "failed"} =>
        /\ Accepted(argv)
        /\ to = Target(argv) /\ in_file = NameAt(argv, 1) /\ out_file = NameAt(argv, 2)
        /\ in_file = "in" => file = FileOf(input)

\* The source format is the one the mark tells, and both files are open.
MarkSeen ==
    /\ pc \in {"open", "start", "loop", "done", "crashed"} =>
        in_file \in {"in", "out"} /\ Len(file) > 2 /\ from \in Recognized
    /\ pc \in {"start", "loop", "done", "crashed"} => out_file # "NULL"

\* A conversion runs between two formats, and only there.
Routed ==
    /\ pc = "loop" => to \in Formats /\ from # to
    /\ pc = "done" => to \in Formats
    /\ pc = "crashed" => to = "none"

Copied == pc = "done" /\ from = to /\ faults = 0 => Written = file

\* A failure is a fault, or the line or the file deserves it.
Refused ==
    pc = "failed" /\ faults = 0 /\ input.format # "none" /\ Len(FileOf(input)) > 2 =>
        \A f \in Formats : ~ Asked(argv, f, "in", "out")

Lines == Untouched /\ FromLine /\ MarkSeen /\ Routed /\ Copied /\ Refused

\* The types hold at the start.
LEMMA TypedInit ==
  ASSUME Init
  PROVE  Typed
<1>1. FileOf(input) \in Seq(Byte)
  BY FileIsCut DEF Init, CutFrom
<1>2. out \in Seq(Byte) /\ buf \in [1 .. 4 -> Byte]
  BY UtfAssumption DEF Init
<1>3. Len(out) \in Nat /\ Len(file) \in Nat /\ file \in Seq(Byte)
  BY <1>1, <1>2 DEF Init
<1> HIDE DEF Byte
<1>4. off = 0 /\ wpos = 0 /\ faults = 0 /\ pc = "args" /\ to = "none" /\ from = "none"
      /\ input \in Inputs /\ argv \in Argvs
  BY DEF Init
<1> QED BY <1>2, <1>3, <1>4 DEF Typed

\* The names of a line, as parse_args() computes them.
ParsedTo(t, a, b, f, o) ==
    /\ t = Target(argv) /\ a = NameAt(argv, 1) /\ b = NameAt(argv, 2)
    /\ f = Disk(a) /\ o = Disk(b)

\* parse_args() by cases.
LEMMA ParseArgs ==
  ASSUME parse_args
  PROVE  /\ pc = "args" /\ UNCHANGED <<input, argv, from, off, wpos, buf, faults>>
         /\ \/ ~ Accepted(argv) /\ pc' = "failed" /\ UNCHANGED <<in_file, out_file, file, out, to>>
            \/ Accepted(argv) /\ pc' = "bom" /\ ParsedTo(to', in_file', out_file', file', out')
<1>1. ~ Accepted(argv) <=> (~ Counted(argv) \/ Getopt(argv).wrong \/ Getopt(argv).waits)
  BY DEF Accepted
<1>2. CASE ~ Accepted(argv)
  BY <1>1, <1>2 DEF parse_args
<1>3. CASE Accepted(argv)
  BY <1>1, <1>3 DEF parse_args, ParsedTo, NameAt, Names, Target
<1> QED BY <1>2, <1>3

\* parse_args() finds files of bytes.
LEMMA TypedParse ==
  ASSUME Typed, Untouched, parse_args
  PROVE  Typed'
<1>1. /\ pc = "args" /\ UNCHANGED <<input, argv, from, off, wpos, buf, faults>>
      /\ \/ ~ Accepted(argv) /\ pc' = "failed" /\ UNCHANGED <<in_file, out_file, file, out, to>>
         \/ Accepted(argv) /\ pc' = "bom" /\ ParsedTo(to', in_file', out_file', file', out')
  BY ParseArgs
<1>2. off = 0 /\ wpos = 0
  BY <1>1 DEF Untouched
<1>3. \A n : Disk(n) \in Seq(Byte)
  <2> HIDE DEF Byte
  <2>1. <<>> \in Seq(Byte)
    OBVIOUS
  <2> QED BY <2>1 DEF Disk, Typed
<1>4. Target(argv) \in Formats \union {"none"}
  BY FormatsAre DEF Target
<1>5. file' \in Seq(Byte) /\ out' \in Seq(Byte) /\ to' \in Formats \union {"none"} /\ pc' \in {"bom", "failed"}
  BY <1>1, <1>3, <1>4 DEF ParsedTo, Typed
<1> HIDE DEF Byte
<1>6. Len(file') \in Nat /\ Len(out') \in Nat
  BY <1>5
<1> QED BY <1>1, <1>2, <1>5, <1>6 DEF Typed

\* A turn of a loop that writes bytes.
LEMMA TypedTurn ==
  ASSUME Typed, NEW n \in Nat, NEW bs \in Seq(Byte), Write(bs),
         off' = Clip(n), buf' \in [1 .. 4 -> Byte], UNCHANGED <<line, file, to, from, pc>>
  PROVE  Typed'
<1>1. Wrote(bs)
  BY WriteDoes DEF Typed
<1>2. off' \in Nat /\ off' <= Len(file)
  BY Clipped DEF Typed
<1> HIDE DEF Byte
<1> QED BY <1>1, <1>2 DEF Typed, Wrote, line

\* The mark each conversion writes is bytes.
LEMMA HeaderBytes ==
  ASSUME NEW f \in Formats
  PROVE  Header(f) \in Seq(Byte)
<1>1. 255 \in Byte /\ 254 \in Byte /\ 239 \in Byte /\ 187 \in Byte /\ 191 \in Byte /\ 0 \in Byte
  BY DEF Byte
<1> HIDE DEF Byte
<1> QED BY <1>1 DEF Header, Formats

\* Two units make a glyph buffer.
LEMMA TwoAndTwo ==
  ASSUME NEW x \in Byte, NEW y \in Byte, NEW z \in Byte, NEW v \in Byte
  PROVE  <<x, y>> \o <<z, v>> = <<x, y, z, v>> /\ <<x, y, z, v>> \in [1 .. 4 -> Byte]
<1> HIDE DEF Byte
<1> DEFINE a == <<x, y>>
           b == <<z, v>>
           c == <<x, y, z, v>>
<1>1. a \in Seq(Byte) /\ Len(a) = 2 /\ a[1] = x /\ a[2] = y
  OBVIOUS
<1>2. b \in Seq(Byte) /\ Len(b) = 2 /\ b[1] = z /\ b[2] = v
  OBVIOUS
<1>3. c \in Seq(Byte) /\ Len(c) = 4 /\ c[1] = x /\ c[2] = y /\ c[3] = z /\ c[4] = v
      /\ c \in [1 .. 4 -> Byte]
  OBVIOUS
<1> HIDE DEF a, b, c
<1>4. /\ a \o b \in Seq(Byte) /\ Len(a \o b) = Len(a) + Len(b)
      /\ \A i \in 1 .. Len(a) + Len(b) : (a \o b)[i] = IF i <= Len(a) THEN a[i] ELSE b[i - Len(a)]
  BY <1>1, <1>2, ConcatProperties
<1>5. Len(a \o b) = 4 /\ \A i \in 1 .. 4 : (a \o b)[i] = IF i <= 2 THEN a[i] ELSE b[i - 2]
  BY <1>1, <1>2, <1>4
<1>6. \A i \in 1 .. 4 : i = 1 \/ i = 2 \/ i = 3 \/ i = 4
  OBVIOUS
<1>7. \A i \in 1 .. 4 : (a \o b)[i] = c[i]
  BY <1>1, <1>2, <1>3, <1>5, <1>6
<1>8. a \o b = c
  BY <1>3, <1>4, <1>5, <1>7, SeqEqual
<1> QED BY <1>3, <1>8 DEF a, b, c

\* The glyph buffer stays one.
LEMMA BufferFilled ==
  ASSUME Typed, NEW g \in [1 .. 4 -> Byte], NEW i \in 1 .. 4, NEW k \in Nat, NEW n \in Nat
  PROVE  Fill(g, i, k, n) \in [1 .. 4 -> Byte]
BY Filled DEF Typed

\* The reads of the loops fill a buffer of four bytes.
LEMMA LoopReads ==
  ASSUME Typed, NEW g \in [1 .. 4 -> Byte]
  PROVE  /\ Fill(g, 1, off, 1) \in [1 .. 4 -> Byte]
         /\ Fill(g, 1, off, 2) \in [1 .. 4 -> Byte]
         /\ Fill(g, 3, off + 2, 2) \in [1 .. 4 -> Byte]
         /\ \A n \in Nat : Fill(g, 2, off + 1, n) \in [1 .. 4 -> Byte]
<1> HIDE DEF Byte
<1>1. 1 \in 1 .. 4 /\ 2 \in 1 .. 4 /\ 3 \in 1 .. 4 /\ 1 \in Nat /\ 2 \in Nat
      /\ off \in Nat /\ off + 1 \in Nat /\ off + 2 \in Nat
  BY DEF Typed
<1> QED BY <1>1, BufferFilled

\* A turn of the loops out of UTF-8.
LEMMA TypedFromUtf8 ==
  ASSUME Typed, NEW b \in TwoForms, FromUtf8(b)
  PROVE  Typed'
<1> HIDE DEF Byte
<1> DEFINE first == Fill(buf, 1, off, 1)
           n == remaining_utf8_bytes(first[1])
           g == Fill(first, 2, off + 1, n)
           cp == utf8_decode(g)
           bs == IF b = "UTF16LE" THEN code_point_to_utf16le_glyph(cp)
                 ELSE code_point_to_utf16be_glyph(cp)
<1>1. off \in Nat /\ off + 1 \in Nat /\ buf \in [1 .. 4 -> Byte]
  BY DEF Typed
<1>2. first \in [1 .. 4 -> Byte]
  BY <1>1, LoopReads
<1>3. n \in Nat
  <2> HIDE DEF first
  <2> QED BY <1>2, Decoded
<1>4. g \in [1 .. 4 -> Byte]
  <2> HIDE DEF first, n
  <2> QED BY <1>1, <1>2, <1>3, LoopReads
<1>5. cp \in Nat
  <2> HIDE DEF g
  <2> QED BY <1>4, Decoded
<1>6. bs \in Seq(Byte)
  <2> HIDE DEF cp
  <2> QED BY <1>5, Utf16Bytes
<1>7. buf' = g /\ off' = Clip(1 + n) /\ Write(bs) /\ UNCHANGED <<line, file, to, from, pc>>
  BY DEF FromUtf8
<1> HIDE DEF n, g, bs
<1>8. 1 + n \in Nat
  BY <1>3
<1> QED BY <1>4, <1>6, <1>7, <1>8, TypedTurn

\* A turn of the loops into UTF-8.
LEMMA TypedToUtf8 ==
  ASSUME Typed, NEW a \in TwoForms, ToUtf8(a)
  PROVE  Typed'
<1> HIDE DEF Byte
<1> DEFINE Ord(p) == IF a = "UTF16BE" THEN Reversed(p) ELSE p
           one  == Fill(buf, 1, off, 2)
           up   == Ord(<<one[1], one[2]>>)
           pair == is_upper_surrogate_pair(Native(up, 1))
           two  == Fill(one, 3, off + 2, 2)
           low  == IF pair THEN Ord(<<two[3], two[4]>>) ELSE <<one[3], one[4]>>
           cp   == utf16_glyph_to_code_point(Native(up, 1), Native(low, 1))
           bs   == code_point_to_utf8_glyph(cp)
           n    == IF pair THEN 4 ELSE 2
<1>1. off \in Nat /\ off + 2 \in Nat /\ buf \in [1 .. 4 -> Byte]
  BY DEF Typed
<1>2. one \in [1 .. 4 -> Byte]
  BY <1>1, LoopReads
<1>3. two \in [1 .. 4 -> Byte]
  <2> HIDE DEF one
  <2> QED BY <1>1, <1>2, LoopReads
<1>0. buf' = up \o low /\ off' = Clip(n) /\ Write(bs) /\ UNCHANGED <<line, file, to, from, pc>>
  BY DEF ToUtf8
<1> HIDE DEF one, two
<1>4. \E x, y \in Byte : up = <<x, y>>
  <2> HIDE DEF Byte
  <2>1. one[1] \in Byte /\ one[2] \in Byte
    BY <1>2
  <2>2. up = <<one[1], one[2]>> \/ up = <<one[2], one[1]>>
    BY DEF Reversed
  <2> QED BY <2>1, <2>2
<1>5. \E x, y \in Byte : low = <<x, y>>
  <2>1. one[3] \in Byte /\ one[4] \in Byte /\ two[3] \in Byte /\ two[4] \in Byte
    BY <1>2, <1>3
  <2>2. low = <<one[3], one[4]>> \/ low = <<two[3], two[4]>> \/ low = <<two[4], two[3]>>
    BY DEF Reversed
  <2> QED BY <2>1, <2>2
<1>6. n \in Nat
  OBVIOUS
<1> HIDE DEF up, low, n
<1>7. Native(up, 1) \in Nat /\ Native(low, 1) \in Nat
  BY <1>4, <1>5, NativeUnit
<1>8. cp \in Nat
  BY <1>7 DEF utf16_glyph_to_code_point, is_upper_surrogate_pair
<1>9. bs \in Seq(Byte)
  <2> HIDE DEF cp
  <2> QED BY <1>8, Utf8Bytes
<1> HIDE DEF bs
<1>10. up \o low \in [1 .. 4 -> Byte]
  <2> PICK x \in Byte, y \in Byte : up = <<x, y>>
    BY <1>4
  <2> PICK z \in Byte, v \in Byte : low = <<z, v>>
    BY <1>5
  <2>1. up \o low = <<x, y>> \o <<z, v>>
    OBVIOUS
  <2>2. <<x, y>> \o <<z, v>> = <<x, y, z, v>> /\ <<x, y, z, v>> \in [1 .. 4 -> Byte]
    BY TwoAndTwo
  <2> QED BY <2>1, <2>2, Zenon
<1> QED BY <1>0, <1>6, <1>9, <1>10, TypedTurn

\* The two byte-swapping loops differ in nothing but the format they are for.
LEMMA TypedSwap ==
  ASSUME Typed, NEW a \in TwoForms, Utf16Swap(a)
  PROVE  Typed'
<1> HIDE DEF Byte
<1> DEFINE one  == Fill(buf, 1, off, 2)
           up   == Reversed(one)
           pair == is_upper_surrogate_pair(Native(up, 1))
           two  == Fill(one, 3, off + 2, 2)
           low  == Reversed(<<two[3], two[4]>>)
           rest == IF pair THEN low ELSE <<one[3], one[4]>>
           bs   == IF pair THEN up \o low ELSE up
           n    == IF pair THEN 4 ELSE 2
<1>0. buf' = up \o rest /\ off' = Clip(n) /\ Write(bs) /\ UNCHANGED <<line, file, to, from, pc>>
  BY DEF Utf16Swap
<1>1. one \in [1 .. 4 -> Byte]
  BY LoopReads DEF Typed
<1>2. two \in [1 .. 4 -> Byte]
  <2> HIDE DEF one
  <2> QED BY <1>1, LoopReads
<1> HIDE DEF one, two
<1>3. up = <<one[2], one[1]>> /\ low = <<two[4], two[3]>>
  BY DEF Reversed
<1>4. one[1] \in Byte /\ one[2] \in Byte /\ one[3] \in Byte /\ one[4] \in Byte
      /\ two[3] \in Byte /\ two[4] \in Byte
  BY <1>1, <1>2
<1>5. \E x, y \in Byte : up = <<x, y>>
  BY <1>3, <1>4
<1>6. \E x, y \in Byte : low = <<x, y>>
  BY <1>3, <1>4
<1>7. \E x, y \in Byte : rest = <<x, y>>
  BY <1>4, <1>6
<1>8. n \in Nat
  OBVIOUS
<1> HIDE DEF up, low, rest, n
<1>9. up \o rest \in [1 .. 4 -> Byte]
  <2> PICK x \in Byte, y \in Byte : up = <<x, y>>
    BY <1>5
  <2> PICK z \in Byte, v \in Byte : rest = <<z, v>>
    BY <1>7
  <2>1. up \o rest = <<x, y>> \o <<z, v>>
    OBVIOUS
  <2>2. <<x, y>> \o <<z, v>> = <<x, y, z, v>> /\ <<x, y, z, v>> \in [1 .. 4 -> Byte]
    BY TwoAndTwo
  <2> QED BY <2>1, <2>2, Zenon
<1>10. bs \in Seq(Byte)
  <2>1. up \in Seq(Byte) /\ low \in Seq(Byte)
    BY <1>5, <1>6
  <2>2. up \o low \in Seq(Byte)
    BY <2>1, ConcatProperties
  <2> QED BY <2>1, <2>2
<1> HIDE DEF bs
<1> QED BY <1>0, <1>8, <1>9, <1>10, TypedTurn

\* A second read that fails leaves the offset behind the first.
LEMMA TypedSecond ==
  ASSUME Typed, NEW a \in Formats, NEW b \in Formats, SecondReadFails(a, b)
  PROVE  Typed'
<1> HIDE DEF Byte
<1> DEFINE n   == IF a = "UTF8" THEN 1 ELSE 2
           one == Fill(buf, 1, off, n)
           up  == IF a = "UTF8" \/ <<a, b>> = <<"UTF16LE", "UTF8">>
                  THEN <<one[1], one[2]>> ELSE Reversed(one)
<1>1. /\ off' = Clip(n) /\ buf' = up \o <<one[3], one[4]>> /\ faults' = faults + 1 /\ pc' = "done"
      /\ UNCHANGED <<line, file, to, from, out, wpos>>
  BY DEF SecondReadFails
<1>2. n \in Nat /\ (n = 1 \/ n = 2)
  OBVIOUS
<1>3. off' \in Nat /\ off' <= Len(file)
  <2> HIDE DEF n
  <2> QED BY <1>1, <1>2, Clipped DEF Typed
<1>4. one \in [1 .. 4 -> Byte]
  <2>1. Fill(buf, 1, off, 1) \in [1 .. 4 -> Byte] /\ Fill(buf, 1, off, 2) \in [1 .. 4 -> Byte]
    BY LoopReads DEF Typed
  <2> HIDE DEF n
  <2> QED BY <2>1, <1>2
<1> HIDE DEF one
<1>5. one[1] \in Byte /\ one[2] \in Byte /\ one[3] \in Byte /\ one[4] \in Byte
  BY <1>4
<1>6. up = <<one[1], one[2]>> \/ up = <<one[2], one[1]>>
  BY DEF Reversed
<1> HIDE DEF up
<1>7. buf' \in [1 .. 4 -> Byte]
  <2>1. \A x, y, z, v \in Byte : <<x, y>> \o <<z, v>> \in [1 .. 4 -> Byte]
    <3> TAKE x, y, z, v \in Byte
    <3>1. <<x, y>> \o <<z, v>> = <<x, y, z, v>> /\ <<x, y, z, v>> \in [1 .. 4 -> Byte]
      BY TwoAndTwo
    <3> QED BY <3>1, Zenon
  <2> QED BY <2>1, <1>1, <1>5, <1>6
<1> HIDE DEF n
<1>8. faults' \in Nat /\ pc' \in {"args", "bom", "open", "start", "loop", "done", "failed", "crashed"}
  BY <1>1 DEF Typed
<1> QED BY <1>1, <1>3, <1>7, <1>8 DEF Typed, line

\* Every step keeps the types.
LEMMA TypedStep ==
  ASSUME Typed, Untouched, [Next]_vars
  PROVE  Typed'
<1>1. CASE parse_args
  BY <1>1, TypedParse
<1>2. CASE check_bom
  <2>1. Recognized \subseteq Formats
    BY DEF Recognized, Formats
  <2>2. /\ pc' \in {"failed", "open"} /\ (from' = from \/ from' \in Formats)
        /\ faults' = faults \/ faults' = faults + 1
        /\ UNCHANGED <<line, file, to, off, out, wpos, buf>>
    BY <1>2, <2>1 DEF check_bom
  <2> HIDE DEF Byte
  <2> QED BY <2>2 DEF Typed, line
<1>3. CASE OpenFiles
  <2>1. /\ pc' \in {"failed", "start"} /\ (off' = 0 \/ off' = off) /\ (faults' = faults \/ faults' = faults + 1)
        /\ UNCHANGED <<line, file, to, from, out, wpos, buf>>
    BY <1>3 DEF OpenFiles
  <2> HIDE DEF Byte
  <2>2. Len(file) \in Nat
    BY DEF Typed
  <2> QED BY <2>1, <2>2 DEF Typed, line
<1>4. CASE transcribe
  <2>1. /\ pc' = "done" /\ Write(file) /\ (off' = Len(file) \/ off' = off)
        /\ UNCHANGED <<line, file, to, from, buf>>
    BY <1>4 DEF transcribe
  <2>2. Wrote(file)
    BY <2>1, WriteDoes DEF Typed
  <2> HIDE DEF Byte
  <2>3. Len(file) \in Nat
    BY DEF Typed
  <2> QED BY <2>1, <2>2, <2>3 DEF Typed, Wrote, line
<1>5. CASE StartConversion
  <2>1. UNCHANGED <<line, file, to, from, off, buf>>
    BY <1>5 DEF StartConversion
  <2>2. CASE pc' = "crashed" /\ UNCHANGED <<out, wpos, faults>>
    <3> HIDE DEF Byte
    <3> QED BY <2>1, <2>2 DEF Typed, line
  <2>3. ASSUME pc' = "loop", NEW r \in Routes(translate), Write(Header(r[2]))
        PROVE  Typed'
    <3>1. Header(r[2]) \in Seq(Byte)
      BY HeaderBytes DEF Routes
    <3>2. Wrote(Header(r[2]))
      BY <2>3, <3>1, WriteDoes DEF Typed
    <3> HIDE DEF Byte
    <3> QED BY <2>1, <2>3, <3>2 DEF Typed, Wrote, line
  <2> QED BY <1>5, <2>2, <2>3 DEF StartConversion
<1>6. ASSUME NEW b \in {"UTF16LE", "UTF16BE"}, FromUtf8(b) \/ Utf16Swap(b) \/ ToUtf8(b)
      PROVE  Typed'
  <2>1. b \in TwoForms
    BY DEF TwoForms
  <2> QED BY <1>6, <2>1, TypedFromUtf8, TypedSwap, TypedToUtf8
<1>7. CASE LoopEnds
  <2>1. /\ pc' = "done" /\ (faults' = faults \/ faults' = faults + 1)
        /\ UNCHANGED <<line, file, to, from, off, out, wpos, buf>>
    BY <1>7 DEF LoopEnds
  <2> HIDE DEF Byte
  <2> QED BY <2>1 DEF Typed, line
<1>8. CASE Finished \/ UNCHANGED vars
  <2>1. UNCHANGED vars
    BY <1>8 DEF Finished
  <2> HIDE DEF Byte
  <2> QED BY <2>1 DEF vars, line, Typed
<1>9. ASSUME NEW a \in Formats, NEW b \in Formats, SecondReadFails(a, b)
      PROVE  Typed'
  BY <1>9, TypedSecond
<1> QED BY <1>1, <1>2, <1>3, <1>4, <1>5, <1>6, <1>7, <1>8, <1>9 DEF Next

\* The switch of get_encoding_function() has a case for every pair of formats.
LEMMA EveryPairRouted ==
    ASSUME NEW a \in Formats, NEW b \in Formats, Code[a] - Code[b] # 0
    PROVE  Routes(Code[a] - Code[b]) # {}
<1>1. a # b
  BY DEF Formats, Code
<1>2. <<a, b>> \in Routes(Code[a] - Code[b])
  BY <1>1 DEF Routes
<1>3. QED BY <1>2

\* A difference of two codes tells the two formats, and that there are two.
LEMMA OneRoute ==
  ASSUME NEW a \in Formats, NEW b \in Formats \union {"none"}
  PROVE  /\ Code[a] - Code[b] = 0 <=> a = b
         /\ \A r \in Routes(Code[a] - Code[b]) : r = <<a, b>>
<1>1. /\ Code["UTF16LE"] = 65534 /\ Code["UTF16BE"] = 65279 /\ Code["UTF8"] = 12565487
      /\ Code["none"] = 0
  BY DEF Code
<1>2. Code[a] - Code[b] = 0 <=> a = b
  BY <1>1 DEF Formats
<1>3. ASSUME NEW r \in Routes(Code[a] - Code[b]) PROVE r = <<a, b>>
  <2>1. /\ r = <<r[1], r[2]>> /\ r[1] \in Formats /\ r[2] \in Formats /\ r[1] # r[2]
        /\ Code[r[1]] - Code[r[2]] = Code[a] - Code[b]
    BY DEF Routes
  <2> DEFINE x == r[1]
             y == r[2]
  <2>2. x \in Formats /\ y \in Formats /\ x # y /\ Code[x] - Code[y] = Code[a] - Code[b]
    BY <2>1
  <2> HIDE DEF x, y
  <2>3. x = a /\ y = b
    BY <1>1, <2>2 DEF Formats
  <2> QED BY <2>1, <2>3 DEF x, y
<1> QED BY <1>2, <1>3

\* check_bom() finds a format or nothing.
LEMMA RecognizedAre ==
  Recognized \subseteq Formats
BY DEF Recognized, Formats

\* The parts of Lines hold at the start, and each operation keeps them:
LEMMA LinesInit ==
  ASSUME Init
  PROVE  Lines
<1>1. pc = "args" /\ to = "none" /\ file = FileOf(input) /\ off = 0 /\ wpos = 0
  BY DEF Init
<1> QED BY <1>1 DEF Lines, Untouched, FromLine, MarkSeen, Routed, Copied, Refused

\* A line that asks for the two files is what the program goes by, past parse_args().
LEMMA AskedKnown ==
  ASSUME Typed, FromLine, pc \notin {"args", "failed"},
         NEW f \in Formats, Asked(argv, f, "in", "out")
  PROVE  to = f /\ in_file = "in" /\ out_file = "out" /\ file = FileOf(input)
<1>1. argv \in Seq(STRING)
  BY UtfAssumption DEF Typed
<1>2. Accepted(argv) /\ Target(argv) = f /\ NameAt(argv, 1) = "in" /\ NameAt(argv, 2) = "out"
  BY <1>1, LineRead
<1> QED BY <1>2 DEF FromLine

\* parse_args(): what is refused asks for no format and the two files,
LEMMA LinesParse ==
  ASSUME Typed, Lines, parse_args
  PROVE  Lines'
<1>1. /\ pc = "args" /\ UNCHANGED <<input, argv, from, off, wpos, buf, faults>>
      /\ \/ ~ Accepted(argv) /\ pc' = "failed" /\ UNCHANGED <<in_file, out_file, file, out, to>>
         \/ Accepted(argv) /\ pc' = "bom" /\ ParsedTo(to', in_file', out_file', file', out')
  BY ParseArgs
<1>2. Untouched'
  BY <1>1 DEF Lines, Untouched
<1>3. FromLine'
  <2>1. in_file' = "in" /\ pc' = "bom" => file' = FileOf(input)
    BY <1>1 DEF Lines, FromLine, ParsedTo, Disk
  <2> QED BY <1>1, <2>1 DEF FromLine, ParsedTo
<1>4. MarkSeen' /\ Routed' /\ Copied'
  BY <1>1 DEF MarkSeen, Routed, Copied
<1>5. Refused'
  <2>1. ASSUME pc' = "failed", NEW f \in Formats PROVE ~ Asked(argv, f, "in", "out")
    <3>1. argv \in Seq(STRING) /\ ~ Accepted(argv)
      BY <1>1, <2>1, UtfAssumption DEF Typed
    <3> QED BY <3>1, LineRead
  <2> QED BY <1>1, <2>1 DEF Refused
<1> QED BY <1>2, <1>3, <1>4, <1>5 DEF Lines

\* check_bom(): what is refused has no mark,
LEMMA LinesBom ==
  ASSUME Typed, Lines, check_bom
  PROVE  Lines'
<1>1. /\ pc = "bom" /\ UNCHANGED <<line, file, to, off, out, wpos, buf>> /\ pc' \in {"failed", "open"}
      /\ faults' = faults \/ (faults' = faults + 1 /\ pc' = "failed")
  BY DEF check_bom
<1>2. /\ pc' = "failed" => \/ in_file \notin {"in", "out"} \/ Len(file) < 3 \/ Recognized = {}
                          \/ faults' = faults + 1
      /\ pc' = "open" => in_file \in {"in", "out"} /\ ~ (Len(file) < 3) /\ from' \in Recognized
  BY DEF check_bom
<1>3. Len(file) \in Nat
  <2> HIDE DEF Byte
  <2> QED BY DEF Typed
<1>4. Untouched' /\ FromLine' /\ Routed' /\ Copied'
  BY <1>1 DEF Lines, Untouched, FromLine, Routed, Copied, line
<1>5. MarkSeen'
  <2>1. Recognized' = Recognized
    BY <1>1 DEF Recognized
  <2> QED BY <1>1, <1>2, <1>3, <2>1 DEF MarkSeen, line
<1>6. Refused'
  <2>1. ASSUME pc' = "failed", input.format # "none", Len(FileOf(input)) > 2, NEW f \in Formats,
               Asked(argv, f, "in", "out"), faults' = 0
        PROVE  FALSE
    <3>1. in_file = "in" /\ file = FileOf(input)
      BY <1>1, <2>1, AskedKnown DEF Lines
    <3>2. Recognized # {}
      BY <2>1, <3>1, MarkKnown DEF Typed
    <3>3. faults' # faults + 1
      BY <2>1 DEF Typed
    <3> QED BY <1>2, <1>3, <2>1, <3>1, <3>2, <3>3
  <2> QED BY <1>1, <2>1 DEF Refused, line
<1> QED BY <1>4, <1>5, <1>6 DEF Lines

\* the opening of the files: it fails by a fault or for want of a name,
LEMMA LinesOpen ==
  ASSUME Typed, Lines, OpenFiles
  PROVE  Lines'
<1>1. /\ pc = "open" /\ UNCHANGED <<line, file, to, from, out, wpos, buf>>
      /\ \/ out_file # "NULL" /\ pc' = "start" /\ off' = 0
         \/ pc' = "failed" /\ faults' = faults + 1
         \/ pc' = "failed" /\ out_file = "NULL"
  BY DEF OpenFiles
<1>2. Untouched' /\ FromLine' /\ Routed' /\ Copied'
  BY <1>1 DEF Lines, Untouched, FromLine, Routed, Copied, line
<1>3. MarkSeen'
  <2>1. Recognized' = Recognized
    BY <1>1 DEF Recognized
  <2> QED BY <1>1, <2>1 DEF Lines, MarkSeen, line
<1>4. Refused'
  <2>1. ASSUME pc' = "failed", faults' = 0, NEW f \in Formats, Asked(argv, f, "in", "out")
        PROVE  FALSE
    <3>1. out_file = "out"
      BY <1>1, <2>1, AskedKnown DEF Lines
    <3>2. faults' = faults + 1 /\ faults \in Nat
      BY <1>1, <2>1, <3>1 DEF Typed
    <3> QED BY <2>1, <3>2
  <2> QED BY <1>1, <2>1 DEF Refused, line
<1> QED BY <1>2, <1>3, <1>4 DEF Lines

\* transcribe(): the whole file goes out,
LEMMA LinesCopy ==
  ASSUME Typed, Lines, transcribe
  PROVE  Lines'
<1>1. /\ pc = "start" /\ translate = 0 /\ Write(file) /\ pc' = "done"
      /\ UNCHANGED <<line, file, to, from, buf>>
  BY DEF transcribe
<1>2. Wrote(file)
  BY <1>1, WriteDoes DEF Typed
<1>3. wpos = 0 /\ from \in Formats
  BY <1>1, RecognizedAre DEF Lines, Untouched, MarkSeen
<1>4. from = to
  BY <1>1, <1>3, OneRoute DEF translate, Typed
<1>5. faults' = 0 => Written' = file
  <2>1. Written = <<>>
    <3> HIDE DEF Byte
    <3> QED BY <1>3 DEF Written, Typed
  <2>2. <<>> \o file = file
    BY ConcatEmptySeq DEF Typed
  <2> QED BY <1>2, <2>1, <2>2 DEF Wrote
<1>6. Untouched' /\ FromLine' /\ Routed' /\ Copied' /\ Refused'
  BY <1>1, <1>3, <1>4, <1>5 DEF Lines, Untouched, FromLine, Routed, Copied, Refused, line
<1>7. MarkSeen'
  <2>1. Recognized' = Recognized
    BY <1>1 DEF Recognized
  <2> QED BY <1>1, <2>1 DEF Lines, MarkSeen, line
<1> QED BY <1>6, <1>7 DEF Lines

\* the choice of a conversion: there is one unless -e was not given,
LEMMA LinesStart ==
  ASSUME Typed, Lines, StartConversion
  PROVE  Lines'
<1>1. /\ pc = "start" /\ translate # 0 /\ UNCHANGED <<line, file, to, from, off, buf>>
      /\ \/ Routes(translate) = {} /\ pc' = "crashed"
         \/ Routes(translate) # {} /\ pc' = "loop"
  BY DEF StartConversion
<1>2. from \in Formats /\ to \in Formats \union {"none"}
  BY <1>1, RecognizedAre DEF Lines, MarkSeen, Typed
<1>3. translate = Code[from] - Code[to]
  BY DEF translate
<1>4. from # to
  BY <1>1, <1>2, <1>3, OneRoute
<1>5. Routed'
  <2>1. CASE Routes(translate) = {} /\ pc' = "crashed"
    <3>1. to \notin Formats
      BY <1>1, <1>2, <1>3, <2>1, EveryPairRouted
    <3> QED BY <1>1, <1>2, <2>1, <3>1 DEF Routed
  <2>2. CASE Routes(translate) # {} /\ pc' = "loop"
    <3>1. PICK r \in Routes(translate) : TRUE
      BY <2>2
    <3>2. r = <<from, to>> /\ r[2] \in Formats
      BY <1>2, <1>3, <3>1, OneRoute DEF Routes
    <3> QED BY <1>1, <1>4, <2>2, <3>2 DEF Routed
  <2> QED BY <1>1, <2>1, <2>2
<1>6. Untouched' /\ FromLine' /\ Copied' /\ Refused'
  BY <1>1 DEF Lines, Untouched, FromLine, Copied, Refused, line
<1>7. MarkSeen'
  <2>1. Recognized' = Recognized
    BY <1>1 DEF Recognized
  <2> QED BY <1>1, <2>1 DEF Lines, MarkSeen, line
<1> QED BY <1>5, <1>6, <1>7 DEF Lines

\* and the loops change nothing that Lines speaks of.
LEMMA LinesStep ==
  ASSUME Typed, Lines, [Next]_vars
  PROVE  Lines'
<1>1. ASSUME pc = "loop", pc' \in {"loop", "done"}, UNCHANGED <<line, file, to, from>>
      PROVE  Lines'
  <2>1. Recognized' = Recognized
    BY <1>1 DEF Recognized
  <2>2. Untouched' /\ FromLine' /\ Routed' /\ Copied' /\ Refused'
    BY <1>1 DEF Lines, Untouched, FromLine, Routed, Copied, Refused, line
  <2>3. MarkSeen'
    BY <1>1, <2>1 DEF Lines, MarkSeen, line
  <2> QED BY <2>2, <2>3 DEF Lines
<1>2. ASSUME NEW b \in {"UTF16LE", "UTF16BE"}, FromUtf8(b) \/ Utf16Swap(b) \/ ToUtf8(b)
      PROVE  Lines'
  <2>1. pc = "loop" /\ UNCHANGED <<line, file, to, from, pc>>
    BY <1>2 DEF FromUtf8, Utf16Swap, ToUtf8, Turn
  <2> QED BY <2>1, <1>1
<1>3. ASSUME LoopEnds \/ \E a, b \in Formats : SecondReadFails(a, b)
      PROVE  Lines'
  <2>1. pc = "loop" /\ pc' = "done" /\ UNCHANGED <<line, file, to, from>>
    BY <1>3 DEF LoopEnds, SecondReadFails, Turn
  <2> QED BY <2>1, <1>1
<1>4. CASE Finished \/ UNCHANGED vars
  <2>1. UNCHANGED vars
    BY <1>4 DEF Finished
  <2>2. Recognized' = Recognized
    BY <2>1 DEF Recognized, vars
  <2>3. Written' = Written
    BY <2>1 DEF Written, vars
  <2>4. Untouched' /\ FromLine' /\ Routed' /\ Copied' /\ Refused'
    BY <2>1, <2>3 DEF Lines, Untouched, FromLine, Routed, Copied, Refused, vars, line
  <2>5. MarkSeen'
    BY <2>1, <2>2 DEF Lines, MarkSeen, vars, line
  <2> QED BY <2>4, <2>5 DEF Lines
<1> QED BY <1>2, <1>3, <1>4, LinesParse, LinesBom, LinesOpen, LinesCopy, LinesStart DEF Next

----------------------------------------------------------------------------
(* Between the two UTF-16 forms                                            *)

\* Bytes exchanged two by two.
LEMMA SwappedBytes ==
  ASSUME NEW bs \in Seq(Byte), Len(bs) % 2 = 0
  PROVE  /\ Swapped(bs) \in Seq(Byte) /\ Len(Swapped(bs)) = Len(bs)
         /\ \A i \in 1 .. Len(bs) : Swapped(bs)[i] = IF i % 2 = 1 THEN bs[i + 1] ELSE bs[i - 1]
<1> HIDE DEF Byte
<1>1. Len(bs) \in Nat /\ DOMAIN bs = 1 .. Len(bs)
  OBVIOUS
<1>2. ASSUME NEW i \in 1 .. Len(bs) PROVE (IF i % 2 = 1 THEN bs[i + 1] ELSE bs[i - 1]) \in Byte
  <2> DEFINE n == Len(bs)
  <2>1. n \in Nat /\ n % 2 = 0 /\ i \in 1 .. n
    BY <1>1
  <2> HIDE DEF n
  <2>2. i % 2 = 1 => i + 1 \in 1 .. n
    BY <2>1
  <2>3. i % 2 # 1 => i - 1 \in 1 .. n
    BY <2>1
  <2>4. \A j \in 1 .. n : bs[j] \in Byte
    BY DEF n
  <2> QED BY <2>2, <2>3, <2>4
<1>3. Swapped(bs) = [i \in 1 .. Len(bs) |-> IF i % 2 = 1 THEN bs[i + 1] ELSE bs[i - 1]]
  BY <1>1 DEF Swapped
<1>4. Swapped(bs) \in [1 .. Len(bs) -> Byte]
  BY <1>2, <1>3
<1> QED BY <1>1, <1>3, <1>4

\* The head of a sequence.
LEMMA HeadOf ==
  ASSUME NEW bs \in Seq(Byte), NEW n \in Nat, n <= Len(bs)
  PROVE  /\ SubSeq(bs, 1, n) \in Seq(Byte) /\ Len(SubSeq(bs, 1, n)) = n
         /\ \A i \in 1 .. n : SubSeq(bs, 1, n)[i] = bs[i]
<1> HIDE DEF Byte
<1>1. \A i \in 1 .. n : bs[i] \in Byte
  OBVIOUS
<1> DEFINE y == SubSeq(bs, 1, n)
<1>2. /\ y \in Seq(Byte)
      /\ Len(y) = IF 1 <= n THEN n - 1 + 1 ELSE 0
      /\ \A i \in 1 .. n - 1 + 1 : y[i] = bs[1 + i - 1]
  BY <1>1, SubSeqProperties
<1> HIDE DEF y
<1>3. Len(y) = n
  BY <1>2
<1>4. ASSUME NEW i \in 1 .. n PROVE y[i] = bs[i]
  <2>1. i \in 1 .. n - 1 + 1 /\ 1 + i - 1 = i
    OBVIOUS
  <2> QED BY <1>2, <2>1
<1> QED BY <1>2, <1>3, <1>4 DEF y

\* One more unit, exchanged.
LEMMA SwapGrows ==
  ASSUME NEW bs \in Seq(Byte), NEW n \in Nat, n % 2 = 0, n + 2 <= Len(bs)
  PROVE  /\ Swapped(SubSeq(bs, 1, n)) \in Seq(Byte)
         /\ <<bs[n + 2], bs[n + 1]>> \in Seq(Byte)
         /\ Swapped(SubSeq(bs, 1, n + 2)) = Swapped(SubSeq(bs, 1, n)) \o <<bs[n + 2], bs[n + 1]>>
<1> HIDE DEF Byte
<1> DEFINE x == SubSeq(bs, 1, n)
           y == SubSeq(bs, 1, n + 2)
           u == <<bs[n + 2], bs[n + 1]>>
           m == n + 2
<1>0. m \in Nat /\ m = n + 2 /\ m % 2 = 0 /\ Len(bs) \in Nat /\ n <= Len(bs) /\ m <= Len(bs)
  OBVIOUS
<1>1. x \in Seq(Byte) /\ Len(x) = n /\ \A i \in 1 .. n : x[i] = bs[i]
  BY <1>0, HeadOf
<1>2. y \in Seq(Byte) /\ Len(y) = m /\ \A i \in 1 .. m : y[i] = bs[i]
  BY <1>0, HeadOf
<1>3. u \in Seq(Byte) /\ Len(u) = 2 /\ u[1] = bs[m] /\ u[2] = bs[n + 1]
  <2>1. n + 2 \in 1 .. Len(bs) /\ n + 1 \in 1 .. Len(bs)
    BY <1>0
  <2>2. bs[n + 2] \in Byte /\ bs[n + 1] \in Byte
    BY <2>1
  <2> QED BY <2>2
<1> HIDE DEF x, y, u, m
<1> DEFINE s == Swapped(x)
           t == Swapped(y)
<1>4. s \in Seq(Byte) /\ Len(s) = n /\ \A i \in 1 .. n : s[i] = IF i % 2 = 1 THEN x[i + 1] ELSE x[i - 1]
  BY <1>1, SwappedBytes
<1>5. t \in Seq(Byte) /\ Len(t) = m /\ \A i \in 1 .. m : t[i] = IF i % 2 = 1 THEN y[i + 1] ELSE y[i - 1]
  BY <1>0, <1>2, SwappedBytes
<1> HIDE DEF s, t
<1> DEFINE z == s \o u
<1>6. /\ z \in Seq(Byte) /\ Len(z) = n + 2
      /\ \A i \in 1 .. n + 2 : z[i] = IF i <= n THEN s[i] ELSE u[i - n]
  <2>1. /\ z \in Seq(Byte) /\ Len(z) = Len(s) + Len(u)
        /\ \A i \in 1 .. Len(s) + Len(u) : z[i] = IF i <= Len(s) THEN s[i] ELSE u[i - Len(s)]
    <3>1. z = s \o u /\ s \in Seq(Byte) /\ u \in Seq(Byte)
      BY <1>3, <1>4
    <3> HIDE DEF z
    <3> QED BY <3>1, ConcatProperties
  <2> QED BY <2>1, <1>3, <1>4
<1> HIDE DEF z
<1>7. ASSUME NEW i \in 1 .. m PROVE t[i] = z[i]
  <2>1. i \in 1 .. n + 2
    BY <1>0
  <2>2. CASE i <= n
    <3>1. i \in 1 .. n
      BY <2>1, <2>2
    <3>2. i % 2 = 1 => i + 1 \in 1 .. n /\ i + 1 \in 1 .. m
      BY <1>0, <3>1
    <3>3. i % 2 # 1 => i - 1 \in 1 .. n /\ i - 1 \in 1 .. m
      BY <1>0, <3>1
    <3>4. CASE i % 2 = 1
      <4>1. t[i] = y[i + 1] /\ s[i] = x[i + 1]
        BY <3>1, <3>4, <1>4, <1>5
      <4>2. y[i + 1] = x[i + 1]
        BY <3>2, <3>4, <1>1, <1>2
      <4> QED BY <4>1, <4>2, <1>6, <2>1, <2>2
    <3>5. CASE i % 2 # 1
      <4>1. t[i] = y[i - 1] /\ s[i] = x[i - 1]
        BY <3>1, <3>5, <1>4, <1>5
      <4>2. y[i - 1] = x[i - 1]
        BY <3>3, <3>5, <1>1, <1>2
      <4> QED BY <4>1, <4>2, <1>6, <2>1, <2>2
    <3> QED BY <3>4, <3>5
  <2>3. CASE i = n + 1
    <3>1. i % 2 = 1 /\ i + 1 = m /\ m \in 1 .. m /\ ~ (i <= n) /\ i - n = 1
      BY <1>0, <2>3
    <3>2. t[i] = bs[m]
      BY <3>1, <1>2, <1>5
    <3>3. z[i] = u[1]
      BY <3>1, <2>1, <1>6
    <3> QED BY <3>2, <3>3, <1>3
  <2>4. CASE i = n + 2
    <3>1. i % 2 # 1 /\ i - 1 = n + 1 /\ n + 1 \in 1 .. m /\ ~ (i <= n) /\ i - n = 2
      BY <1>0, <2>4
    <3>2. t[i] = bs[n + 1]
      BY <3>1, <1>2, <1>5
    <3>3. z[i] = u[2]
      BY <3>1, <2>1, <1>6
    <3> QED BY <3>2, <3>3, <1>3
  <2> QED BY <2>1, <2>2, <2>3, <2>4
<1>8. t = z
  BY <1>0, <1>5, <1>6, <1>7, SeqEqual
<1> QED BY <1>3, <1>4, <1>8 DEF s, t, z, x, y, u, m

\* What the loop owes: one turn is whole units, exchanged.
InStep ==
    /\ off % 2 = 0
    /\ Written = Header(to) \o Swapped(SubSeq(file, 1, off))

Swapping ==
    /\ pc \in {"loop", "done"} /\ from # to /\ {from, to} \subseteq TwoForms
    /\ faults = 0 /\ in_file = "in" /\ input.cut = 0 /\ ~ LastLooksHigh

Swaps == Swapping => InStep

\* What the loop reads is whole units, and the last is no first half to it.
LEMMA LastIsSingle ==
  ASSUME Typed, Lines, Swapping, off < Len(file), off % 2 = 0
  PROVE  /\ off + 2 <= Len(file)
         /\ is_upper_surrogate_pair(file[off + 2] + 256 * file[off + 1]) => off + 4 <= Len(file)
<1> DEFINE v == LastUnit(input.text)
           n == Len(file)
           p == Pair(from, v)
<1>1. file = FileOf(input) /\ n > 2 /\ from \in Recognized /\ from \in TwoForms
  BY DEF Lines, FromLine, MarkSeen, Swapping
<1>2. input \in Inputs /\ input.format = from
  BY <1>1, MarkTrue DEF Typed
<1>3. EndsIn(from, file, v)
  BY <1>1, <1>2, FileEnds DEF Swapping
<1>4. /\ IsLast(v) /\ n \in Nat /\ n % 2 = 0
      /\ file[n - 1] = p[1] /\ file[n] = p[2]
  BY <1>3 DEF EndsIn
<1>5. /\ p[1] = IF from = "UTF16LE" THEN v % 256 ELSE v \div 256
      /\ p[2] = IF from = "UTF16LE" THEN v \div 256 ELSE v % 256
  BY <1>4, PairBytes DEF IsLast
<1>6. from = "UTF16LE" => ~ is_upper_surrogate_pair(v \div 256 + 256 * (v % 256))
  <2> HAVE from = "UTF16LE"
  <2>1. CASE input.text = <<>>
    <3>1. v = 65279
      BY <2>1 DEF LastUnit
    <3>2. 65279 \div 256 = 254 /\ 65279 % 256 = 255
      OBVIOUS
    <3> HIDE DEF v
    <3>3. v \div 256 + 256 * (v % 256) = 65534
      BY <3>1, <3>2
    <3> QED BY <3>3 DEF is_upper_surrogate_pair
  <2>2. CASE input.text # <<>>
    <3> DEFINE u == Standard[input.text[Len(input.text)]].utf16
    <3>1. v = u[Len(u)]
      BY <2>2 DEF LastUnit
    <3>2. ~ is_upper_surrogate_pair(Native(Reversed(Memory(u[Len(u)])), 1))
      BY <2>2 DEF Swapping, LastLooksHigh
    <3> HIDE DEF v, u
    <3>3. ~ is_upper_surrogate_pair(Native(Reversed(Memory(v)), 1))
      BY <3>1, <3>2
    <3>4. Native(Reversed(Memory(v)), 1) = v \div 256 + 256 * (v % 256)
      BY DEF Native, Reversed, Memory
    <3> QED BY <3>3, <3>4
  <2> QED BY <2>1, <2>2
<1> HIDE DEF v, n, p
<1>7. off \in Nat
  BY DEF Typed
<1>8. off < n
  BY DEF n
<1>9. off + 2 <= n /\ (off + 2 = n \/ off + 4 <= n)
  BY <1>4, <1>7, <1>8
<1>10. ASSUME off + 2 = n PROVE ~ is_upper_surrogate_pair(file[off + 2] + 256 * file[off + 1])
  <2>1. off + 1 = n - 1
    BY <1>4, <1>7, <1>10
  <2>2. file[off + 2] = p[2] /\ file[off + 1] = p[1]
    BY <2>1, <1>4, <1>10
  <2>3. CASE from = "UTF16LE"
    BY <2>2, <2>3, <1>5, <1>6
  <2>4. CASE from # "UTF16LE"
    <3>1. v \in Nat /\ ~ (55296 <= v /\ v < 56320)
      BY <1>4 DEF IsLast, IsUnit
    <3>2. (v % 256) + 256 * (v \div 256) = v
      BY <3>1
    <3>3. file[off + 2] + 256 * file[off + 1] = v
      BY <2>2, <2>4, <1>5, <3>2
    <3> QED BY <3>1, <3>3 DEF is_upper_surrogate_pair
  <2> QED BY <2>3, <2>4
<1> QED BY <1>9, <1>10 DEF n

\* The read of a whole unit, and of the one behind it.
LEMMA UnitRead ==
  ASSUME Typed, NEW g \in [1 .. 4 -> Byte], NEW k \in Nat, k + 2 <= Len(file)
  PROVE  /\ Fill(g, 1, k, 2)[1] = file[k + 1] /\ Fill(g, 1, k, 2)[2] = file[k + 2]
         /\ Fill(g, 3, k, 2)[3] = file[k + 1] /\ Fill(g, 3, k, 2)[4] = file[k + 2]
<1> HIDE DEF Byte
<1> DEFINE n == Len(file)
<1>1. DOMAIN g = 1 .. 4 /\ n \in Nat /\ k + 2 <= n
  BY DEF Typed
<1>2. \A i, j \in 1 .. 4 : Fill(g, i, k, 2)[j] =
        IF j >= i /\ j < i + 2 /\ k + (j - i) < n THEN file[k + (j - i) + 1] ELSE g[j]
  BY <1>1 DEF Fill
<1> HIDE DEF n
<1>3. 1 \in 1 .. 4 /\ 2 \in 1 .. 4 /\ 3 \in 1 .. 4 /\ 4 \in 1 .. 4 /\ k \in Nat
  OBVIOUS
<1>4. Fill(g, 1, k, 2)[1] = file[k + 1]
  <2>1. k + (1 - 1) < n /\ k + (1 - 1) + 1 = k + 1
    BY <1>1
  <2> QED BY <2>1, <1>2, <1>3
<1>5. Fill(g, 1, k, 2)[2] = file[k + 2]
  <2>1. k + (2 - 1) < n /\ k + (2 - 1) + 1 = k + 2
    BY <1>1
  <2> QED BY <2>1, <1>2, <1>3
<1>6. Fill(g, 3, k, 2)[3] = file[k + 1]
  <2>1. k + (3 - 3) < n /\ k + (3 - 3) + 1 = k + 1
    BY <1>1
  <2> QED BY <2>1, <1>2, <1>3
<1>7. Fill(g, 3, k, 2)[4] = file[k + 2]
  <2>1. k + (4 - 3) < n /\ k + (4 - 3) + 1 = k + 2
    BY <1>1
  <2> QED BY <2>1, <1>2, <1>3
<1> QED BY <1>4, <1>5, <1>6, <1>7

\* Three sequences of bytes, put together in either order.
LEMMA ThreeParts ==
  ASSUME NEW a \in Seq(Byte), NEW b \in Seq(Byte), NEW c \in Seq(Byte)
  PROVE  (a \o b) \o c = a \o (b \o c)
<1> HIDE DEF Byte
<1> QED BY ConcatAssociative

\* Header and what was exchanged so far, with the next units behind.
LEMMA InStepGrows ==
  ASSUME Typed, InStep, NEW n \in {2, 4}, off + n <= Len(file), to \in Formats,
         NEW bs,
         n = 2 => bs = <<file[off + 2], file[off + 1]>>,
         n = 4 => bs = <<file[off + 2], file[off + 1]>> \o <<file[off + 4], file[off + 3]>>
  PROVE  /\ bs \in Seq(Byte)
         /\ Written \o bs = Header(to) \o Swapped(SubSeq(file, 1, off + n))
<1> HIDE DEF Byte
<1> DEFINE h  == Header(to)
           s0 == Swapped(SubSeq(file, 1, off))
           s2 == Swapped(SubSeq(file, 1, off + 2))
           s4 == Swapped(SubSeq(file, 1, off + 4))
           u  == <<file[off + 2], file[off + 1]>>
           v  == <<file[off + 4], file[off + 3]>>
<1>1. file \in Seq(Byte) /\ off \in Nat /\ Len(file) \in Nat
  BY DEF Typed
<1>2. off % 2 = 0 /\ Written = h \o s0
  BY DEF InStep
<1>3. h \in Seq(Byte)
  BY HeaderBytes
<1>4. s0 \in Seq(Byte) /\ u \in Seq(Byte) /\ s2 = s0 \o u
  <2>1. off + 2 <= Len(file)
    BY <1>1
  <2> QED BY <2>1, <1>1, <1>2, SwapGrows
<1>5. n = 4 => v \in Seq(Byte) /\ s4 = s2 \o v
  <2> HAVE n = 4
  <2> DEFINE k == off + 2
  <2>1. k \in Nat /\ k % 2 = 0 /\ k + 2 <= Len(file) /\ k + 2 = off + 4 /\ k + 1 = off + 3
    BY <1>1, <1>2
  <2> HIDE DEF k
  <2>2. /\ <<file[k + 2], file[k + 1]>> \in Seq(Byte)
        /\ Swapped(SubSeq(file, 1, k + 2)) = Swapped(SubSeq(file, 1, k)) \o <<file[k + 2], file[k + 1]>>
    BY <1>1, <2>1, SwapGrows
  <2>3. /\ <<file[off + 4], file[off + 3]>> \in Seq(Byte)
        /\ Swapped(SubSeq(file, 1, off + 4)) = Swapped(SubSeq(file, 1, k)) \o <<file[off + 4], file[off + 3]>>
    BY <2>1, <2>2
  <2> QED BY <2>3 DEF k
<1> HIDE DEF h, s0, s2, s4, u, v
<1>6. CASE n = 2
  <2>1. bs = u /\ s2 = Swapped(SubSeq(file, 1, off + n))
    BY <1>6 DEF u, s2
  <2>2. (h \o s0) \o u = h \o (s0 \o u)
    BY <1>3, <1>4, ThreeParts
  <2> QED BY <2>1, <2>2, <1>2, <1>4 DEF h
<1>7. CASE n = 4
  <2>1. bs = u \o v /\ s4 = Swapped(SubSeq(file, 1, off + n)) /\ v \in Seq(Byte) /\ s4 = s2 \o v
    BY <1>5, <1>7 DEF u, v, s4
  <2>2. u \o v \in Seq(Byte) /\ s0 \o u \in Seq(Byte)
    BY <2>1, <1>4, ConcatProperties
  <2>3. (h \o s0) \o (u \o v) = h \o (s0 \o (u \o v))
    BY <2>2, <1>3, <1>4, ThreeParts
  <2>4. s0 \o (u \o v) = (s0 \o u) \o v
    BY <2>1, <1>4, ThreeParts
  <2> QED BY <2>1, <2>2, <2>3, <2>4, <1>2, <1>4 DEF h
<1> QED BY <1>6, <1>7

\* A turn of the loop exchanges the bytes of the units it read.
LEMMA SwapsTurn ==
  ASSUME Typed, Lines, Swaps, NEW a \in TwoForms, Utf16Swap(a), Swapping'
  PROVE  InStep'
<1> HIDE DEF Byte
<1> DEFINE one  == Fill(buf, 1, off, 2)
           up   == Reversed(one)
           pair == is_upper_surrogate_pair(Native(up, 1))
           two  == Fill(one, 3, off + 2, 2)
           low  == Reversed(<<two[3], two[4]>>)
           bs   == IF pair THEN up \o low ELSE up
           n    == IF pair THEN 4 ELSE 2
<1>1. off' = Clip(n) /\ Write(bs) /\ UNCHANGED <<line, file, to, from, pc>>
  BY DEF Utf16Swap
<1>2. pc = "loop" /\ off < Len(file)
  BY DEF Utf16Swap, Turn
<1>3. Wrote(bs)
  <2>1. one \in [1 .. 4 -> Byte]
    BY LoopReads DEF Typed
  <2>2. two \in [1 .. 4 -> Byte]
    <3> HIDE DEF one
    <3> QED BY <2>1, LoopReads
  <2> HIDE DEF one, two
  <2>3. up = <<one[2], one[1]>> /\ low = <<two[4], two[3]>>
    BY DEF Reversed
  <2>4. one[1] \in Byte /\ one[2] \in Byte /\ two[3] \in Byte /\ two[4] \in Byte
    BY <2>1, <2>2
  <2> HIDE DEF up, low
  <2>5. up \in Seq(Byte) /\ low \in Seq(Byte)
    BY <2>3, <2>4
  <2>6. up \o low \in Seq(Byte)
    BY <2>5, ConcatProperties
  <2>7. bs \in Seq(Byte)
    BY <2>5, <2>6
  <2> HIDE DEF bs
  <2> QED BY <1>1, <2>7, WriteDoes DEF Typed
<1>4. faults' = 0 /\ Swapping
  <2>1. faults' = 0
    BY DEF Swapping
  <2>2. LastLooksHigh' <=> LastLooksHigh
    BY <1>1 DEF LastLooksHigh, line
  <2>3. faults = 0
    BY <2>1, <1>3 DEF Wrote
  <2> HIDE DEF one, up, pair, two, low, bs, n
  <2> QED BY <2>1, <2>2, <2>3, <1>1 DEF Swapping, line
<1>5. InStep
  BY <1>4 DEF Swaps
<1>6. off \in Nat /\ Len(file) \in Nat /\ buf \in [1 .. 4 -> Byte] /\ off + 2 \in Nat
  BY DEF Typed
<1>7. /\ off + 2 <= Len(file)
      /\ is_upper_surrogate_pair(file[off + 2] + 256 * file[off + 1]) => off + 4 <= Len(file)
  BY <1>2, <1>4, <1>5, LastIsSingle DEF InStep
<1>8. one[1] = file[off + 1] /\ one[2] = file[off + 2]
  BY <1>6, <1>7, UnitRead
<1>9. up = <<file[off + 2], file[off + 1]>>
  <2> HIDE DEF one
  <2> QED BY <1>8 DEF Reversed
<1>10. pair <=> is_upper_surrogate_pair(file[off + 2] + 256 * file[off + 1])
  <2> HIDE DEF up
  <2>1. Native(up, 1) = file[off + 2] + 256 * file[off + 1]
    BY <1>9 DEF Native
  <2> QED BY <2>1
<1>11. pair => low = <<file[off + 4], file[off + 3]>>
  <2> HAVE pair
  <2>1. (off + 2) + 2 <= Len(file) /\ (off + 2) + 1 = off + 3 /\ (off + 2) + 2 = off + 4
    BY <1>6, <1>7, <1>10
  <2>2. one \in [1 .. 4 -> Byte]
    BY LoopReads DEF Typed
  <2> HIDE DEF one
  <2>3. two[3] = file[off + 3] /\ two[4] = file[off + 4]
    <3>1. two[3] = file[(off + 2) + 1] /\ two[4] = file[(off + 2) + 2]
      BY <1>6, <2>1, <2>2, UnitRead
    <3> QED BY <3>1, <2>1
  <2> HIDE DEF two
  <2> QED BY <2>3 DEF Reversed
<1>12. /\ n \in {2, 4} /\ off + n <= Len(file)
       /\ n = 2 => bs = <<file[off + 2], file[off + 1]>>
       /\ n = 4 => bs = <<file[off + 2], file[off + 1]>> \o <<file[off + 4], file[off + 3]>>
  <2> HIDE DEF pair, up, low
  <2>1. CASE pair
    <3>1. n = 4 /\ bs = up \o low
      BY <2>1
    <3>2. up = <<file[off + 2], file[off + 1]>> /\ low = <<file[off + 4], file[off + 3]>>
      BY <2>1, <1>9, <1>11
    <3>3. bs = <<file[off + 2], file[off + 1]>> \o <<file[off + 4], file[off + 3]>>
      BY <3>1, <3>2, Zenon
    <3>4. off + 4 <= Len(file)
      BY <2>1, <1>7, <1>10
    <3> HIDE DEF n, bs
    <3> QED BY <3>1, <3>3, <3>4
  <2>2. CASE ~ pair
    BY <2>2, <1>7, <1>9
  <2> QED BY <2>1, <2>2
<1>13. to \in Formats
  BY <1>2 DEF Lines, Routed
<1> HIDE DEF one, up, pair, two, low, bs, n
<1>14. Written \o bs = Header(to) \o Swapped(SubSeq(file, 1, off + n))
  BY <1>5, <1>12, <1>13, InStepGrows
<1>15. off' = off + n
  BY <1>1, <1>6, <1>12 DEF Clip
<1>16. Written' = Written \o bs
  BY <1>3, <1>4 DEF Wrote
<1>17. off' % 2 = 0
  <2>1. off % 2 = 0
    BY <1>5 DEF InStep
  <2>2. (off + 2) % 2 = 0 /\ (off + 4) % 2 = 0
    BY <2>1, <1>6
  <2>3. off' = off + 2 \/ off' = off + 4
    BY <1>12, <1>15
  <2> QED BY <2>2, <2>3
<1> QED BY <1>1, <1>14, <1>15, <1>16, <1>17 DEF InStep

\* The mark goes out before the first turn.
LEMMA SwapsStart ==
  ASSUME Typed, Lines, StartConversion, Swapping'
  PROVE  InStep'
<1> HIDE DEF Byte
<1>1. /\ pc = "start" /\ UNCHANGED <<line, file, to, from, off, buf>>
      /\ \/ Routes(translate) = {} /\ pc' = "crashed"
         \/ pc' = "loop" /\ \E r \in Routes(translate) : Write(Header(r[2]))
  BY DEF StartConversion
<1>2. off = 0 /\ wpos = 0
  BY <1>1 DEF Lines, Untouched
<1>3. from \in Formats /\ to \in Formats /\ translate = Code[from] - Code[to] /\ faults' = 0
      /\ pc' # "crashed"
  BY <1>1 DEF Swapping, TwoForms, Formats, translate
<1>4. PICK r \in Routes(translate) : Write(Header(r[2]))
  BY <1>1, <1>3
<1>5. r = <<from, to>>
  BY <1>3, <1>4, OneRoute
<1>6. Write(Header(to))
  BY <1>4, <1>5
<1>7. Header(to) \in Seq(Byte)
  BY <1>3, HeaderBytes
<1>8. Wrote(Header(to))
  BY <1>6, <1>7, WriteDoes DEF Typed
<1>9. Written' = Header(to)
  <2>1. Written = <<>>
    BY <1>2 DEF Written, Typed
  <2>2. Written' = Written \o Header(to)
    BY <1>3, <1>8 DEF Wrote
  <2>3. <<>> \o Header(to) = Header(to)
    BY <1>7, ConcatEmptySeq
  <2> QED BY <2>1, <2>2, <2>3
<1>10. SubSeq(file, 1, 0) \in Seq(Byte) /\ Len(SubSeq(file, 1, 0)) = 0
  BY HeadOf DEF Typed
<1>11. Swapped(SubSeq(file, 1, 0)) = <<>>
  <2> DEFINE x == SubSeq(file, 1, 0)
  <2>1. x \in Seq(Byte) /\ Len(x) = 0 /\ Len(x) % 2 = 0
    BY <1>10
  <2> HIDE DEF x
  <2>2. Swapped(x) \in Seq(Byte) /\ Len(Swapped(x)) = 0
    BY <2>1, SwappedBytes
  <2> QED BY <2>2, EmptySeq DEF x
<1>12. Header(to) \o <<>> = Header(to)
  BY <1>7, ConcatEmptySeq
<1>13. InStep' <=> off' % 2 = 0 /\ Written' = Header(to) \o Swapped(SubSeq(file, 1, 0))
  BY <1>1, <1>2 DEF InStep
<1>14. off' % 2 = 0
  BY <1>1, <1>2
<1> QED BY <1>9, <1>11, <1>12, <1>13, <1>14

\* Every step keeps the two files in step.
LEMMA SwapsStep ==
  ASSUME Typed, Lines, Swaps, [Next]_vars
  PROVE  Swaps'
<1> SUFFICES ASSUME Swapping' PROVE InStep'
  BY DEF Swaps
<1>1. ASSUME pc \in {"loop", "done"},
             UNCHANGED <<line, file, to, from, off, out, wpos>>, faults' = 0 => faults = 0
      PROVE  InStep'
  <2>1. LastLooksHigh' <=> LastLooksHigh
    BY <1>1 DEF LastLooksHigh, line
  <2>2. Swapping
    BY <1>1, <2>1 DEF Swapping, line
  <2>3. Written' = Written
    BY <1>1 DEF Written
  <2> QED BY <1>1, <2>2, <2>3 DEF Swaps, InStep
<1>2. CASE parse_args
  BY <1>2 DEF parse_args, Swapping
<1>3. CASE check_bom
  BY <1>3 DEF check_bom, Swapping
<1>4. CASE OpenFiles
  BY <1>4 DEF OpenFiles, Swapping
<1>5. CASE transcribe
  <2>1. from \in Formats /\ from' = from /\ to' = to /\ translate = 0
    BY <1>5, RecognizedAre DEF transcribe, Lines, MarkSeen
  <2>2. from = to
    BY <2>1, OneRoute DEF translate, Typed
  <2> QED BY <2>1, <2>2 DEF Swapping
<1>6. CASE StartConversion
  BY <1>6, SwapsStart
<1>7. ASSUME NEW b \in {"UTF16LE", "UTF16BE"}, FromUtf8(b) \/ ToUtf8(b)
      PROVE  InStep'
  <2>1. /\ UNCHANGED <<to, from>>
        /\ <<"UTF8", b>> \in Routes(translate) \/ <<b, "UTF8">> \in Routes(translate)
    BY <1>7 DEF FromUtf8, ToUtf8, Turn
  <2>2. from \in Formats /\ to \in Formats /\ translate = Code[from] - Code[to]
    BY <2>1 DEF Swapping, TwoForms, Formats, translate
  <2>3. <<"UTF8", b>> = <<from, to>> \/ <<b, "UTF8">> = <<from, to>>
    BY <2>1, <2>2, OneRoute
  <2>4. from = "UTF8" \/ to = "UTF8"
    BY <2>3
  <2> QED BY <2>1, <2>4 DEF Swapping, TwoForms
<1>8. ASSUME NEW b \in {"UTF16LE", "UTF16BE"}, Utf16Swap(b)
      PROVE  InStep'
  <2>1. b \in TwoForms
    BY DEF TwoForms
  <2> QED BY <1>8, <2>1, SwapsTurn
<1>9. CASE LoopEnds
  <2>1. /\ pc = "loop" /\ UNCHANGED <<line, file, to, from, off, out, wpos>>
        /\ faults' = faults \/ faults' = faults + 1
    BY <1>9 DEF LoopEnds
  <2>2. faults' = 0 => faults = 0
    BY <2>1 DEF Typed
  <2> QED BY <2>1, <2>2, <1>1
<1>10. CASE Finished \/ UNCHANGED vars
  <2>1. UNCHANGED vars
    BY <1>10 DEF Finished
  <2>2. /\ pc \in {"loop", "done"} /\ UNCHANGED <<line, file, to, from, off, out, wpos>>
        /\ faults' = faults
    BY <2>1 DEF vars, Swapping
  <2> QED BY <2>2, <1>1
<1>11. ASSUME NEW a \in Formats, NEW b \in Formats, SecondReadFails(a, b)
       PROVE  InStep'
  <2>1. faults' = faults + 1 /\ faults \in Nat
    BY <1>11 DEF SecondReadFails, Typed
  <2>2. faults' # 0
    BY <2>1
  <2> QED BY <2>2 DEF Swapping
<1> QED BY <1>2, <1>3, <1>4, <1>5, <1>6, <1>7, <1>8, <1>9, <1>10, <1>11 DEF Next

----------------------------------------------------------------------------
(* To and from UTF-8: the codecs against the standard                      *)

\* The glyph made for a code point is its encoding.
LEMMA GlyphIs8 ==
  ASSUME NEW cp \in DOMAIN Standard
  PROVE  code_point_to_utf8_glyph(cp) = Encoded("UTF8", cp)
<1>1. Scalar(cp) /\ Standard[cp].utf8 = Standard8(cp)
  BY UtfAssumption
<1>2. cp \in Nat /\ cp < 1114112
  BY <1>1 DEF Scalar
<1>3. Encoded("UTF8", cp) = Standard8(cp)
  BY <1>1 DEF Encoded
<1>4. cp < 128 => cp % 256 = cp
  BY <1>2
<1>5. cp < 2048 => (cp \div 64) % 32 = cp \div 64
  BY <1>2
<1>6. cp < 65536 => (cp \div 4096) % 16 = cp \div 4096
  BY <1>2
<1>7. (cp \div 262144) % 8 = cp \div 262144
  BY <1>2
<1>8. CASE cp < 128
  <2>1. code_point_to_utf8_glyph(cp) = <<cp % 256>>
    BY <1>2, <1>8 DEF code_point_to_utf8_glyph, utf8_glyph_size_of_code_point, utf8_one_byte_encode
  <2> QED BY <2>1, <1>3, <1>4, <1>8 DEF Standard8
<1>9. CASE 128 <= cp /\ cp < 2048
  <2>1. code_point_to_utf8_glyph(cp) = <<192 + ((cp \div 64) % 32), 128 + (cp % 64)>>
    BY <1>2, <1>9 DEF code_point_to_utf8_glyph, utf8_glyph_size_of_code_point, utf8_two_byte_encode, Cont
  <2> QED BY <2>1, <1>2, <1>3, <1>5, <1>9 DEF Standard8
<1>10. CASE 2048 <= cp /\ cp < 65536
  <2>1. code_point_to_utf8_glyph(cp) =
          <<224 + ((cp \div 4096) % 16), 128 + ((cp \div 64) % 64), 128 + (cp % 64)>>
    BY <1>2, <1>10 DEF code_point_to_utf8_glyph, utf8_glyph_size_of_code_point, utf8_three_byte_encode, Cont
  <2> QED BY <2>1, <1>2, <1>3, <1>6, <1>10 DEF Standard8
<1>11. CASE 65536 <= cp
  <2>1. code_point_to_utf8_glyph(cp) =
          <<240 + ((cp \div 262144) % 8), 128 + ((cp \div 4096) % 64),
            128 + ((cp \div 64) % 64), 128 + (cp % 64)>>
    BY <1>2, <1>11 DEF code_point_to_utf8_glyph, utf8_glyph_size_of_code_point, utf8_four_byte_encode, Cont
  <2> QED BY <2>1, <1>2, <1>3, <1>7, <1>11 DEF Standard8
<1> QED BY <1>2, <1>8, <1>9, <1>10, <1>11

\* The same in the two forms of UTF-16.
Glyph16(b, cp) == IF b = "UTF16LE" THEN code_point_to_utf16le_glyph(cp)
                  ELSE code_point_to_utf16be_glyph(cp)

\* code_point_to_utf16le_glyph() and its mirror write what the standard prints.
LEMMA GlyphIs16 ==
  ASSUME NEW b \in TwoForms, NEW cp \in DOMAIN Standard
  PROVE  Glyph16(b, cp) = Encoded(b, cp)
<1> DEFINE u == Standard[cp].utf16
<1>1. \/ cp < 65536 /\ Len(u) = 1 /\ u[1] = cp
      \/ /\ cp >= 65536 /\ Len(u) = 2
         /\ u[1] = 55296 + ((cp - 65536) \div 1024) /\ u[2] = 56320 + (cp % 1024)
  BY StandardUnits
<1>2. Encoded(b, cp) = IF Len(u) = 1 THEN Pair(b, u[1]) ELSE Pair(b, u[1]) \o Pair(b, u[2])
  BY DEF Encoded, TwoForms
<1>3. cp \in Nat /\ cp < 1114112
  BY StandardBytes DEF Scalar
<1> HIDE DEF u
<1>4. \A v : /\ Pair("UTF16LE", v) = Memory(v)
             /\ Pair("UTF16BE", v) = Reversed(Memory(v))
  BY DEF Pair, Memory, Reversed
<1>5. CASE cp < 65536
  <2>1. Upper(cp) = cp /\ ~ is_code_point_surrogate(cp)
    BY <1>3, <1>5 DEF Upper, is_code_point_surrogate
  <2>2. Encoded(b, cp) = Pair(b, cp)
    BY <1>1, <1>2, <1>3, <1>5
  <2> QED BY <2>1, <2>2, <1>4
        DEF Glyph16, TwoForms, code_point_to_utf16le_glyph, code_point_to_utf16be_glyph
<1>6. CASE cp >= 65536
  <2>1. is_code_point_surrogate(cp)
    BY <1>3, <1>6 DEF is_code_point_surrogate
  <2>2. Upper(cp) = u[1]
    <3>1. ((cp - 65536) \div 1024 + 55296) % 65536 = 55296 + ((cp - 65536) \div 1024)
      BY <1>3, <1>6
    <3> QED BY <3>1, <2>1, <1>1, <1>3, <1>6 DEF Upper
  <2>3. Lower(cp) = u[2]
    BY <2>1, <1>1, <1>3, <1>6 DEF Lower
  <2>4. Encoded(b, cp) = Pair(b, u[1]) \o Pair(b, u[2])
    BY <1>1, <1>2, <1>3, <1>6
  <2> QED BY <2>1, <2>2, <2>3, <2>4, <1>4
        DEF Glyph16, TwoForms, code_point_to_utf16le_glyph, code_point_to_utf16be_glyph
<1> QED BY <1>3, <1>5, <1>6

\* A buffer that begins with the encoding of a code point is decoded to it, and
\* its first byte announces the rest.
Begins(g, w) == \A j \in 1 .. Len(w) : g[j] = w[j]

\* The loop decodes what the standard encoded: how many bytes, and which code point.
LEMMA GlyphRead8 ==
  ASSUME NEW cp \in DOMAIN Standard, NEW g \in [1 .. 4 -> Byte], Begins(g, Encoded("UTF8", cp))
  PROVE  /\ utf8_decode(g) = cp
         /\ remaining_utf8_bytes(g[1]) = Len(Encoded("UTF8", cp)) - 1
         /\ Len(Encoded("UTF8", cp)) \in 1 .. 4
<1> DEFINE w == Encoded("UTF8", cp)
           a == g[1]
           b == g[2]
           c == g[3]
           d == g[4]
<1>1. Scalar(cp) /\ StandardCase(cp, w)
  BY StandardBytes DEF Encoded
<1>2. cp \in Nat /\ cp < 1114112
  BY <1>1 DEF Scalar
<1>3. \A j \in 1 .. Len(w) : g[j] = w[j]
  BY DEF Begins
<1> HIDE DEF w
<1>4. CASE cp < 128 /\ Len(w) = 1 /\ w[1] = cp
  <2>1. a = cp
    BY <1>3, <1>4
  <2> HIDE DEF a
  <2>2. remaining_utf8_bytes(a) = 0
    BY <2>1, <1>2, <1>4 DEF remaining_utf8_bytes
  <2>3. utf8_decode(g) = a
    BY <2>2 DEF utf8_decode, utf8_one_byte_decode, a
  <2> QED BY <2>1, <2>2, <2>3, <1>4 DEF a, w
<1>5. CASE 128 <= cp /\ cp < 2048 /\ Len(w) = 2
           /\ w[1] = 192 + (cp \div 64) /\ w[2] = 128 + (cp % 64)
  <2>1. a = 192 + (cp \div 64) /\ b = 128 + (cp % 64)
    BY <1>3, <1>5
  <2> HIDE DEF a, b
  <2>2. remaining_utf8_bytes(a) = 1
    BY <2>1, <1>2, <1>5 DEF remaining_utf8_bytes
  <2>3. utf8_decode(g) = (a % 32) * 64 + (b % 64)
    BY <2>2 DEF utf8_decode, utf8_two_byte_decode, a, b
  <2>4. a % 32 = cp \div 64 /\ b % 64 = cp % 64
    BY <2>1, <1>2, <1>5
  <2>5. (cp \div 64) * 64 + (cp % 64) = cp
    BY <1>2
  <2>6. utf8_decode(g) = cp
    BY <2>3, <2>4, <2>5
  <2> QED BY <2>2, <2>6, <1>5 DEF a, w
<1>6. CASE 2048 <= cp /\ cp < 65536 /\ Len(w) = 3 /\ w[1] = 224 + (cp \div 4096)
           /\ w[2] = 128 + ((cp \div 64) % 64) /\ w[3] = 128 + (cp % 64)
  <2>1. a = 224 + (cp \div 4096) /\ b = 128 + ((cp \div 64) % 64) /\ c = 128 + (cp % 64)
    BY <1>3, <1>6
  <2> HIDE DEF a, b, c
  <2>2. remaining_utf8_bytes(a) = 2
    BY <2>1, <1>2, <1>6 DEF remaining_utf8_bytes
  <2>3. utf8_decode(g) = (a % 16) * 4096 + (b % 64) * 64 + (c % 64)
    BY <2>2 DEF utf8_decode, utf8_three_byte_decode, a, b, c
  <2>4. a % 16 = cp \div 4096 /\ b % 64 = (cp \div 64) % 64 /\ c % 64 = cp % 64
    BY <2>1, <1>2, <1>6
  <2>5. (cp \div 4096) * 4096 + ((cp \div 64) % 64) * 64 + (cp % 64) = cp
    BY <1>2
  <2>6. utf8_decode(g) = cp
    BY <2>3, <2>4, <2>5
  <2> QED BY <2>2, <2>6, <1>6 DEF a, w
<1>7. CASE 65536 <= cp /\ Len(w) = 4 /\ w[1] = 240 + (cp \div 262144)
           /\ w[2] = 128 + ((cp \div 4096) % 64)
           /\ w[3] = 128 + ((cp \div 64) % 64) /\ w[4] = 128 + (cp % 64)
  <2>1. a = 240 + (cp \div 262144) /\ b = 128 + ((cp \div 4096) % 64)
        /\ c = 128 + ((cp \div 64) % 64) /\ d = 128 + (cp % 64)
    BY <1>3, <1>7
  <2> HIDE DEF a, b, c, d
  <2>2. remaining_utf8_bytes(a) = 3
    BY <2>1, <1>2, <1>7 DEF remaining_utf8_bytes
  <2>3. utf8_decode(g) = (a % 8) * 262144 + (b % 64) * 4096 + (c % 64) * 64 + (d % 64)
    BY <2>2 DEF utf8_decode, utf8_four_byte_decode, a, b, c, d
  <2>4. a % 8 = cp \div 262144 /\ b % 64 = (cp \div 4096) % 64
        /\ c % 64 = (cp \div 64) % 64 /\ d % 64 = cp % 64
    BY <2>1, <1>2, <1>7
  <2>5. (cp \div 262144) * 262144 + ((cp \div 4096) % 64) * 4096
        + ((cp \div 64) % 64) * 64 + (cp % 64) = cp
    <3> DEFINE q1 == cp \div 64
               q2 == cp \div 4096
               q3 == cp \div 262144
    <3>1. cp = 64 * q1 + (cp % 64) /\ q1 \in Nat /\ cp % 64 \in Nat
      BY <1>2
    <3>2. q2 = q1 \div 64 /\ q3 = q2 \div 64 /\ q2 \in Nat /\ q3 \in Nat
      BY <1>2
    <3> HIDE DEF q1, q2, q3
    <3>3. q1 = 64 * q2 + (q1 % 64) /\ q1 % 64 \in Nat
      BY <3>1, <3>2
    <3>4. q2 = 64 * q3 + (q2 % 64) /\ q2 % 64 \in Nat
      BY <3>2
    <3>5. q3 * 262144 + (q2 % 64) * 4096 + (q1 % 64) * 64 + (cp % 64) = cp
      BY <1>2, <3>1, <3>2, <3>3, <3>4
    <3> QED BY <3>5 DEF q1, q2, q3
  <2>6. utf8_decode(g) = cp
    BY <2>3, <2>4, <2>5
  <2> QED BY <2>2, <2>6, <1>7 DEF a, w
<1> QED BY <1>1, <1>4, <1>5, <1>6, <1>7 DEF StandardCase

\* The units of a code point are read back, where its first half is seen.
LEMMA UnitsRead ==
  ASSUME NEW cp \in DOMAIN Standard, ~ Edge(cp)
  PROVE  \/ /\ Len(Standard[cp].utf16) = 1 /\ IsUnit(Standard[cp].utf16[1])
            /\ ~ is_upper_surrogate_pair(Standard[cp].utf16[1])
            /\ \A x : utf16_glyph_to_code_point(Standard[cp].utf16[1], x) = cp
         \/ /\ Len(Standard[cp].utf16) = 2
            /\ IsUnit(Standard[cp].utf16[1]) /\ IsUnit(Standard[cp].utf16[2])
            /\ is_upper_surrogate_pair(Standard[cp].utf16[1])
            /\ utf16_glyph_to_code_point(Standard[cp].utf16[1], Standard[cp].utf16[2]) = cp
<1> DEFINE u == Standard[cp].utf16
<1>1. \/ cp < 65536 /\ Len(u) = 1 /\ u[1] = cp /\ IsLast(cp)
      \/ /\ cp >= 65536 /\ Len(u) = 2
         /\ u[1] = 55296 + ((cp - 65536) \div 1024) /\ u[2] = 56320 + (cp % 1024)
         /\ IsUnit(u[1]) /\ IsLast(u[2])
         /\ u[1] >= 55296 /\ u[1] < 56320
  BY StandardUnits
<1>2. cp \in Nat /\ cp < 1114112
  BY StandardBytes DEF Scalar
<1>3. is_code_point_surrogate(cp) => u[1] # 55296 /\ u[1] # 56319
  BY DEF Edge
<1> DEFINE x == u[1]
           y == u[2]
<1> HIDE DEF u
<1>4. CASE cp < 65536 /\ Len(u) = 1 /\ x = cp /\ IsLast(cp)
  <2> HIDE DEF x
  <2>1. ~ is_upper_surrogate_pair(x) /\ IsUnit(x)
    BY <1>4 DEF IsLast, IsUnit, is_upper_surrogate_pair
  <2>2. \A z : utf16_glyph_to_code_point(x, z) = cp
    BY <2>1, <1>4 DEF utf16_glyph_to_code_point
  <2> QED BY <2>1, <2>2, <1>4 DEF x, u
<1>5. CASE cp >= 65536
  <2>1. /\ x = 55296 + ((cp - 65536) \div 1024) /\ y = 56320 + (cp % 1024)
        /\ IsUnit(x) /\ IsUnit(y) /\ x >= 55296 /\ x < 56320 /\ x # 55296 /\ x # 56319 /\ Len(u) = 2
    BY <1>1, <1>2, <1>3, <1>5 DEF IsLast, is_code_point_surrogate
  <2> HIDE DEF x, y
  <2>2. is_upper_surrogate_pair(x)
    BY <2>1 DEF is_upper_surrogate_pair, IsUnit
  <2>3. 65536 + (x - 55296) * 1024 + (y - 56320) = cp
    BY <2>1, <1>2, <1>5
  <2>4. utf16_glyph_to_code_point(x, y) = cp
    BY <2>2, <2>3 DEF utf16_glyph_to_code_point
  <2> QED BY <2>1, <2>2, <2>4 DEF x, y, u
<1> QED BY <1>1, <1>2, <1>4, <1>5

\* A unit read from the file and put in the machine's order is the unit.
Ordered(a, p) == IF a = "UTF16BE" THEN Reversed(p) ELSE p

\* A unit read in the order of its bytes.
LEMMA OrderedUnit ==
  ASSUME NEW a \in TwoForms, NEW u, IsUnit(u)
  PROVE  Native(Ordered(a, <<Pair(a, u)[1], Pair(a, u)[2]>>), 1) = u
<1>1. u \in Nat
  BY DEF IsUnit
<1>2. (u % 256) + 256 * (u \div 256) = u
  BY <1>1
<1>3. CASE a = "UTF16LE"
  BY <1>2, <1>3 DEF Native, Ordered, Pair
<1>4. CASE a = "UTF16BE"
  BY <1>2, <1>4 DEF Native, Ordered, Pair, Reversed
<1> QED BY <1>3, <1>4 DEF TwoForms

----------------------------------------------------------------------------
(* To and from UTF-8: the text                                             *)

\* A sequence heads itself.
LEMMA HeadsSelf ==
  ASSUME NEW a \in Seq(Byte)
  PROVE  Heads(a, a)
<1> HIDE DEF Byte
<1>1. Len(a) \in Nat
  OBVIOUS
<1> QED BY <1>1 DEF Heads

\* The encoding of the first code points heads that of more of them.
LEMMA EncodedGrows ==
  ASSUME NEW f \in Formats, NEW text \in Seq(DOMAIN Standard),
         NEW k \in 0 .. Len(text), NEW m \in 0 .. Len(text), k <= m
  PROVE  Heads(EncodedTo(f, text, k), EncodedTo(f, text, m))
<1> DEFINE N == Len(text)
           E(n) == EncodedTo(f, text, n)
           D == {n \in 0 .. N : k <= n => Heads(E(k), E(n))}
<1>1. N \in Nat /\ \A i \in 1 .. N : text[i] \in DOMAIN Standard
  OBVIOUS
<1>2. \A i \in 1 .. N : Encoded(f, text[i]) \in Seq(Byte)
  BY <1>1, EncodedPoint
<1>3. \A n \in 0 .. N : EncodedSoFar(f, text, n)
  BY EncodedSteps
<1>4. \A n \in 0 .. N : E(n) \in Seq(Byte)
  BY <1>3 DEF EncodedSoFar
<1>5. k \in 0 .. N /\ m \in 0 .. N
  OBVIOUS
<1> HIDE DEF N, Byte
<1>6. 0 \in D
  <2>1. k <= 0 => k = 0
    BY <1>5
  <2>2. Heads(E(0), E(0))
    BY <1>1, <1>4, HeadsSelf
  <2> QED BY <2>1, <2>2, <1>1
<1>7. ASSUME NEW n \in 0 .. N, n \in D, n < N PROVE n + 1 \in D
  <2>1. n + 1 \in 1 .. N /\ n + 1 \in 0 .. N /\ (n + 1) - 1 = n /\ n + 1 > 0
    BY <1>7, <1>1
  <2>2. E(n + 1) = E(n) \o Encoded(f, text[n + 1])
    BY <2>1, <1>3 DEF EncodedSoFar
  <2>3. Encoded(f, text[n + 1]) \in Seq(Byte)
    BY <2>1, <1>2
  <2>4. CASE k = n + 1
    <3>1. Heads(E(n + 1), E(n + 1))
      BY <2>1, <1>4, HeadsSelf
    <3> QED BY <3>1, <2>1, <2>4
  <2>5. CASE k <= n
    <3>1. Heads(E(k), E(n)) /\ E(k) \in Seq(Byte)
      BY <1>4, <1>5, <1>7, <2>5
    <3>2. Heads(E(k), E(n + 1))
      <4> DEFINE x == E(k)
                 y == E(n)
                 e == Encoded(f, text[n + 1])
      <4>1. x \in Seq(Byte) /\ Heads(x, y) /\ e \in Seq(Byte) /\ E(n + 1) = y \o e
        BY <3>1, <2>2, <2>3
      <4> HIDE DEF x, y, e, E
      <4>2. Heads(x, y \o e)
        BY <4>1, HeadsAppend
      <4> QED BY <4>1, <4>2 DEF x
    <3> QED BY <3>2, <2>1
  <2>6. k <= n + 1 => k <= n \/ k = n + 1
    BY <1>5, <1>7, <1>1
  <2> QED BY <2>1, <2>4, <2>5, <2>6
<1>8. 0 .. N \subseteq D
  <2> HIDE DEF D
  <2> QED BY <1>1, <1>6, <1>7, UpTo
<1> QED BY <1>5, <1>8

\* Where the encoding of the next code point lies.
PieceAt(e, all, n) ==
    /\ e \in Seq(Byte) /\ Len(e) \in Nat /\ Len(e) > 0 /\ n + Len(e) <= Len(all)
    /\ \A j \in 1 .. Len(e) : all[n + j] = e[j]

\* The encoding of a code point lies behind those of the earlier ones.
LEMMA NextPiece ==
  ASSUME NEW f \in Formats, NEW text \in Seq(DOMAIN Standard),
         NEW k \in 0 .. Len(text), k < Len(text)
  PROVE  /\ Len(EncodedTo(f, text, k + 1)) =
              Len(EncodedTo(f, text, k)) + Len(Encoded(f, text[k + 1]))
         /\ PieceAt(Encoded(f, text[k + 1]), EncodedTo(f, text, Len(text)), Len(EncodedTo(f, text, k)))
<1> DEFINE N == Len(text)
           x == EncodedTo(f, text, k)
           y == EncodedTo(f, text, k + 1)
           z == EncodedTo(f, text, N)
           e == Encoded(f, text[k + 1])
<1>1. /\ N \in Nat /\ k + 1 \in 0 .. N /\ k + 1 \in 1 .. N /\ k + 1 <= N /\ k + 1 > 0
      /\ (k + 1) - 1 = k /\ N \in 0 .. N /\ k \in 0 .. N
  OBVIOUS
<1>2. EncodedSoFar(f, text, k) /\ EncodedSoFar(f, text, k + 1)
  BY <1>1, EncodedSteps
<1>3. x \in Seq(Byte) /\ y = x \o e
  BY <1>1, <1>2 DEF EncodedSoFar
<1>4. text[k + 1] \in DOMAIN Standard
  BY <1>1
<1>5. e \in Seq(Byte) /\ Len(e) \in Nat \ {0}
  BY <1>4, EncodedPoint
<1>6. Heads(y, z)
  BY <1>1, EncodedGrows
<1> HIDE DEF N, x, y, z, e, Byte
<1>7. /\ Len(x) \in Nat /\ Len(y) = Len(x) + Len(e)
      /\ \A i \in 1 .. Len(x) + Len(e) : y[i] = IF i <= Len(x) THEN x[i] ELSE e[i - Len(x)]
  BY <1>3, <1>5, ConcatProperties
<1>8. Len(z) >= Len(y) /\ \A i \in 1 .. Len(y) : z[i] = y[i]
  BY <1>6 DEF Heads
<1>9. ASSUME NEW j \in 1 .. Len(e) PROVE z[Len(x) + j] = e[j]
  <2> DEFINE a == Len(x)
             b == Len(e)
  <2>1. a \in Nat /\ b \in Nat /\ j \in 1 .. b /\ Len(y) = a + b
    BY <1>5, <1>7
  <2>2. a + j \in 1 .. a + b /\ ~ (a + j <= a) /\ (a + j) - a = j
    BY <2>1
  <2>3. y[a + j] = e[j]
    BY <2>2, <1>7
  <2>4. z[a + j] = y[a + j]
    BY <2>1, <2>2, <1>8
  <2> QED BY <2>3, <2>4
<1>10. Len(z) \in Nat
  BY <1>6 DEF Heads
<1>11. PieceAt(e, z, Len(x))
  BY <1>5, <1>7, <1>8, <1>9, <1>10 DEF PieceAt
<1> QED BY <1>7, <1>11 DEF N, x, y, z, e

\* The pieces of the output, one after the other.
Piece(f, text, lost, j) ==
    IF j \in lost THEN <<>> ELSE IF j = 0 THEN Header(f) ELSE Encoded(f, text[j])

WithoutSoFar(f, text, lost, k) ==
    /\ Without(f, text, lost, k) \in Seq(Byte)
    /\ k = 0 => Without(f, text, lost, k) = Piece(f, text, lost, 0)
    /\ k > 0 => Without(f, text, lost, k) = Without(f, text, lost, k - 1) \o Piece(f, text, lost, k)

\* The output obeys its recursion too.
LEMMA WithoutSteps ==
  ASSUME NEW f \in Formats, NEW text \in Seq(DOMAIN Standard), NEW lost, NEW k \in 0 .. Len(text)
  PROVE  WithoutSoFar(f, text, lost, k)
<1> DEFINE N == Len(text)
           S == Seq(Byte)
           P(j) == Piece(f, text, lost, j)
           b == P(0)
           Add(s, j) == s \o P(j)
           Rec(h) == [j \in 0 .. N |-> IF j = 0 THEN b ELSE Add(h[j - 1], j)]
           g == [j \in 1 .. N |-> [s \in S |-> Add(s, j)]]
           cat == CHOOSE h : h = Rec(h)
<1>1. N \in Nat /\ \A j \in 1 .. N : text[j] \in DOMAIN Standard
  OBVIOUS
<1>2. \A n \in 0 .. N : Without(f, text, lost, n) = cat[n]
  BY DEF Without, Piece
<1>3. \A j \in 0 .. N : P(j) \in S
  <2> TAKE j \in 0 .. N
  <2>1. <<>> \in Seq(Byte)
    OBVIOUS
  <2>2. Header(f) \in Seq(Byte)
    BY HeaderBytes
  <2>3. j # 0 => Encoded(f, text[j]) \in Seq(Byte)
    <3> HAVE j # 0
    <3>1. j \in 1 .. N
      BY <1>1
    <3> QED BY <3>1, <1>1, EncodedPoint
  <2> HIDE DEF Byte
  <2> QED BY <2>1, <2>2, <2>3 DEF Piece
<1> HIDE DEF P, N
<1>4. \A s \in S, j \in 1 .. N : Add(s, j) \in S
  <2> TAKE s \in S, j \in 1 .. N
  <2>1. j \in 0 .. N
    BY <1>1
  <2>2. P(j) \in S
    BY <2>1, <1>3
  <2> HIDE DEF Byte
  <2> QED BY <2>2, ConcatProperties
<1>0. b \in S /\ 0 \in 0 .. N
  BY <1>1, <1>3
<1> HIDE DEF b, S, Add
<1>5. g \in [1 .. N -> [S -> S]]
  BY <1>4
<1>6. \E h : h = Rec(h)
  <2> HIDE DEF g
  <2> OfSteps(g, N, S)
    BY <1>5 DEF OfSteps
  <2> PICK h : Taken(h, N, S, b, g)
    BY <1>0, <1>1, StepByStep
  <2>1. h \in [0 .. N -> S] /\ h[0] = b /\ \A n \in 1 .. N : h[n] = g[n][h[n - 1]]
    BY DEF Taken
  <2>2. \A n \in 1 .. N : h[n - 1] \in S
    BY <2>1, <1>1
  <2>3. \A n \in 1 .. N : h[n] = Add(h[n - 1], n)
    BY <2>1, <2>2 DEF g
  <2>4. h = Rec(h)
    BY <2>1, <2>3, <1>1
  <2> QED BY <2>4
<1>7. cat = Rec(cat)
  BY <1>6
<1> HIDE DEF cat
<1>8. cat[0] = b
  BY <1>7, <1>1
<1>9. \A n \in 1 .. N : cat[n] = Add(cat[n - 1], n)
  BY <1>7, <1>1
<1> DEFINE D == {n \in 0 .. N : cat[n] \in S}
<1>10. ASSUME NEW n \in 0 .. N, n \in D, n < N PROVE n + 1 \in D
  <2>1. n + 1 \in 1 .. N /\ n + 1 \in 0 .. N /\ (n + 1) - 1 = n
    BY <1>10, <1>1
  <2>2. cat[n + 1] \in S
    BY <2>1, <1>4, <1>9, <1>10
  <2> QED BY <2>1, <2>2
<1>11. 0 \in D
  BY <1>8, <1>0
<1> HIDE DEF D
<1>12. 0 .. N \subseteq D
  BY <1>1, <1>10, <1>11, UpTo
<1>13. k \in 0 .. N
  BY DEF N
<1>14. cat[k] \in S /\ (k = 0 => cat[k] = b)
  BY <1>8, <1>12, <1>13 DEF D
<1>15. k > 0 => cat[k] = Add(cat[k - 1], k) /\ Without(f, text, lost, k - 1) = cat[k - 1]
  <2> HAVE k > 0
  <2>1. k \in 1 .. N /\ k - 1 \in 0 .. N
    BY <1>13, <1>1
  <2> QED BY <2>1, <1>2, <1>9
<1>16. Without(f, text, lost, k) = cat[k]
  BY <1>2, <1>13
<1> QED BY <1>14, <1>15, <1>16 DEF WithoutSoFar, b, S, P, Add

\* A piece that is yet to come may as well be there.
LEMMA WithoutLater ==
  ASSUME NEW f \in Formats, NEW text \in Seq(DOMAIN Standard),
         NEW k \in 0 .. Len(text), NEW i \in Nat, i > k
  PROVE  Without(f, text, {i, -1}, k) = Without(f, text, {-1, -1}, k)
<1> DEFINE N == Len(text)
           X == {i, -1}
           Y == {-1, -1}
           A(n) == Without(f, text, X, n)
           B(n) == Without(f, text, Y, n)
           D == {n \in 0 .. N : n < i => A(n) = B(n)}
<1>1. N \in Nat /\ k \in 0 .. N /\ i \in Int
  OBVIOUS
<1>2. \A n \in 0 .. N : WithoutSoFar(f, text, X, n) /\ WithoutSoFar(f, text, Y, n)
  BY <1>1, WithoutSteps
<1>3. \A n \in 0 .. N : n < i => Piece(f, text, X, n) = Piece(f, text, Y, n)
  BY DEF Piece
<1> HIDE DEF N, X, Y
<1>4. 0 \in D
  <2>1. A(0) = Piece(f, text, X, 0) /\ B(0) = Piece(f, text, Y, 0)
    BY <1>1, <1>2 DEF WithoutSoFar
  <2> QED BY <2>1, <1>1, <1>3
<1>5. ASSUME NEW n \in 0 .. N, n \in D, n < N PROVE n + 1 \in D
  <2>1. n + 1 \in 0 .. N /\ (n + 1) - 1 = n /\ n + 1 > 0
    BY <1>5, <1>1
  <2>2. A(n + 1) = A(n) \o Piece(f, text, X, n + 1) /\ B(n + 1) = B(n) \o Piece(f, text, Y, n + 1)
    BY <2>1, <1>2 DEF WithoutSoFar
  <2>3. n + 1 < i => n < i /\ Piece(f, text, X, n + 1) = Piece(f, text, Y, n + 1)
    BY <2>1, <1>3, <1>5, <1>1
  <2> HIDE DEF A, B
  <2>4. n < i => A(n) = B(n)
    BY <1>5
  <2> QED BY <2>1, <2>2, <2>3, <2>4
<1>6. 0 .. N \subseteq D
  <2> HIDE DEF D
  <2> QED BY <1>1, <1>4, <1>5, UpTo
<1> QED BY <1>1, <1>6 DEF N, X, Y

----------------------------------------------------------------------------
(* To and from UTF-8: the loops                                            *)

\* No other code point begins with the bytes of the mark.
LEMMA MarkOnly ==
  ASSUME NEW cp \in DOMAIN Standard, NEW g, Begins(g, Encoded("UTF8", cp)),
         g[1] = 239, g[2] = 187, g[3] = 191
  PROVE  cp = Bom
<1> DEFINE w == Encoded("UTF8", cp)
<1>1. Scalar(cp) /\ StandardCase(cp, w)
  BY StandardBytes DEF Encoded
<1>2. cp \in Nat /\ cp < 1114112
  BY <1>1 DEF Scalar
<1>3. \A j \in 1 .. Len(w) : g[j] = w[j]
  BY DEF Begins
<1> HIDE DEF w
<1>4. CASE cp < 128 /\ Len(w) = 1 /\ w[1] = cp
  <2>1. cp = 239
    BY <1>3, <1>4
  <2> QED BY <2>1, <1>4
<1>5. CASE 128 <= cp /\ cp < 2048 /\ Len(w) = 2
           /\ w[1] = 192 + (cp \div 64) /\ w[2] = 128 + (cp % 64)
  <2>1. 192 + (cp \div 64) = 239
    BY <1>3, <1>5
  <2> QED BY <2>1, <1>2, <1>5
<1>6. CASE 2048 <= cp /\ cp < 65536 /\ Len(w) = 3 /\ w[1] = 224 + (cp \div 4096)
           /\ w[2] = 128 + ((cp \div 64) % 64) /\ w[3] = 128 + (cp % 64)
  <2>1. 224 + (cp \div 4096) = 239 /\ 128 + ((cp \div 64) % 64) = 187 /\ 128 + (cp % 64) = 191
    BY <1>3, <1>6
  <2>2. cp \div 4096 = 15 /\ (cp \div 64) % 64 = 59 /\ cp % 64 = 63
    BY <2>1, <1>2
  <2>3. cp = 65279
    BY <2>2, <1>2
  <2> QED BY <2>3 DEF Bom
<1>7. CASE 65536 <= cp /\ Len(w) = 4 /\ w[1] = 240 + (cp \div 262144)
           /\ w[2] = 128 + ((cp \div 4096) % 64)
           /\ w[3] = 128 + ((cp \div 64) % 64) /\ w[4] = 128 + (cp % 64)
  <2>1. 240 + (cp \div 262144) = 239
    BY <1>3, <1>7
  <2> QED BY <2>1, <1>2, <1>7
<1> QED BY <1>1, <1>4, <1>5, <1>6, <1>7 DEF StandardCase

\* check_bom() takes nothing else for the mark of UTF-8 either.
LEMMA MarkTrue8 ==
  ASSUME NEW in \in Inputs, file = FileOf(in), Len(file) > 2, "UTF8" \in Recognized
  PROVE  in.format = "UTF8"
<1>1. IsInput(in.format, in.text, in.cut)
  BY UtfAssumption
<1>2. CutFrom(file, All(in), in.cut)
  BY FileIsCut
<1> DEFINE b == SubSeq(file, 1, 3)
<1>3. b[1] = file[1] /\ b[2] = file[2] /\ b[3] = file[3]
  BY <1>2 DEF CutFrom
<1>4. b[1] + 256 * b[2] + 65536 * b[3] = 12565487
  BY DEF Recognized, Code
<1>5. file[1] \in Byte /\ file[2] \in Byte /\ file[3] \in Byte
  BY <1>2 DEF CutFrom
<1> HIDE DEF b
<1>6. file[1] = 239 /\ file[2] = 187 /\ file[3] = 191
  <2> DEFINE x == file[1]
             y == file[2]
             z == file[3]
  <2>1. x \in 0 .. 255 /\ y \in 0 .. 255 /\ z \in 0 .. 255
    BY <1>5 DEF Byte
  <2>2. x + 256 * y + 65536 * z = 12565487
    BY <1>3, <1>4
  <2> HIDE DEF x, y, z
  <2>3. x = 239 /\ y = 187 /\ z = 191
    BY <2>1, <2>2
  <2> QED BY <2>3 DEF x, y, z
<1>7. CASE in.format = "none"
  <2> DEFINE t == in.text
             e == EncodedTo("UTF8", t, Len(t))
  <2>1. /\ All(in) = e /\ t \in Seq(DOMAIN Standard) /\ Len(t) \in Nat /\ "UTF8" \in Formats
        /\ t # <<>> => t[1] # Bom
    BY <1>1, <1>7 DEF All, IsInput, Formats
  <2>2. Len(t) # 0
    <3> SUFFICES ASSUME Len(t) = 0 PROVE FALSE
      OBVIOUS
    <3>1. 0 \in 0 .. Len(t)
      BY <2>1
    <3>2. EncodedSoFar("UTF8", t, 0)
      BY <2>1, <3>1, EncodedSteps
    <3>3. All(in) = <<>>
      BY <2>1, <3>2 DEF EncodedSoFar
    <3> QED BY <3>3, <1>2 DEF CutFrom
  <2>3. Len(t) \in 1 .. Len(t) /\ 1 \in 1 .. Len(t) /\ t # <<>>
    BY <2>1, <2>2
  <2>4. t[1] \in DOMAIN Standard
    BY <2>1, <2>3
  <2> DEFINE c == Encoded("UTF8", t[1])
  <2>5. Heads(c, e)
    BY <2>1, <2>3, EncodedBegins
  <2>6. Begins(e, c)
    BY <2>5 DEF Heads, Begins
  <2>7. e[1] = 239 /\ e[2] = 187 /\ e[3] = 191
    <3>1. 1 \in 1 .. Len(file) /\ 2 \in 1 .. Len(file) /\ 3 \in 1 .. Len(file)
      BY <1>2 DEF CutFrom
    <3>2. file[1] = e[1] /\ file[2] = e[2] /\ file[3] = e[3]
      BY <3>1, <1>2, <2>1 DEF CutFrom
    <3> QED BY <3>2, <1>6
  <2> HIDE DEF e
  <2>8. t[1] = Bom
    BY <2>4, <2>6, <2>7, MarkOnly
  <2> QED BY <2>1, <2>3, <2>8
<1>8. CASE in.format # "none"
  <2>1. /\ in.format = "UTF16LE" => file[1] = 255
        /\ in.format = "UTF16BE" => file[1] = 254
        /\ in.format \in Formats
    BY <1>8, FileMarked
  <2> QED BY <2>1, <1>6 DEF Formats
<1> QED BY <1>7, <1>8

\* What a turn finds at the offset: the next code point of the text.
Next8(k) == Encoded(from, Read[k + 1])

NextRead(k) ==
    /\ k + 1 \in 0 .. Len(Read) /\ Read[k + 1] \in DOMAIN Standard
    /\ Next8(k) \in Seq(Byte) /\ Len(Next8(k)) \in Nat /\ Len(Next8(k)) > 0
    /\ Len(EncodedTo(from, Read, k + 1)) = off + Len(Next8(k))
    /\ input.cut = 0 => off + Len(Next8(k)) <= Len(file)
    /\ \A j \in 1 .. Len(Next8(k)) : off + j <= Len(file) => file[off + j] = Next8(k)[j]

\* The text that a loop reads is standard, with the mark in front.
LEMMA ReadIs ==
  ASSUME Typed
  PROVE  /\ Read \in Seq(DOMAIN Standard) /\ Len(Read) = Len(input.text) + 1
         /\ Len(input.text) \in Nat /\ Read[1] = Bom
         /\ \A i \in 1 .. Len(input.text) : Read[i + 1] = input.text[i]
<1>1. IsInput(input.format, input.text, input.cut)
  BY UtfAssumption DEF Typed
<1>2. input.text \in Seq(DOMAIN Standard)
  BY <1>1 DEF IsInput
<1> QED BY <1>2, MarkedText DEF Read

\* A loop in step finds the next code point of the text at its offset.
LEMMA NextIsRead ==
  ASSUME Typed, Lines, pc = "loop", in_file = "in",
         NEW k \in 0 .. Len(Read), Consumed(k), off < Len(file)
  PROVE  NextRead(k)
<1> DEFINE t == Read
           N == Len(Read)
           all == EncodedTo(from, Read, N)
           e == Next8(k)
<1>1. /\ file = FileOf(input) /\ Len(file) > 2 /\ from \in Recognized /\ input \in Inputs
      /\ from \in Formats
  BY RecognizedAre DEF Lines, FromLine, MarkSeen, Typed
<1>2. input.format = from
  <2>1. from \in TwoForms \/ from = "UTF8"
    BY <1>1 DEF Formats, TwoForms
  <2> QED BY <2>1, <1>1, MarkTrue, MarkTrue8
<1>3. t \in Seq(DOMAIN Standard) /\ N = Len(input.text) + 1 /\ N \in Nat
  BY ReadIs
<1>4. All(input) = all
  <2>1. from # "none"
    BY <1>1 DEF Formats
  <2> QED BY <2>1, <1>2, <1>3 DEF All, Whole, Read
<1>5. CutFrom(file, all, input.cut)
  BY <1>1, <1>4, FileIsCut
<1>6. off = Len(EncodedTo(from, Read, k))
  BY DEF Consumed
<1>7. off \in Nat /\ Len(file) \in Nat /\ Len(file) <= Len(all) /\ Len(all) \in Nat
  BY <1>5 DEF CutFrom, Typed
<1>8. k # N
  <2> SUFFICES ASSUME k = N PROVE FALSE
    OBVIOUS
  <2>1. off = Len(all)
    BY <1>6
  <2> HIDE DEF all, N
  <2> QED BY <2>1, <1>7
<1>9. k \in 0 .. N /\ k < N /\ k + 1 \in 0 .. N /\ k + 1 \in 1 .. N
  BY <1>3, <1>8
<1>10. /\ Len(EncodedTo(from, t, k + 1)) = off + Len(e)
       /\ PieceAt(e, all, off)
  <2>1. /\ Len(EncodedTo(from, t, k + 1)) = Len(EncodedTo(from, t, k)) + Len(Encoded(from, t[k + 1]))
        /\ PieceAt(Encoded(from, t[k + 1]), EncodedTo(from, t, N), Len(EncodedTo(from, t, k)))
    BY <1>1, <1>3, <1>9, NextPiece
  <2> QED BY <2>1, <1>6 DEF Next8
<1>11. t[k + 1] \in DOMAIN Standard
  BY <1>3, <1>9
<1> HIDE DEF all, e
<1>12. /\ e \in Seq(Byte) /\ Len(e) \in Nat /\ Len(e) > 0 /\ off + Len(e) <= Len(all)
       /\ \A j \in 1 .. Len(e) : all[off + j] = e[j]
  BY <1>10 DEF PieceAt
<1>13. \A i \in 1 .. Len(file) : file[i] = all[i]
  BY <1>5 DEF CutFrom
<1>14. input.cut = 0 => off + Len(e) <= Len(file)
  BY <1>5, <1>12 DEF CutFrom
<1>15. ASSUME NEW j \in 1 .. Len(e), off + j <= Len(file) PROVE file[off + j] = e[j]
  <2>1. off + j \in 1 .. Len(file)
    BY <1>7, <1>15
  <2> QED BY <2>1, <1>12, <1>13
<1> QED BY <1>9, <1>10, <1>11, <1>12, <1>14, <1>15 DEF NextRead, e

\* One turn reads the next code point and asks for its encoding to be written.
Turned(k) ==
    /\ off' = off + Len(Next8(k))
    /\ Write(Encoded(to, Read[k + 1]))

\* A read, byte by byte.
LEMMA FillIs ==
  ASSUME NEW g \in [1 .. 4 -> Byte], NEW i, NEW m, NEW n, NEW j \in 1 .. 4
  PROVE  Fill(g, i, m, n)[j] = IF j >= i /\ j < i + n /\ m + (j - i) < Len(file)
                               THEN file[m + (j - i) + 1] ELSE g[j]
<1> HIDE DEF Byte
<1> QED BY DEF Fill

\* The offset after a read of all that was asked for.
LEMMA ClipIs ==
  ASSUME Typed, NEW n \in Nat
  PROVE  /\ off + n <= Len(file) => Clip(n) = off + n
         /\ Clip(n) < Len(file) => off + n < Len(file)
         /\ off <= Clip(n)
<1> HIDE DEF Byte
<1>1. off \in Nat /\ Len(file) \in Nat /\ off <= Len(file)
  BY DEF Typed
<1> QED BY <1>1 DEF Clip

\* The first byte of a glyph announces the others.
LEMMA LeadRead ==
  ASSUME Typed, NEW k \in Nat, NextRead(k), from = "UTF8", off < Len(file)
  PROVE  /\ Fill(buf, 1, off, 1) \in [1 .. 4 -> Byte]
         /\ Fill(buf, 1, off, 1)[1] = Next8(k)[1]
         /\ remaining_utf8_bytes(Fill(buf, 1, off, 1)[1]) = Len(Next8(k)) - 1
         /\ Len(Next8(k)) \in 1 .. 4
<1> DEFINE cp == Read[k + 1]
           e == Next8(k)
           first == Fill(buf, 1, off, 1)
           n == remaining_utf8_bytes(first[1])
<1>2. off \in Nat /\ Len(file) \in Nat /\ buf \in [1 .. 4 -> Byte]
  <2> HIDE DEF Byte
  <2> QED BY DEF Typed
<1>3. /\ cp \in DOMAIN Standard /\ e = Encoded("UTF8", cp)
      /\ Len(e) \in Nat /\ Len(e) > 0
      /\ \A j \in 1 .. Len(e) : off + j <= Len(file) => file[off + j] = e[j]
  BY DEF NextRead, Next8
<1> HIDE DEF e, cp
<1>5. first \in [1 .. 4 -> Byte]
  BY <1>2, LoopReads
<1>6. first[1] = file[off + 1]
  <2>1. 1 \in 1 .. 4 /\ 1 >= 1 /\ 1 < 1 + 1 /\ off + (1 - 1) < Len(file) /\ off + (1 - 1) + 1 = off + 1
    BY <1>2
  <2> QED BY <2>1, <1>2, FillIs
<1>7. file[off + 1] = e[1]
  <2>1. 1 \in 1 .. Len(e) /\ off + 1 <= Len(file)
    BY <1>2, <1>3
  <2> QED BY <2>1, <1>3
<1>8. n = Len(e) - 1 /\ Len(e) \in 1 .. 4
  <2>1. \E h \in [1 .. 4 -> Byte] : Begins(h, Encoded("UTF8", cp))
    <3> DEFINE w == Encoded("UTF8", cp)
               h == [j \in 1 .. 4 |-> IF j <= Len(w) THEN w[j] ELSE 0]
    <3>1. w \in Seq(Byte) /\ Len(w) \in 1 .. 4
      <4>1. w \in Seq(Byte) /\ StandardCase(cp, w)
        BY <1>3, StandardBytes DEF Encoded
      <4> HIDE DEF w, Byte
      <4> QED BY <4>1 DEF StandardCase
    <3>2. 0 \in Byte
      BY DEF Byte
    <3> HIDE DEF w, Byte
    <3>3. h \in [1 .. 4 -> Byte]
      BY <3>1, <3>2
    <3>4. Begins(h, w)
      BY <3>1 DEF Begins
    <3> QED BY <3>3, <3>4 DEF w
  <2> PICK h \in [1 .. 4 -> Byte] : Begins(h, Encoded("UTF8", cp))
    BY <2>1
  <2>2. remaining_utf8_bytes(h[1]) = Len(Encoded("UTF8", cp)) - 1 /\ Len(Encoded("UTF8", cp)) \in 1 .. 4
    BY <1>3, GlyphRead8
  <2>3. h[1] = e[1]
    <3> DEFINE w == Encoded("UTF8", cp)
    <3>1. Len(w) \in 1 .. 4 /\ \A j \in 1 .. Len(w) : h[j] = w[j]
      BY <2>2 DEF Begins
    <3>2. e[1] = w[1]
      BY <1>3
    <3> HIDE DEF w
    <3>3. \A l \in 1 .. 4 : 1 \in 1 .. l
      OBVIOUS
    <3>4. 1 \in 1 .. Len(w)
      BY <3>1, <3>3
    <3> QED BY <3>1, <3>2, <3>4
  <2> HIDE DEF first
  <2>4. first[1] = h[1]
    BY <2>3, <1>6, <1>7
  <2> QED BY <2>2, <2>4, <1>3
<1> QED BY <1>5, <1>6, <1>7, <1>8 DEF e

\* from_utf8_to_utf16le and from_utf8_to_utf16be.
LEMMA TurnFrom8 ==
  ASSUME Typed, NEW k \in Nat, NextRead(k), from = "UTF8", NEW b \in TwoForms, to = b, FromUtf8(b),
         input.cut = 0 \/ off' < Len(file)
  PROVE  Turned(k)
<1> DEFINE cp == Read[k + 1]
           e == Next8(k)
           first == Fill(buf, 1, off, 1)
           n == remaining_utf8_bytes(first[1])
           g == Fill(first, 2, off + 1, n)
<1>1. off' = Clip(1 + n) /\ Write(Glyph16(b, utf8_decode(g))) /\ off < Len(file)
  BY DEF FromUtf8, Turn, Glyph16
<1>2. off \in Nat /\ off + 1 \in Nat /\ Len(file) \in Nat /\ buf \in [1 .. 4 -> Byte]
  <2> HIDE DEF Byte
  <2> QED BY DEF Typed
<1>3. /\ cp \in DOMAIN Standard /\ e = Encoded("UTF8", cp)
      /\ Len(e) \in Nat /\ Len(e) > 0
      /\ input.cut = 0 => off + Len(e) <= Len(file)
      /\ \A j \in 1 .. Len(e) : off + j <= Len(file) => file[off + j] = e[j]
  BY DEF NextRead, Next8
<1>4. Begins(e, Encoded("UTF8", cp))
  BY <1>3 DEF Begins
<1> HIDE DEF e, cp
<1>5. first \in [1 .. 4 -> Byte] /\ first[1] = e[1] /\ n = Len(e) - 1 /\ Len(e) \in 1 .. 4
  BY <1>1, LeadRead DEF e
<1> HIDE DEF first
<1>9. 1 + n = Len(e) /\ n \in Nat /\ Len(e) \in Nat
  <2> HIDE DEF n
  <2> QED BY <1>5
<1>10. g \in [1 .. 4 -> Byte]
  BY <1>2, <1>5, <1>9, LoopReads
<1> HIDE DEF n
<1>11. off + Len(e) <= Len(file)
  <2>1. CASE input.cut = 0
    BY <2>1, <1>3
  <2>2. CASE off' < Len(file)
    <3>1. off + Len(e) < Len(file)
      BY <2>2, <1>1, <1>9, ClipIs
    <3> QED BY <3>1, <1>2, <1>9
  <2> QED BY <2>1, <2>2
<1>12. Begins(g, e)
  <2> SUFFICES ASSUME NEW j \in 1 .. Len(e) PROVE g[j] = e[j]
    BY DEF Begins
  <2>1. j \in 1 .. 4 /\ j \in Nat /\ off + j <= Len(file)
    BY <1>2, <1>5, <1>11
  <2>2. g[j] = IF j >= 2 /\ j < 2 + n /\ off + 1 + (j - 2) < Len(file)
               THEN file[off + 1 + (j - 2) + 1] ELSE first[j]
    BY <1>5, <2>1, FillIs, SMTT(30)
  <2> HIDE DEF g
  <2>3. CASE j = 1
    BY <2>2, <2>3, <1>5
  <2>4. CASE j >= 2
    <3>1. j < 2 + n /\ off + 1 + (j - 2) < Len(file) /\ off + 1 + (j - 2) + 1 = off + j
      BY <2>1, <2>4, <1>2, <1>9
    <3> QED BY <3>1, <2>1, <2>2, <2>4, <1>3
  <2> QED BY <2>1, <2>3, <2>4
<1> HIDE DEF g
<1>13. utf8_decode(g) = cp
  BY <1>3, <1>10, <1>12, GlyphRead8
<1>14. Write(Encoded(to, cp))
  BY <1>1, <1>3, <1>13, GlyphIs16
<1>15. off' = off + Len(e)
  BY <1>1, <1>9, <1>11, ClipIs
<1> QED BY <1>14, <1>15 DEF Turned, e, cp

\* The halves of a pair are seen by is_upper_surrogate_pair().
LEMMA NoEdge ==
  ASSUME Typed, AllHalvesSeen, from # "UTF8", NEW k \in Nat, k + 1 \in 0 .. Len(Read)
  PROVE  ~ Edge(Read[k + 1])
<1>1. /\ Len(Read) = Len(input.text) + 1 /\ Len(input.text) \in Nat /\ Read[1] = Bom
      /\ \A i \in 1 .. Len(input.text) : Read[i + 1] = input.text[i]
  BY ReadIs
<1>2. input.text \in Seq(DOMAIN Standard)
  BY UtfAssumption DEF IsInput, Typed
<1>3. CASE k = 0
  <2>1. ~ is_code_point_surrogate(Bom)
    BY DEF is_code_point_surrogate, Bom
  <2> QED BY <2>1, <1>1, <1>3 DEF Edge
<1>4. CASE k # 0
  <2>1. k \in 1 .. Len(input.text)
    BY <1>1, <1>4
  <2>2. k \in DOMAIN input.text
    BY <1>2, <2>1
  <2> QED BY <1>1, <2>1, <2>2 DEF AllHalvesSeen
<1> QED BY <1>3, <1>4

\* The units of a code point, and their bytes in a file.
UnitsOf(a, cp, u, e) ==
    /\ \/ /\ Len(u) = 1 /\ IsUnit(u[1]) /\ ~ is_upper_surrogate_pair(u[1])
          /\ \A x : utf16_glyph_to_code_point(u[1], x) = cp
       \/ /\ Len(u) = 2 /\ IsUnit(u[1]) /\ IsUnit(u[2]) /\ is_upper_surrogate_pair(u[1])
          /\ utf16_glyph_to_code_point(u[1], u[2]) = cp
    /\ Len(u) = 1 => Len(e) = 2
    /\ Len(u) = 2 => Len(e) = 4 /\ e[3] = Pair(a, u[2])[1] /\ e[4] = Pair(a, u[2])[2]
    /\ e[1] = Pair(a, u[1])[1] /\ e[2] = Pair(a, u[1])[2] /\ Len(e) >= 2

LEMMA UnitsNext ==
  ASSUME NEW a \in TwoForms, NEW cp \in DOMAIN Standard, ~ Edge(cp)
  PROVE  UnitsOf(a, cp, Standard[cp].utf16, Encoded(a, cp))
<1> DEFINE u == Standard[cp].utf16
           e == Encoded(a, cp)
<1>4. \/ /\ Len(u) = 1 /\ IsUnit(u[1]) /\ ~ is_upper_surrogate_pair(u[1])
         /\ \A x : utf16_glyph_to_code_point(u[1], x) = cp
      \/ /\ Len(u) = 2 /\ IsUnit(u[1]) /\ IsUnit(u[2]) /\ is_upper_surrogate_pair(u[1])
         /\ utf16_glyph_to_code_point(u[1], u[2]) = cp
  BY UnitsRead
<1>5. e = IF Len(u) = 1 THEN Pair(a, u[1]) ELSE Pair(a, u[1]) \o Pair(a, u[2])
  BY DEF Encoded, TwoForms
<1> DEFINE p == Pair(a, u[1])
           q == Pair(a, u[2])
<1> HIDE DEF u, e
<1>6. /\ p \in Seq(Byte) /\ Len(p) = 2
      /\ Len(u) = 2 => q \in Seq(Byte) /\ Len(q) = 2
  BY <1>4, PairBytes
<1>7. /\ Len(u) = 1 => e = p /\ Len(e) = 2
      /\ Len(u) = 2 => Len(e) = 4 /\ e[3] = q[1] /\ e[4] = q[2]
      /\ e[1] = p[1] /\ e[2] = p[2] /\ Len(e) >= 2
  <2> HIDE DEF p, q, Byte
  <2>0. e = IF Len(u) = 1 THEN p ELSE p \o q
    BY <1>5 DEF p, q
  <2>1. CASE Len(u) = 1
    <3>1. e = p /\ Len(u) # 2
      BY <2>0, <2>1
    <3>2. Len(e) = 2
      BY <3>1, <1>6
    <3>3. Len(e) >= 2
      BY <3>2
    <3> QED BY <3>1, <3>2, <3>3
  <2>2. CASE Len(u) = 2
    <3>1. /\ Len(p \o q) = Len(p) + Len(q)
          /\ \A i \in 1 .. Len(p) + Len(q) : (p \o q)[i] = IF i <= Len(p) THEN p[i] ELSE q[i - Len(p)]
      BY <1>6, <2>2, ConcatProperties
    <3>2. \A i \in 1 .. 4 : e[i] = IF i <= 2 THEN p[i] ELSE q[i - 2]
      BY <3>1, <2>0, <2>2, <1>6
    <3>3. Len(e) = 4
      BY <3>1, <2>0, <2>2, <1>6
    <3>4. e[1] = p[1] /\ e[2] = p[2] /\ e[3] = q[1] /\ e[4] = q[2]
      BY <3>2
    <3> QED BY <2>2, <3>3, <3>4
  <2> QED BY <2>1, <2>2, <1>4
<1> HIDE DEF p, q
<1>8. UnitsOf(a, cp, u, e)
  BY <1>4, <1>7 DEF UnitsOf, p, q
<1> QED BY <1>8 DEF u, e

\* The unit at the offset, and what it tells of the next.
LEMMA UpperRead ==
  ASSUME Typed, NEW k \in Nat, NextRead(k), NEW a \in TwoForms, from = a, ~ Edge(Read[k + 1]),
         off + 2 <= Len(file)
  PROVE  /\ Native(Ordered(a, <<Fill(buf, 1, off, 2)[1], Fill(buf, 1, off, 2)[2]>>), 1)
                = Standard[Read[k + 1]].utf16[1]
         /\ is_upper_surrogate_pair(Standard[Read[k + 1]].utf16[1]) <=> Len(Next8(k)) = 4
         /\ Len(Next8(k)) \in {2, 4}
<1> DEFINE cp  == Read[k + 1]
           e   == Next8(k)
           u   == Standard[cp].utf16
           one == Fill(buf, 1, off, 2)
           p   == Pair(a, u[1])
<1>2. off \in Nat /\ Len(file) \in Nat /\ buf \in [1 .. 4 -> Byte]
  <2> HIDE DEF Byte
  <2> QED BY DEF Typed
<1>3. /\ cp \in DOMAIN Standard /\ e = Encoded(a, cp) /\ Len(e) \in Nat
      /\ \A j \in 1 .. Len(e) : off + j <= Len(file) => file[off + j] = e[j]
  BY DEF NextRead, Next8
<1>4. UnitsOf(a, cp, u, e)
  BY <1>3, UnitsNext
<1> HIDE DEF u, e, cp
<1>7. /\ e[1] = p[1] /\ e[2] = p[2] /\ Len(e) >= 2 /\ IsUnit(u[1])
      /\ (Len(u) = 1 /\ Len(e) = 2 /\ ~ is_upper_surrogate_pair(u[1]))
         \/ (Len(u) = 2 /\ Len(e) = 4 /\ is_upper_surrogate_pair(u[1]))
  BY <1>4 DEF UnitsOf
<1>9. one[1] = p[1] /\ one[2] = p[2]
  <2>1. one[1] = file[off + 1] /\ one[2] = file[off + 2]
    BY <1>2, UnitRead
  <2>2. 1 \in 1 .. Len(e) /\ 2 \in 1 .. Len(e) /\ off + 1 <= Len(file)
    BY <1>2, <1>3, <1>7
  <2>3. file[off + 1] = e[1] /\ file[off + 2] = e[2]
    BY <2>2, <1>3
  <2> QED BY <2>1, <2>3, <1>7
<1> HIDE DEF one
<1>10. Native(Ordered(a, <<one[1], one[2]>>), 1) = u[1]
  <2>1. Ordered(a, <<one[1], one[2]>>) = Ordered(a, <<p[1], p[2]>>)
    BY <1>9
  <2> QED BY <2>1, <1>7, OrderedUnit
<1>11. (is_upper_surrogate_pair(u[1]) <=> Len(e) = 4) /\ Len(e) \in {2, 4}
  <2>1. CASE Len(u) = 1 /\ Len(e) = 2 /\ ~ is_upper_surrogate_pair(u[1])
    BY <2>1
  <2>2. CASE Len(u) = 2 /\ Len(e) = 4 /\ is_upper_surrogate_pair(u[1])
    BY <2>2
  <2> QED BY <2>1, <2>2, <1>7
<1> QED BY <1>10, <1>11 DEF one, u, e, cp

\* from_utf16le_to_utf8 and from_utf16be_to_utf8.
LEMMA TurnTo8 ==
  ASSUME Typed, NEW k \in Nat, NextRead(k), NEW a \in TwoForms, from = a, to = "UTF8", ToUtf8(a),
         ~ Edge(Read[k + 1]), input.cut = 0 \/ off' < Len(file)
  PROVE  Turned(k)
<1> DEFINE cp   == Read[k + 1]
           e    == Next8(k)
           u    == Standard[cp].utf16
           one  == Fill(buf, 1, off, 2)
           up   == Ordered(a, <<one[1], one[2]>>)
           pair == is_upper_surrogate_pair(Native(up, 1))
           two  == Fill(one, 3, off + 2, 2)
           low  == IF pair THEN Ordered(a, <<two[3], two[4]>>) ELSE <<one[3], one[4]>>
           n    == IF pair THEN 4 ELSE 2
<1>1. /\ off' = Clip(n) /\ off < Len(file)
      /\ Write(code_point_to_utf8_glyph(utf16_glyph_to_code_point(Native(up, 1), Native(low, 1))))
  BY DEF ToUtf8, Turn, Ordered
<1>2. off \in Nat /\ off + 2 \in Nat /\ Len(file) \in Nat /\ buf \in [1 .. 4 -> Byte]
  <2> HIDE DEF Byte
  <2> QED BY DEF Typed
<1>3. /\ cp \in DOMAIN Standard /\ e = Encoded(a, cp)
      /\ Len(e) \in Nat /\ Len(e) > 0
      /\ input.cut = 0 => off + Len(e) <= Len(file)
      /\ \A j \in 1 .. Len(e) : off + j <= Len(file) => file[off + j] = e[j]
  BY DEF NextRead, Next8
<1>4. UnitsOf(a, cp, u, e)
  BY <1>3, UnitsNext
<1>0. code_point_to_utf8_glyph(cp) = Encoded(to, cp)
  BY <1>3, GlyphIs8
<1> DEFINE q == Pair(a, u[2])
<1> HIDE DEF u, e, cp
<1>7. /\ Len(u) = 1 => Len(e) = 2 /\ ~ is_upper_surrogate_pair(u[1]) /\ \A x : utf16_glyph_to_code_point(u[1], x) = cp
      /\ Len(u) = 2 => /\ Len(e) = 4 /\ e[3] = q[1] /\ e[4] = q[2] /\ IsUnit(u[2])
                       /\ is_upper_surrogate_pair(u[1]) /\ utf16_glyph_to_code_point(u[1], u[2]) = cp
      /\ Len(e) >= 2 /\ (Len(u) = 1 \/ Len(u) = 2)
  BY <1>4 DEF UnitsOf
<1>8. off + 2 <= Len(file)
  <2>1. CASE input.cut = 0
    BY <2>1, <1>2, <1>3, <1>7
  <2>2. CASE off' < Len(file)
    <3>1. n \in Nat /\ n >= 2
      OBVIOUS
    <3> HIDE DEF n
    <3>2. off + n < Len(file)
      BY <3>1, <2>2, <1>1, ClipIs
    <3> QED BY <3>1, <3>2, <1>2
  <2> QED BY <2>1, <2>2
<1>10. one \in [1 .. 4 -> Byte]
  BY <1>2, LoopReads
<1>11. Native(up, 1) = u[1]
  BY <1>8, UpperRead DEF u, cp
<1> HIDE DEF one, up
<1>12. pair <=> Len(u) = 2
  BY <1>7, <1>11
<1>13. off + Len(e) <= Len(file)
  <2>1. CASE input.cut = 0
    BY <2>1, <1>3
  <2>2. CASE off' < Len(file)
    <3>1. n = Len(e) /\ n \in Nat
      BY <1>7, <1>12
    <3> HIDE DEF n
    <3>2. off + n < Len(file)
      BY <3>1, <2>2, <1>1, ClipIs
    <3> QED BY <3>1, <3>2, <1>2
  <2> QED BY <2>1, <2>2
<1>14. off' = off + Len(e)
  <2>1. n = Len(e) /\ n \in Nat
    BY <1>7, <1>12
  <2> HIDE DEF n
  <2> QED BY <2>1, <1>1, <1>13, ClipIs
<1>15. utf16_glyph_to_code_point(Native(up, 1), Native(low, 1)) = cp
  <2>1. CASE Len(u) = 1
    BY <2>1, <1>7, <1>11
  <2>2. CASE Len(u) = 2
    <3>0. Len(e) = 4
      BY <2>2, <1>7
    <3>1. (off + 2) + 2 <= Len(file) /\ (off + 2) + 1 = off + 3 /\ (off + 2) + 2 = off + 4
          /\ 3 \in 1 .. Len(e) /\ 4 \in 1 .. Len(e) /\ off + 3 <= Len(file)
          /\ off + 4 <= Len(file)
      BY <3>0, <1>2, <1>13
    <3>2. two[3] = file[off + 3] /\ two[4] = file[off + 4]
      <4>1. two[3] = file[(off + 2) + 1] /\ two[4] = file[(off + 2) + 2]
        BY <1>2, <1>10, <3>1, UnitRead
      <4> QED BY <4>1, <3>1
    <3>3. file[off + 3] = e[3] /\ file[off + 4] = e[4]
      BY <3>1, <1>3
    <3>4. two[3] = q[1] /\ two[4] = q[2]
      BY <3>2, <3>3, <2>2, <1>7
    <3> HIDE DEF two, pair
    <3>5. low = Ordered(a, <<q[1], q[2]>>)
      BY <3>4, <2>2, <1>12
    <3>6. Native(low, 1) = u[2]
      BY <3>5, <2>2, <1>7, OrderedUnit
    <3> QED BY <3>6, <2>2, <1>7, <1>11
  <2> QED BY <2>1, <2>2, <1>7
<1>16. Write(Encoded(to, cp))
  BY <1>0, <1>1, <1>15
<1> QED BY <1>14, <1>16 DEF Turned, e, cp

\* A write by cases: it is whole, or a call failed and it is not there.
LEMMA WriteCases ==
  ASSUME Typed, NEW bs \in Seq(Byte), Write(bs)
  PROVE  \/ faults' = faults /\ Written' = Written \o bs
         \/ faults' = faults + 1 /\ Written' = Written
<1>1. CASE out' = Overlay(bs) /\ wpos' = wpos + Len(bs) /\ UNCHANGED faults
  <2>1. SubSeq(Overlay(bs), 1, wpos + Len(bs)) = Written \o bs
    BY OverlayIs DEF Typed
  <2> QED BY <1>1, <2>1 DEF Written
<1>2. CASE faults' = faults + 1 /\ UNCHANGED <<out, wpos>>
  BY <1>2 DEF Written
<1> QED BY <1>1, <1>2 DEF Write

\* What TextInStep asks, with the mark written again, and the step that keeps it:
\* a code point read and written, but for the piece that a failing call has lost.
Believed ==
    /\ Converting /\ "UTF8" \in {from, to} /\ faults <= 1 /\ AllHalvesSeen
    /\ input.cut = 0 \/ (faults = 0 /\ off < Len(file))

Lost(i, k) == i \in Int /\ -1 <= i /\ i <= k /\ (faults = 0 => i = -1)

Through(k, i) ==
    /\ k \in 0 .. Len(Read) /\ Lost(i, k)
    /\ Consumed(k) \/ Inside(k)
    /\ Written = Without(to, Read, {i, -1}, k)

InText == Believed => \E k, i : Through(k, i)

\* TextInStep asks no more.
LEMMA InStepIs ==
  ASSUME Typed, InText
  PROVE  TextInStep
<1>1. Len(Read) \in Nat /\ faults \in Nat
  BY ReadIs DEF Typed
<1> SUFFICES ASSUME Believed
             PROVE  \E k \in 0 .. Len(Read) :
                       /\ Consumed(k) \/ Inside(k)
                       /\ \E i \in (IF faults = 0 THEN {-1} ELSE -1 .. k), mark \in {-1, 1} :
                              Written = Without(to, Read, {i, mark}, k)
  BY DEF TextInStep, Believed
<1>2. PICK k, i : Through(k, i)
  BY DEF InText
<1>3. /\ k \in 0 .. Len(Read) /\ Lost(i, k) /\ (Consumed(k) \/ Inside(k))
      /\ Written = Without(to, Read, {i, -1}, k)
  BY <1>2 DEF Through
<1>4. i \in (IF faults = 0 THEN {-1} ELSE -1 .. k)
  BY <1>1, <1>3 DEF Lost
<1>5. -1 \in {-1, 1}
  OBVIOUS
<1> QED BY <1>3, <1>4, <1>5

\* A turn reads the next code point and writes it, or loses it.
LEMMA TurnKeeps ==
  ASSUME Typed, pc = "loop", to \in Formats, NEW k, NEW i, Through(k, i), NextRead(k), Turned(k),
         UNCHANGED <<line, file, to, from, pc>>, faults' <= 1
  PROVE  \E j : Through(k + 1, j)'
<1> DEFINE bs == Encoded(to, Read[k + 1])
           W(n, j) == Without(to, Read, {j, -1}, n)
<1>1. /\ k \in 0 .. Len(Read) /\ k \in Nat /\ i \in Int /\ -1 <= i /\ i <= k /\ (faults = 0 => i = -1)
      /\ off = Len(EncodedTo(from, Read, k)) /\ Written = W(k, i)
      /\ faults \in Nat /\ Len(Read) \in Nat
  BY ReadIs DEF Through, Lost, Consumed, Inside, Typed
<1>2. /\ k + 1 \in 0 .. Len(Read) /\ Read[k + 1] \in DOMAIN Standard
      /\ Len(EncodedTo(from, Read, k + 1)) = off + Len(Next8(k))
  BY DEF NextRead
<1>3. off' = off + Len(Next8(k)) /\ Write(bs)
  BY DEF Turned
<1>4. bs \in Seq(Byte)
  BY <1>2, EncodedPoint
<1>5. Read \in Seq(DOMAIN Standard)
  BY ReadIs
<1>6. Read' = Read /\ to' = to /\ from' = from
  BY DEF Read, line
<1>7. Consumed(k + 1)'
  BY <1>2, <1>3, <1>6 DEF Consumed
<1>8. k + 1 > 0 /\ (k + 1) - 1 = k /\ k + 1 # 0
  BY <1>1
<1>9. \A j \in Int : /\ W(k + 1, j) = W(k, j) \o Piece(to, Read, {j, -1}, k + 1)
                     /\ W(k, j) \in Seq(Byte)
  <2> TAKE j \in Int
  <2>1. WithoutSoFar(to, Read, {j, -1}, k + 1) /\ WithoutSoFar(to, Read, {j, -1}, k)
    BY <1>1, <1>2, <1>5, WithoutSteps
  <2> QED BY <2>1, <1>8 DEF WithoutSoFar
<1>10. \A j : Through(k + 1, j)' <=> Lost(j, k + 1)' /\ Written' = W(k + 1, j)
  BY <1>2, <1>6, <1>7 DEF Through
<1>11. CASE faults' = faults /\ Written' = Written \o bs
  <2>1. Piece(to, Read, {i, -1}, k + 1) = bs
    BY <1>1, <1>8 DEF Piece
  <2>2. W(k + 1, i) = W(k, i) \o bs
    BY <1>1, <1>9, <2>1
  <2> HIDE DEF W, bs
  <2>3. Written' = W(k + 1, i)
    BY <2>2, <1>1, <1>11
  <2>4. Lost(i, k + 1)'
    BY <1>1, <1>11 DEF Lost
  <2> QED BY <2>3, <2>4, <1>10
<1>12. CASE faults' = faults + 1 /\ Written' = Written
  <2>1. faults = 0 /\ i = -1 /\ faults' # 0
    BY <1>1, <1>12
  <2>2. Piece(to, Read, {k + 1, -1}, k + 1) = <<>>
    BY DEF Piece
  <2>3. k + 1 \in Int
    BY <1>1
  <2>4. W(k, k + 1) = W(k, -1)
    BY <1>1, <1>5, WithoutLater
  <2> HIDE DEF W, Byte
  <2>8. /\ W(k + 1, k + 1) = W(k, k + 1) \o Piece(to, Read, {k + 1, -1}, k + 1)
        /\ W(k, k + 1) \in Seq(Byte)
    BY <2>3, <1>9
  <2>9. W(k, k + 1) \o Piece(to, Read, {k + 1, -1}, k + 1) = W(k, k + 1)
    BY <2>2, <2>8, ConcatEmptySeq
  <2>5. W(k + 1, k + 1) = W(k, -1)
    BY <2>4, <2>8, <2>9
  <2>6. Written' = W(k + 1, k + 1)
    BY <2>1, <2>5, <1>1, <1>12
  <2>7. Lost(k + 1, k + 1)'
    BY <1>1, <2>1 DEF Lost
  <2> QED BY <2>6, <2>7, <1>10
<1> QED BY <1>3, <1>4, <1>11, <1>12, WriteCases

\* The mark goes out first, or is lost.
LEMMA MarkKeeps ==
  ASSUME Typed, Lines, StartConversion, Believed'
  PROVE  \E j : Through(0, j)'
<1> DEFINE W(j) == Without(to, Read, {j, -1}, 0)
<1>1. /\ pc = "start" /\ UNCHANGED <<line, file, to, from, off, buf>>
      /\ \/ Routes(translate) = {} /\ pc' = "crashed"
         \/ pc' = "loop" /\ \E r \in Routes(translate) : Write(Header(r[2]))
  BY DEF StartConversion
<1>2. off = 0 /\ wpos = 0
  BY <1>1 DEF Lines, Untouched
<1>3. pc' # "crashed" /\ faults' <= 1
  BY DEF Believed, Converting
<1>4. from \in Formats /\ to \in Formats \union {"none"} /\ translate = Code[from] - Code[to]
  BY <1>1, RecognizedAre DEF Lines, MarkSeen, Typed, translate
<1>5. PICK r \in Routes(translate) : Write(Header(r[2]))
  BY <1>1, <1>3
<1>6. r = <<from, to>> /\ r[2] \in Formats
  BY <1>4, <1>5, OneRoute DEF Routes
<1>7. to \in Formats /\ Write(Header(to))
  BY <1>5, <1>6
<1>8. Header(to) \in Seq(Byte)
  BY <1>7, HeaderBytes
<1>9. Written = <<>>
  BY <1>2 DEF Written, Typed
<1>10. Read' = Read /\ to' = to /\ from' = from /\ off' = 0
  BY <1>1, <1>2 DEF Read, line
<1>11. Read \in Seq(DOMAIN Standard) /\ Len(Read) \in Nat /\ 0 \in 0 .. Len(Read) /\ faults \in Nat
  BY ReadIs DEF Typed
<1>12. Consumed(0)'
  <2>1. EncodedSoFar(from, Read, 0)
    BY <1>4, <1>11, EncodedSteps
  <2>2. Len(EncodedTo(from, Read, 0)) = 0
    BY <2>1 DEF EncodedSoFar
  <2> QED BY <2>2, <1>10 DEF Consumed
<1>13. \A j : Through(0, j)' <=> Lost(j, 0)' /\ Written' = W(j)
  BY <1>10, <1>11, <1>12 DEF Through
<1>14. W(-1) = Header(to) /\ W(0) = <<>>
  <2>1. WithoutSoFar(to, Read, {-1, -1}, 0) /\ WithoutSoFar(to, Read, {0, -1}, 0)
    BY <1>7, <1>11, WithoutSteps
  <2> QED BY <2>1 DEF WithoutSoFar, Piece
<1> HIDE DEF W
<1>15. CASE faults' = faults /\ Written' = Written \o Header(to)
  <2>1. Written' = W(-1)
    BY <1>8, <1>9, <1>14, <1>15, ConcatEmptySeq
  <2>2. Lost(-1, 0)'
    BY DEF Lost
  <2> QED BY <2>1, <2>2, <1>13
<1>16. CASE faults' = faults + 1 /\ Written' = Written
  <2>1. Written' = W(0)
    BY <1>9, <1>14, <1>16
  <2>2. faults' # 0
    BY <1>11, <1>16
  <2>3. Lost(0, 0)'
    BY <2>2 DEF Lost
  <2> QED BY <2>1, <2>3, <1>13
<1> QED BY <1>7, <1>8, <1>15, <1>16, WriteCases

\* One turn of a loop to or from UTF-8, from step to step.
LEMMA TextTurn ==
  ASSUME Typed, Lines, InText, Believed', NEW b \in TwoForms, FromUtf8(b) \/ ToUtf8(b)
  PROVE  \E k, i : Through(k, i)'
<1>1. /\ pc = "loop" /\ off < Len(file) /\ UNCHANGED <<line, file, to, from, pc>>
      /\ \/ FromUtf8(b) /\ <<"UTF8", b>> \in Routes(translate)
         \/ ToUtf8(b) /\ <<b, "UTF8">> \in Routes(translate)
  BY DEF FromUtf8, ToUtf8, Turn
<1>2. from \in Formats /\ to \in Formats /\ in_file = "in" /\ translate = Code[from] - Code[to]
  BY <1>1, RecognizedAre DEF Lines, MarkSeen, Routed, Believed, Converting, translate, line
<1>3. \/ FromUtf8(b) /\ from = "UTF8" /\ to = b
      \/ ToUtf8(b) /\ from = b /\ to = "UTF8"
  <2>1. <<"UTF8", b>> \in Routes(translate) => <<"UTF8", b>> = <<from, to>>
    BY <1>2, OneRoute
  <2>2. <<b, "UTF8">> \in Routes(translate) => <<b, "UTF8">> = <<from, to>>
    BY <1>2, OneRoute
  <2> QED BY <1>1, <2>1, <2>2
<1>4. faults \in Nat /\ (faults' = faults \/ faults' = faults + 1) /\ faults' <= 1
  BY <1>3 DEF FromUtf8, ToUtf8, Write, Typed, Believed
<1>5. input.cut = 0 \/ (faults' = 0 /\ off' < Len(file))
  BY <1>1 DEF Believed, line
<1>6. from # "UTF8" => AllHalvesSeen
  BY <1>1 DEF Believed, AllHalvesSeen, Edge, line
<1>7. Believed
  <2>1. Converting /\ "UTF8" \in {from, to} /\ AllHalvesSeen
    BY <1>1, <1>2 DEF Believed, Converting, AllHalvesSeen, Edge, line
  <2> QED BY <1>1, <1>4, <1>5, <2>1 DEF Believed
<1>8. PICK k, i : Through(k, i)
  BY <1>7 DEF InText
<1>9. k \in 0 .. Len(Read) /\ k \in Nat /\ Consumed(k)
  BY <1>1, <1>8 DEF Through, Inside
<1>10. NextRead(k)
  BY <1>1, <1>2, <1>9, NextIsRead
<1>11. Turned(k)
  <2>1. input.cut = 0 \/ off' < Len(file)
    BY <1>5
  <2>2. CASE FromUtf8(b) /\ from = "UTF8" /\ to = b
    BY <2>1, <2>2, <1>9, <1>10, TurnFrom8
  <2>3. CASE ToUtf8(b) /\ from = b /\ to = "UTF8"
    <3>1. from # "UTF8"
      BY <2>3 DEF TwoForms
    <3>2. k + 1 \in 0 .. Len(Read)
      BY <1>10 DEF NextRead
    <3>3. ~ Edge(Read[k + 1])
      BY <3>1, <3>2, <1>6, <1>9, NoEdge
    <3> QED BY <2>1, <2>3, <3>3, <1>9, <1>10, TurnTo8
  <2> QED BY <1>3, <2>2, <2>3
<1>12. \E j : Through(k + 1, j)'
  BY <1>1, <1>2, <1>4, <1>8, <1>10, <1>11, TurnKeeps
<1> QED BY <1>12

\* A second read that fails leaves the offset inside the next code point.
LEMMA SecondInside ==
  ASSUME Typed, Lines, InText, Believed', NEW a \in Formats, NEW b \in Formats, SecondReadFails(a, b)
  PROVE  \E k, i : Through(k, i)'
<1> DEFINE n   == IF a = "UTF8" THEN 1 ELSE 2
           one == Fill(buf, 1, off, n)
           up  == IF a = "UTF8" \/ <<a, b>> = <<"UTF16LE", "UTF8">>
                  THEN <<one[1], one[2]>> ELSE Reversed(one)
<1>1. /\ pc = "loop" /\ off < Len(file) /\ <<a, b>> \in Routes(translate)
      /\ off' = Clip(n) /\ faults' = faults + 1 /\ pc' = "done"
      /\ UNCHANGED <<line, file, to, from, out, wpos>>
      /\ IF a = "UTF8" THEN remaining_utf8_bytes(up[1]) > 0
         ELSE is_upper_surrogate_pair(Native(up, 1))
  BY DEF SecondReadFails, Turn
<1>2. /\ from \in Formats /\ to \in Formats /\ in_file = "in" /\ translate = Code[from] - Code[to]
      /\ "UTF8" \in {from, to}
  BY <1>1, RecognizedAre DEF Lines, MarkSeen, Routed, Believed, Converting, translate, line
<1>3. from = a /\ to = b /\ a # b
  <2>1. <<a, b>> = <<from, to>>
    BY <1>1, <1>2, OneRoute
  <2>2. from # to
    BY <1>1 DEF Lines, Routed
  <2> QED BY <2>1, <2>2
<1>4. faults = 0 /\ faults' = 1 /\ input.cut = 0
  <2>1. faults \in Nat /\ faults' <= 1 /\ (input.cut = 0 \/ faults' = 0)
    BY <1>1 DEF Typed, Believed, line
  <2> QED BY <1>1, <2>1
<1>5. AllHalvesSeen /\ Believed
  <2>1. Converting /\ AllHalvesSeen
    BY <1>1, <1>2, <1>3 DEF Believed, Converting, AllHalvesSeen, Edge, line
  <2> QED BY <1>2, <1>4, <2>1 DEF Believed
<1>6. PICK k, i : Through(k, i)
  BY <1>5 DEF InText
<1>7. /\ k \in 0 .. Len(Read) /\ k \in Nat /\ Consumed(k) /\ i = -1 /\ Lost(i, k)
      /\ Written = Without(to, Read, {i, -1}, k)
  BY <1>1, <1>4, <1>6 DEF Through, Inside, Lost
<1>8. NextRead(k)
  BY <1>1, <1>2, <1>7, NextIsRead
<1> DEFINE e == Next8(k)
           l == Len(Next8(k))
<1>9. /\ k + 1 \in 0 .. Len(Read) /\ l \in Nat /\ off + l <= Len(file)
      /\ Len(EncodedTo(from, Read, k + 1)) = off + l
      /\ off = Len(EncodedTo(from, Read, k))
  BY <1>4, <1>7, <1>8 DEF NextRead, Consumed
<1>10. off \in Nat /\ Len(file) \in Nat
  <2> HIDE DEF Byte
  <2> QED BY DEF Typed
<1>11. n \in Nat /\ n > 0 /\ n < l
  <2>1. CASE a = "UTF8"
    <3>1. n = 1 /\ up[1] = Fill(buf, 1, off, 1)[1]
      BY <2>1
    <3>2. remaining_utf8_bytes(Fill(buf, 1, off, 1)[1]) > 0
      BY <1>1, <2>1
    <3>3. remaining_utf8_bytes(Fill(buf, 1, off, 1)[1]) = l - 1
      BY <1>1, <1>3, <1>7, <1>8, <2>1, LeadRead
    <3> HIDE DEF n, up, l
    <3>4. l - 1 > 0
      BY <3>2, <3>3
    <3> QED BY <3>1, <3>4, <1>9
  <2>2. CASE a # "UTF8"
    <3>1. a \in TwoForms /\ b = "UTF8"
      BY <1>2, <1>3, <2>2 DEF Formats, TwoForms
    <3>2. ~ Edge(Read[k + 1])
      BY <1>3, <1>5, <1>7, <1>9, <2>2, NoEdge
    <3>3. UnitsOf(a, Read[k + 1], Standard[Read[k + 1]].utf16, Next8(k))
      BY <1>3, <1>8, <3>1, <3>2, UnitsNext DEF NextRead, Next8
    <3>4. l >= 2
      BY <3>3 DEF UnitsOf
    <3>5. off + 2 <= Len(file)
      BY <1>9, <1>10, <3>4
    <3>6. /\ Native(Ordered(a, <<Fill(buf, 1, off, 2)[1], Fill(buf, 1, off, 2)[2]>>), 1)
                 = Standard[Read[k + 1]].utf16[1]
          /\ is_upper_surrogate_pair(Standard[Read[k + 1]].utf16[1]) <=> l = 4
      BY <1>3, <1>7, <1>8, <3>1, <3>2, <3>5, UpperRead
    <3>7. n = 2 /\ one = Fill(buf, 1, off, 2)
      BY <2>2
    <3>8. up = Ordered(a, <<one[1], one[2]>>)
      BY <2>2, <3>1 DEF Ordered, Reversed, TwoForms
    <3> HIDE DEF n, one, up
    <3>9. is_upper_surrogate_pair(Native(up, 1))
      BY <1>1, <2>2
    <3>10. l = 4
      BY <3>6, <3>7, <3>8, <3>9
    <3> QED BY <3>7, <3>10
  <2> QED BY <2>1, <2>2
<1> HIDE DEF n, l
<1>12. off' = off + n
  <2>1. off + n <= Len(file)
    BY <1>9, <1>10, <1>11
  <2> QED BY <1>1, <1>11, <2>1, ClipIs
<1>13. Read' = Read /\ Written' = Written /\ to' = to /\ from' = from
  BY <1>1 DEF Read, Written, line
<1>14. Inside(k)'
  <2>1. k < Len(Read)
    BY <1>7, <1>9, ReadIs
  <2>2. off < off' /\ off' < off + l
    BY <1>9, <1>10, <1>11, <1>12
  <2>3. Inside(k)' <=> /\ pc' = "done" /\ faults' > 0 /\ k < Len(Read)
                       /\ Len(EncodedTo(from, Read, k)) < off' /\ off' < Len(EncodedTo(from, Read, k + 1))
    BY <1>13 DEF Inside
  <2> QED BY <1>1, <1>4, <1>9, <2>1, <2>2, <2>3
<1>15. Lost(i, k)'
  BY <1>7 DEF Lost
<1>16. Through(k, i)'
  BY <1>7, <1>13, <1>14, <1>15 DEF Through
<1> QED BY <1>16

\* Every step stays in step.
LEMMA TextStep ==
  ASSUME Typed, Lines, InText, [Next]_vars
  PROVE  InText'
<1>1. SUFFICES ASSUME Believed' PROVE \E k, i : Through(k, i)'
  BY DEF InText
<1>2. pc' \in {"loop", "done"} /\ from' # to' /\ "UTF8" \in {from', to'}
  BY <1>1 DEF Believed, Converting
<1>3. ASSUME pc = "loop" \/ (pc = "done" /\ pc' = pc /\ faults' = faults),
             UNCHANGED <<line, file, to, from, off, out, wpos>>,
             faults' = faults \/ (faults = 0 /\ faults' = 1)
      PROVE  \E k, i : Through(k, i)'
  <2>1. Believed
    <3>1. Converting /\ "UTF8" \in {from, to} /\ AllHalvesSeen
      BY <1>1, <1>3 DEF Believed, Converting, AllHalvesSeen, Edge, line
    <3>2. faults <= 1 /\ (input.cut = 0 \/ (faults = 0 /\ off < Len(file)))
      BY <1>1, <1>3 DEF Believed, line
    <3> QED BY <3>1, <3>2 DEF Believed
  <2>2. PICK k, i : Through(k, i)
    BY <2>1 DEF InText
  <2>3. Read' = Read /\ Written' = Written
    BY <1>3 DEF Read, Written, line
  <2>4. (Consumed(k) \/ Inside(k))'
    BY <1>3, <2>2, <2>3 DEF Through, Consumed, Inside
  <2>5. Lost(i, k)' /\ k \in 0 .. Len(Read') /\ Written' = Without(to', Read', {i, -1}, k)
    BY <1>3, <2>2, <2>3 DEF Through, Lost
  <2> QED BY <2>4, <2>5 DEF Through
<1>4. CASE parse_args
  BY <1>2, <1>4 DEF parse_args
<1>5. CASE check_bom
  BY <1>2, <1>5 DEF check_bom
<1>6. CASE OpenFiles
  BY <1>2, <1>6 DEF OpenFiles
<1>7. CASE transcribe
  <2>1. from \in Formats /\ from' = from /\ to' = to /\ translate = 0
    BY <1>7, RecognizedAre DEF transcribe, Lines, MarkSeen
  <2>2. from = to
    BY <2>1, OneRoute DEF translate, Typed
  <2> QED BY <1>2, <2>1, <2>2
<1>8. CASE StartConversion
  BY <1>1, <1>8, MarkKeeps
<1>9. ASSUME NEW b \in {"UTF16LE", "UTF16BE"}, FromUtf8(b) \/ ToUtf8(b)
      PROVE  \E k, i : Through(k, i)'
  <2>1. b \in TwoForms
    BY DEF TwoForms
  <2> QED BY <1>1, <1>9, <2>1, TextTurn
<1>10. ASSUME NEW b \in {"UTF16LE", "UTF16BE"}, Utf16Swap(b)
       PROVE  \E k, i : Through(k, i)'
  <2>1. PICK c \in {"UTF16LE", "UTF16BE"} : <<b, c>> \in Routes(translate)
    BY <1>10 DEF Utf16Swap, Turn
  <2>2. pc = "loop" /\ UNCHANGED <<from, to>>
    BY <1>10 DEF Utf16Swap, Turn
  <2>3. from \in Formats /\ to \in Formats
    BY <2>2, RecognizedAre DEF Lines, MarkSeen, Routed
  <2>4. <<b, c>> = <<from, to>>
    BY <2>1, <2>3, OneRoute DEF translate
  <2> QED BY <1>2, <2>2, <2>4
<1>11. CASE LoopEnds
  <2>1. /\ pc = "loop" /\ UNCHANGED <<line, file, to, from, off, out, wpos>>
        /\ faults' = faults \/ faults' = faults + 1
    BY <1>11 DEF LoopEnds
  <2>2. faults' = faults \/ (faults = 0 /\ faults' = 1)
    BY <1>1, <2>1 DEF Typed, Believed
  <2> QED BY <1>3, <2>1, <2>2
<1>12. CASE Finished \/ UNCHANGED vars
  <2>1. UNCHANGED vars
    BY <1>12 DEF Finished
  <2>2. pc \in {"loop", "done"} /\ UNCHANGED <<line, file, to, from, pc, off, out, wpos, faults>>
    BY <1>2, <2>1 DEF vars
  <2> QED BY <1>3, <2>2
<1>13. ASSUME NEW a \in Formats, NEW b \in Formats, SecondReadFails(a, b)
       PROVE  \E k, i : Through(k, i)'
  BY <1>1, <1>13, SecondInside
<1> QED BY <1>4, <1>5, <1>6, <1>7, <1>8, <1>9, <1>10, <1>11, <1>12, <1>13 DEF Next

----------------------------------------------------------------------------
(* The invariant, and what it says                                         *)

IInv == Typed /\ Lines /\ Swaps /\ InText

\* IInv is inductive.
LEMMA Invariant ==
  Spec => []IInv
<1>1. Init => IInv
  <2>1. Init => Swaps /\ InText
    BY DEF Init, Swaps, Swapping, InText, Believed, Converting
  <2> QED BY <2>1, TypedInit, LinesInit DEF IInv
<1>2. IInv /\ [Next]_vars => IInv'
  <2> SUFFICES ASSUME IInv, [Next]_vars PROVE IInv'
    OBVIOUS
  <2>1. Typed /\ Lines /\ Swaps /\ InText /\ Untouched
    BY DEF IInv, Lines
  <2> QED BY <2>1, TypedStep, LinesStep, SwapsStep, TextStep DEF IInv
<1> QED BY <1>1, <1>2, PTL DEF Spec

\* The variables keep their types: offsets stay inside their files, and all
\* that is ever read or written is bytes, for every text and line.
THEOREM TypesKept == Spec => []Typed
<1>1. IInv => Typed
  BY DEF IInv
<1> QED BY <1>1, Invariant, PTL

\* transcribe() of main.c: with the target format of the source the output is
\* the file, byte for byte, and a null conversion is called only without -e.
THEOREM CopiesOrConverts == Spec => []CopyOrConvert
<1>1. IInv => CopyOrConvert
  BY DEF IInv, Lines, Copied, Routed, CopyOrConvert
<1> QED BY <1>1, Invariant, PTL

\* parse_args(), check_bom() and Open(): for all words getopt() may be given, a
\* run that writes a file was asked, in one of the orders and forms that Asked
\* lists, for its format and its two files, and a line that asks for a format and
\* the two files, the first with its mark, is refused only when a system call
\* fails.
THEOREM OnlyAsked == Spec => []AskedOnly
<1>1. IInv => AskedOnly
  <2> SUFFICES ASSUME IInv PROVE AskedOnly
    OBVIOUS
  <2>0. /\ Typed /\ FromLine /\ MarkSeen /\ Routed /\ Refused
        /\ argv \in Seq(STRING)
    BY UtfAssumption DEF IInv, Lines, Typed
  <2>1. ASSUME pc = "done"
        PROVE  to \in Formats /\ in_file \in {"in", "out"} /\ Asked(argv, to, in_file, out_file)
    <3>1. to \in Formats /\ in_file \in {"in", "out"} /\ out_file # "NULL"
      BY <2>0, <2>1 DEF MarkSeen, Routed
    <3>2. Accepted(argv) /\ to = Target(argv) /\ in_file = NameAt(argv, 1) /\ out_file = NameAt(argv, 2)
      BY <2>0, <2>1 DEF FromLine
    <3> QED BY <2>0, <3>1, <3>2, LineParsed
  <2>2. ASSUME pc = "crashed", NEW f \in Formats PROVE ~ Asked(argv, f, "in", "out")
    <3>1. to = "none" /\ f # "none"
      BY <2>0, <2>2 DEF Routed, Formats
    <3> QED BY <2>0, <2>2, <3>1, AskedKnown
  <2> QED BY <2>0, <2>1, <2>2 DEF AskedOnly, Refused
<1> QED BY <1>1, Invariant, PTL

\* from_utf16be_to_utf16le and its mirror: for every text, whichever units the
\* loop takes for pairs, the output is the header and every two of the bytes read
\* so far exchanged.  Whether those of the mark are among them is left open.
THEOREM UnitsSwapped == Spec => []SwapInStep
<1>1. IInv => SwapInStep
  <2> SUFFICES ASSUME IInv, Converting, "UTF8" \notin {from, to}, faults = 0, input.cut = 0,
                      ~ LastLooksHigh
               PROVE  Written = Header(to) \o Swapped(SubSeq(file, 0 + 1, off))
    BY DEF SwapInStep
  <2>1. from \in Formats /\ to \in Formats
    BY RecognizedAre DEF IInv, Lines, MarkSeen, Routed, Converting
  <2>2. {from, to} \subseteq TwoForms
    BY <2>1 DEF Formats, TwoForms
  <2>3. Swapping
    BY <2>2 DEF Swapping, Converting
  <2>4. 0 + 1 = 1
    OBVIOUS
  <2> QED BY <2>3, <2>4 DEF IInv, Swaps, InStep
<1> QED BY <1>1, Invariant, PTL

\* The loops of utf8.c, utf16be.c and utf16le.c to and from UTF-8, for texts of any
\* length, out of UTF-16 only those without the 2048 code points whose first half
\* is_upper_surrogate_pair() leaves out: the bytes read are the first code points
\* of the file, and of one more the bytes before a second read that failed; the
\* bytes written are the header and the same code points in the other format, but
\* for the one piece that a call which failed has lost.  Whether the mark is
\* written among them is left open.
THEOREM StaysInStep == Spec => []TextInStep
<1>1. IInv => TextInStep
  BY InStepIs DEF IInv
<1> QED BY <1>1, Invariant, PTL

\* main() calls a null conversion only when the arguments held no -e: check_bom
\* lets no unknown source pass and every pair of formats has its case.
THEOREM NullOnlyWithoutTarget == Spec => [](pc = "crashed" => to = "none")
<1>1. IInv => (pc = "crashed" => to = "none")
  BY DEF IInv, Lines, Routed
<1> QED BY <1>1, Invariant, PTL
=============================================================================
