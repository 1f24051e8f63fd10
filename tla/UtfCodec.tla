------------------------------ MODULE UtfCodec ------------------------------
(***************************************************************************)
(* The glyph codecs of hw2 (utf8.c, utf16be.c, utf16le.c, utf.c) as        *)
(* operators on numbers.  A glyph in memory is the sequence of its bytes   *)
(* in address order; a masked and shifted field of the C code is a         *)
(* quotient and a remainder by a power of two.  The build is little        *)
(* endian, so the __ORDER_LITTLE_ENDIAN__ branches are the ones compiled.  *)
(***************************************************************************)
EXTENDS Integers, Sequences

Byte == 0 .. 255

----------------------------------------------------------------------------
(* UTF-8                                                                   *)

utf8_glyph_size_of_code_point(cp) ==
    IF cp <= 127 THEN 1 ELSE IF cp <= 2047 THEN 2 ELSE IF cp <= 65535 THEN 3 ELSE 4

\* a continuation byte, '10xx xxxx'
Cont(cp) == 128 + (cp % 64)

utf8_one_byte_encode(cp) == <<cp % 256>>

utf8_two_byte_encode(cp) == <<192 + ((cp \div 64) % 32), Cont(cp)>>

utf8_three_byte_encode(cp) ==
    <<224 + ((cp \div 4096) % 16), Cont(cp \div 64), Cont(cp)>>

utf8_four_byte_encode(cp) ==
    <<240 + ((cp \div 262144) % 8), Cont(cp \div 4096), Cont(cp \div 64), Cont(cp)>>

\* The bytes write(2) takes of the glyph: size_of_glyph of them.
code_point_to_utf8_glyph(cp) ==
    LET size == utf8_glyph_size_of_code_point(cp)
    IN  IF size = 1 THEN utf8_one_byte_encode(cp)
        ELSE IF size = 2 THEN utf8_two_byte_encode(cp)
        ELSE IF size = 3 THEN utf8_three_byte_encode(cp)
        ELSE utf8_four_byte_encode(cp)

\* Mutant: no branch for a first byte of four.
remaining_noFour(b) ==
    IF b \div 16 = 14 THEN 2 ELSE IF b \div 32 = 6 THEN 1 ELSE 0

\* The continuation bytes a first byte announces.
remaining_utf8_bytes(b) ==
    IF b \div 8 = 30 THEN 3
    ELSE IF b \div 16 = 14 THEN 2
    ELSE IF b \div 32 = 6 THEN 1 ELSE 0

utf8_one_byte_decode(g) == g[1]

utf8_two_byte_decode(g) == (g[1] % 32) * 64 + (g[2] % 64)

utf8_three_byte_decode(g) ==
    (g[1] % 16) * 4096 + (g[2] % 64) * 64 + (g[3] % 64)

utf8_four_byte_decode(g) ==
    (g[1] % 8) * 262144 + (g[2] % 64) * 4096 + (g[3] % 64) * 64 + (g[4] % 64)

utf8_decode(g) ==
    LET n == remaining_utf8_bytes(g[1])
    IN  IF n = 0 THEN utf8_one_byte_decode(g)
        ELSE IF n = 1 THEN utf8_two_byte_decode(g)
        ELSE IF n = 2 THEN utf8_three_byte_decode(g)
        ELSE utf8_four_byte_decode(g)

----------------------------------------------------------------------------
(* UTF-16                                                                  *)

\* The value of the two bytes at i as the machine's uint16_t, and back.
Native(g, i) == g[i] + 256 * g[i + 1]
Memory(u)    == <<u % 256, u \div 256>>
\* reverse_bytes(p, 2)
Reversed(p)  == <<p[2], p[1]>>

is_upper_surrogate_pair(u) == u > 55296 /\ u < 56319

is_code_point_surrogate(cp) == cp >= 65536

\* upper_bytes and lower_bytes of the glyph of a code point.
Upper(cp) == IF is_code_point_surrogate(cp)
             THEN ((cp - 65536) \div 1024 + 55296) % 65536
             ELSE cp % 65536
Lower(cp) == IF is_code_point_surrogate(cp) THEN (cp % 1024) + 56320 ELSE 0

\* The bytes written for a code point; in the big-endian form the two
\* halves are reversed in memory first.
code_point_to_utf16le_glyph(cp) ==
    IF is_code_point_surrogate(cp)
    THEN Memory(Upper(cp)) \o Memory(Lower(cp))
    ELSE Memory(Upper(cp))

code_point_to_utf16be_glyph(cp) ==
    IF is_code_point_surrogate(cp)
    THEN Reversed(Memory(Upper(cp))) \o Reversed(Memory(Lower(cp)))
    ELSE Reversed(Memory(Upper(cp)))

\* utf16be_glyph_to_code_point and utf16le_glyph_to_code_point are one text.
utf16_glyph_to_code_point(upper, lower) ==
    IF is_upper_surrogate_pair(upper)
    THEN 65536 + (upper - 55296) * 1024 + (lower - 56320)
    ELSE upper
=============================================================================
