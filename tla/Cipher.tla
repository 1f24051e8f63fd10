------------------------------- MODULE Cipher -------------------------------
(***************************************************************************)
(* hw1: validargs() reads the words of the command line one by one, then   *)
(* activateCrypto() reads its input a character at a time and encrypts or  *)
(* decrypts it with a Polybius square or with fractionated Morse.  What the*)
(* two ciphers keep between characters is the static data of hw1.c, here   *)
(* the record m; each C function is an operator from one m to the next.    *)
(* After an encryption that went well the output may be given to a second  *)
(* run of the program, with -d and the other words unchanged ("decode").   *)
(* Characters are ASCII codes.  A Morse code is 0 for a dot, 1 for a dash  *)
(* and 2 for the x that ends a letter, as in indexOfCode().                *)
(***************************************************************************)
EXTENDS Integers, FiniteSets, SequencesExt

CONSTANTS Keys, Numbers,        \* operands given to -k, and to -r and -c
          Chars,                \* what the input is made of
          MaxWords,             \* bound on the flags of a command line
          MaxPoly, MaxFM,       \* bounds on the characters of an input
          NULL

\* Arguments hold no '\0' and neither it nor EOF is part of an input.
ASSUME CipherAssumption ==
    /\ Keys \subseteq Seq(Int) /\ Numbers \subseteq Int /\ Chars \subseteq Int \ {-1, 0}
    /\ NULL \notin Keys /\ NULL \notin Numbers
    /\ MaxWords \in Nat /\ MaxPoly \in Nat /\ MaxFM \in Nat

Space == 32
Newline == 10
NoOperand == NULL               \* argv[argc]

VARIABLES stage,                \* where the program is, or how it ended
          args,                 \* the local variables of validargs()
          asked,                \* history: the words it has accepted
          mode,                 \* what validargs() returned, 16 bits
          table,                \* polybius_table or fm_key
          m,                    \* the static variables of hw1.c, and stdout
          text, pipe,           \* history: what was typed; left to decode
          stale                 \* the stack after a character holds a digit

vars == <<stage, args, asked, mode, table, m, text, pipe, stale>>

-----------------------------------------------------------------------------
(* const.c                                                                 *)

polybius_alphabet == [i \in 1 .. 94 |-> 32 + i]
fm_alphabet == [i \in 1 .. 26 |-> 64 + i]
AlphabetOf(pf) == IF pf = "p" THEN polybius_alphabet ELSE fm_alphabet

\* A letter's codes are the binary digits after the first: 5 is ".-", 1 is "".
morse_table ==
    << 107, 82, 1, 1, 1, 1, 94, 54, 109, 1, 1, 115, 97, 85, 1, 63, 47, 39, 35,
       33, 32, 48, 56, 60, 62, 120, 106, 1, 49, 1, 76, 90,
       5, 24, 26, 12, 2, 18, 14, 16, 4, 23, 13, 20, 7, 6, 15, 22, 29, 10, 8, 3,
       9, 17, 11, 25, 27, 28 >> \o [i \in 1 .. 32 |-> 1]

CodesOf(n) ==
    LET code[k \in 0 .. 127] == IF k <= 1 THEN <<>> ELSE Append(code[k \div 2], k % 2)
    IN  code[n]

\* fractionated_table lists the triples in order: the base 3 digits of 0 to 25.
fractionated_table(i) == <<i \div 9, (i \div 3) % 3, i % 3>>

-----------------------------------------------------------------------------
(* validargs(): one word, and the operand after it, at a time.             *)

NoArgs == [pf |-> "none", crypt |-> "none", key |-> <<>>, row |-> 10, col |-> 10]

\* Mutant: a repeated character passes.
validateKey_repeats(key, pf) == key # NoOperand /\ Range(key) \subseteq Range(AlphabetOf(pf))

validateKey(key, pf) ==
    /\ key # NoOperand
    /\ IsInjective(key)
    /\ Range(key) \subseteq Range(AlphabetOf(pf))

\* True for a square the code accepts.
validateRowAndCol(row, col) == row \in 9 .. 15 /\ col \in 9 .. 15 /\ row * col > 94

Rejected(w, v) ==
    \/ w = "-f" /\ args.pf = "p"
    \/ w = "-p" /\ args.pf = "f"
    \/ w \in {"-e", "-d"} /\ (args.pf = "none" \/ args.crypt # "none")
    \/ w = "-k" /\ (args.pf = "none" \/ args.crypt = "none" \/ ~validateKey(v, args.pf))
    \/ w \in {"-r", "-c"} /\ (args.pf # "p" \/ args.crypt = "none")
    \/ w = "-x"

\* (unsigned short)atoi()
Short(v) == v % 65536

Accepted(w, v) ==
    CASE w \in {"-f", "-p"} -> [args EXCEPT !.pf = IF w = "-f" THEN "f" ELSE "p"]
      [] w \in {"-e", "-d"} -> [args EXCEPT !.crypt = IF w = "-d" THEN "d" ELSE "e"]
      [] w = "-k" -> [args EXCEPT !.key = v]
      [] w = "-r" -> [args EXCEPT !.row = Short(v)]
      [] w = "-c" -> [args EXCEPT !.col = Short(v)]

Operands(w) == CASE w = "-k" -> Keys \union {NoOperand}
                 [] w \in {"-r", "-c"} -> Numbers \union {NoOperand}
                 [] OTHER -> {NoOperand}

\* atoi(NULL) is a crash; NULL after -k is a fault.
Word(w, v) ==
    /\ stage = "args"
    /\ Len(asked) < MaxWords
    /\ v \in Operands(w)
    /\ IF w = "-h" THEN stage' = "help" /\ UNCHANGED <<args, asked>>
       ELSE IF Rejected(w, v) THEN stage' = "usage" /\ UNCHANGED <<args, asked>>
       ELSE IF w \in {"-r", "-c"} /\ v = NoOperand
            THEN stage' = "crashed" /\ UNCHANGED <<args, asked>>
       ELSE /\ args' = Accepted(w, v)
            /\ asked' = Append(asked, <<w, v>>)
            /\ UNCHANGED stage
    /\ UNCHANGED <<mode, table, m, text, pipe, stale>>

\* The key, then the rest of the alphabet in its order.
initCipherTable(key, pf) ==
    LET abc == AlphabetOf(pf)
        tab[i \in 0 .. Len(abc)] ==
            IF i = 0 THEN key
            ELSE IF abc[i] \in Range(key) THEN tab[i - 1] ELSE Append(tab[i - 1], abc[i])
    IN  tab[Len(abc)]

\* What the loader puts into the static variables of hw1.c; 3 is '\0'.
Static == [posit |-> <<3, 3, 3>>, curPosit |-> 0, checkAlreadySpace |-> FALSE,
           anti |-> 1, xIsDetected |-> FALSE, inputRow |-> -1,
           status |-> "ok", out |-> <<>>]

\* FMC_CODE, DCRPT_CODE, and DFLTRC_CODE, whose two halves are ten; a count that
\* is not ten takes the place of its half.
Half(u, bit, n) == IF n = 10 THEN u ELSE u - ((u \div bit) % 16) * bit + n * bit
usageCode(a) ==
    LET u == (IF a.pf = "f" THEN 16384 ELSE 170) + (IF a.crypt = "d" THEN 8192 ELSE 0)
    IN  Half(Half(u, 16, a.row), 1, a.col)

fm  == (mode \div 16384) % 2 = 1
dec == (mode \div 8192) % 2 = 1
row == (mode \div 16) % 16
col == mode % 16

\* The end of the words: usage, or a mode, and the table activateCrypto() sets up.
EndOfWords ==
    /\ stage = "args"
    /\ IF asked = <<>> \/ ~validateRowAndCol(args.row, args.col)
       THEN stage' = "usage" /\ UNCHANGED <<mode, table>>
       ELSE /\ stage' = "ready"
            /\ mode' = usageCode(args)
            /\ table' = initCipherTable(args.key, args.pf)
    /\ UNCHANGED <<args, asked, m, text, pipe, stale>>

\* The loop is entered; the words are not looked at again and are forgotten.
activateCrypto ==
    /\ stage = "ready"
    /\ stage' = IF dec THEN "decrypt" ELSE "encrypt"
    /\ stale' \in {FALSE, dec /\ ~fm}
    /\ asked' = <<>> /\ args' = NoArgs
    /\ UNCHANGED <<mode, table, m, text, pipe>>

\* Where a character is in the table, from 0.
Place(c) == Min({i \in DOMAIN table : table[i] = c}) - 1

Printed(r, c) == [r EXCEPT !.out = Append(@, c)]
Failed(r) == [r EXCEPT !.status = "failed"]

-----------------------------------------------------------------------------
(* doPolybiusCipher()                                                      *)

Hex(d) == IF d < 10 THEN 48 + d ELSE 55 + d

HexDigits == (48 .. 57) \union (65 .. 70) \union (97 .. 102)
HexVal(c) == IF c <= 57 THEN c - 48 ELSE IF c <= 70 THEN c - 55 ELSE c - 87

\* strtol() is given the address of one character: when the byte of the stack
\* that follows it happens to be a digit (here 8) it is read as well.
strtol(c) == IF c \in HexDigits THEN IF stale THEN 16 * HexVal(c) + 8 ELSE HexVal(c)
             ELSE IF c \in 9 .. 13 /\ stale THEN 8 ELSE 0

\* Mutant: the place in the square is taken by the number of rows.
PolybiusEncrypt_byRows(c, r) ==
    IF c = Space THEN Printed(r, Space)
    ELSE IF c \notin Range(table) THEN r
    ELSE Printed(Printed(r, Hex(Place(c) \div row)), Hex(Place(c) % row))

\* A character that is not in the table prints nothing.
PolybiusEncrypt(c, r) ==
    IF c = Space THEN Printed(r, Space)
    ELSE IF c \notin Range(table) THEN r
    ELSE Printed(Printed(r, Hex(Place(c) \div col)), Hex(Place(c) % col))

\* The first digit waits in inputRow.  The check of the second looks at the
\* first again, so a column of any size passes; past the table '\0' is printed.
PolybiusDecrypt(c, r) ==
    IF c = Space THEN Printed(r, Space)
    ELSE IF r.inputRow = -1
         THEN IF strtol(c) > 15 THEN Failed(r) ELSE [r EXCEPT !.inputRow = strtol(c)]
         ELSE LET ptr == r.inputRow * col + strtol(c)
              IN  [Printed(r, IF ptr < 94 THEN table[ptr + 1] ELSE 0)
                      EXCEPT !.inputRow = -1]

-----------------------------------------------------------------------------
(* doFMCipher(), encryption                                                *)

giveCodeToPosit(r, code) == [r EXCEPT !.posit[r.curPosit + 1] = code,
                                      !.curPosit = (@ + 1) % 3]

isSpaceAhead(r) == r.posit = <<3, 3, 3>> /\ r.curPosit = 0

\* "xxx" would be the letter after the last: it is not printed.
doMorseEncryptAndPrint(r) ==
    LET index(i) == IF r.posit[i] = 3 THEN 2 ELSE r.posit[i]
        ptr      == index(1) * 9 + index(2) * 3 + index(3)
    IN  IF ptr < 26 THEN Printed(r, table[ptr + 1]) ELSE r

\* A code goes into its slot, and the third one prints a letter.
Give(r, code) ==
    LET full == giveCodeToPosit(r, code)
    IN  IF full.curPosit = 0 THEN doMorseEncryptAndPrint(full) ELSE full

GiveAll(r, codes) ==
    LET give[i \in 0 .. Len(codes)] == IF i = 0 THEN r ELSE Give(give[i - 1], codes[i])
    IN  give[Len(codes)]

\* The entry of morse_table for c.  The table is four entries short of the
\* alphabet: what follows it in memory is two null pointers (0 here) and the
\* first triples of fractionated_table.  For a character outside the alphabet
\* the pointer is never written: any entry, or a wild one.
translateCode(c) ==
    IF c \in 33 .. 122 THEN {morse_table[c - 32]}
    ELSE IF c \in 123 .. 126 THEN {0, 8, 9}
    ELSE {0} \union {morse_table[d - 32] : d \in Chars \intersect (33 .. 122)}

EncryptLetter(r, entry) ==
    IF entry = 0 THEN [r EXCEPT !.status = "crashed"]
    ELSE IF entry = 1 THEN Failed([r EXCEPT !.checkAlreadySpace = FALSE])
    ELSE Give(GiveAll([r EXCEPT !.checkAlreadySpace = FALSE], CodesOf(entry)), 2)

EncryptSpace(r) ==
    LET ahead == IF isSpaceAhead(r) THEN giveCodeToPosit(r, 2) ELSE r
    IN  IF r.checkAlreadySpace THEN ahead
        ELSE [Give(ahead, 2) EXCEPT !.checkAlreadySpace = TRUE]

FMEncrypt(c, r) == IF c = Space THEN {EncryptSpace(r)}
                   ELSE {EncryptLetter(r, n) : n \in translateCode(c)}

-----------------------------------------------------------------------------
(* doFMCipher(), decryption                                                *)

\* antiTranslateCode and lengthOfCode together are a number like those of
\* morse_table; a code longer than six is in no entry, whatever its bits.
doAntiTranslateMorse(r) ==
    LET at == {i \in DOMAIN morse_table : morse_table[i] = r.anti}
    IN  [Printed(r, IF at = {} THEN 0 ELSE polybius_alphabet[Min(at)]) EXCEPT !.anti = 1]

TakeCode(r, code) ==
    IF code # 2 THEN [r EXCEPT !.anti = 2 * @ + code, !.xIsDetected = FALSE]
    ELSE IF r.xIsDetected /\ r.anti = 1
         THEN [Printed(r, Space) EXCEPT !.xIsDetected = FALSE]
    ELSE [doAntiTranslateMorse(r) EXCEPT !.xIsDetected = TRUE]

FMDecrypt(c, r) ==
    IF c \notin 65 .. 90 THEN Failed(r)
    ELSE LET t == fractionated_table(Place(c))
         IN  TakeCode(TakeCode(TakeCode(r, t[1]), t[2]), t[3])

-----------------------------------------------------------------------------
(* activateCrypto()                                                        *)

\* Mutant: the codes that are left wait for the next line.
EncryptNewline_keepsCodes(r) ==
    LET flushed == IF r.curPosit = 2 /\ r.posit[2] = 2 THEN EncryptSpace(r) ELSE r
    IN  [Printed(flushed, Newline) EXCEPT !.checkAlreadySpace = FALSE]

\* The end of a line: the residual codes are flushed, the state starts afresh.
EncryptNewline(r) ==
    LET flushed == IF r.curPosit = 2 /\ r.posit[2] = 2 THEN EncryptSpace(r) ELSE r
    IN  [Printed(flushed, Newline) EXCEPT !.posit = <<3, 3, 3>>, !.curPosit = 0,
                                          !.checkAlreadySpace = FALSE]

\* Mutant: no Z is decrypted for the codes that are left.
DecryptNewline_noFlush(r) ==
    [Printed(r, Newline) EXCEPT !.anti = 1, !.xIsDetected = FALSE, !.inputRow = -1]

DecryptNewline(r) ==
    LET flushed == IF r.anti > 1 THEN FMDecrypt(90, r) ELSE r
    IN  [Printed(flushed, Newline) EXCEPT !.anti = 1, !.xIsDetected = FALSE,
                                          !.inputRow = -1]

Encrypted(c, r) == IF c = Newline THEN {EncryptNewline(r)}
                   ELSE IF fm THEN FMEncrypt(c, r) ELSE {PolybiusEncrypt(c, r)}

Decrypted(c, r) == IF c = Newline THEN DecryptNewline(r)
                   ELSE IF fm THEN FMDecrypt(c, r) ELSE PolybiusDecrypt(c, r)

Advance(r) == /\ m' = r
              /\ stage' = IF r.status = "ok" THEN stage
                          ELSE IF stage = "decode" THEN "undecoded" ELSE r.status

Typed(c) == /\ Len(text) < (IF fm THEN MaxFM ELSE MaxPoly)
            /\ text' = Append(text, c)
            /\ UNCHANGED <<args, asked, mode, table, pipe, stale>>

Encrypt(c) == /\ stage = "encrypt"
              /\ Typed(c)
              /\ \E r \in Encrypted(c, m) : Advance(r)

Decrypt(c) == /\ stage = "decrypt"
              /\ Typed(c)
              /\ Advance(Decrypted(c, m))

\* The second run reads what the first one printed.
Decode == /\ stage = "decode"
          /\ pipe # <<>>
          /\ pipe' = Tail(pipe)
          /\ Advance(Decrypted(Head(pipe), m))
          /\ UNCHANGED <<args, asked, mode, table, text, stale>>

\* fgetc() returns EOF.  An encryption may be followed by a run that decodes it;
\* its table is built anew from the same words.
EndOfInput ==
    /\ \/ stage \in {"encrypt", "decrypt"} /\ stage' = "done" /\ UNCHANGED <<m, pipe, stale>>
       \/ /\ stage = "encrypt"
          /\ stage' = "decode"
          /\ pipe' = m.out
          /\ m' = Static
          /\ stale' \in {FALSE, ~fm}
       \/ /\ stage = "decode" /\ pipe = <<>>
          /\ stage' = "decoded"
          /\ UNCHANGED <<m, pipe, stale>>
    /\ UNCHANGED <<args, asked, mode, table, text>>

Init ==
    /\ stage = "args" /\ args = NoArgs /\ asked = <<>> /\ mode = 0
    /\ table = <<>> /\ m = Static
    /\ text = <<>> /\ pipe = <<>>
    /\ stale = FALSE

Flags == {"-h", "-f", "-p", "-e", "-d", "-k", "-r", "-c", "-x"}

Next == \/ \E w \in Flags : \E v \in Operands(w) : Word(w, v)
        \/ EndOfWords
        \/ activateCrypto
        \/ \E c \in Chars : Encrypt(c) \/ Decrypt(c)
        \/ Decode
        \/ EndOfInput

Spec == Init /\ [][Next]_vars

-----------------------------------------------------------------------------
(* Properties                                                              *)

LastOperand(w, default) ==
    LET at == {i \in DOMAIN asked : asked[i][1] = w}
    IN  IF at = {} THEN default ELSE asked[Max(at)][2]

Asked(w) == \E i \in DOMAIN asked : asked[i][1] = w

\* Whatever the words and their order, a cipher that starts is the one that was
\* asked for: its direction, the last row and column count given (as 16 bits),
\* and a table that starts with the last key and holds each character of the
\* alphabet once, in a square whose positions have one digit each (validargs,
\* validateKey, validateRowAndCol, initCipherTable).
CommandHonoured ==
    stage = "ready" =>
        /\ mode < 32768 /\ dec = Asked("-d") /\ fm = Asked("-f") /\ fm = ~Asked("-p")
        /\ IsPrefix(LastOperand("-k", <<>>), table)
        /\ IsInjective(table) /\ Range(table) = Range(AlphabetOf(args.pf))
        /\ ~fm => /\ row = Short(LastOperand("-r", 10)) /\ col = Short(LastOperand("-c", 10))
                  /\ \A i \in 0 .. 93 : i \div col < row

\* What fractionated Morse can carry, and what the first letter of a line may be.
HasMorse(c) == c \in 33 .. 122 /\ morse_table[c - 32] > 1

Line(s) == LET ends == {i \in DOMAIN s : s[i] = Newline} \union {0}
           IN  SubSeq(s, Max(ends) + 1, Len(s))

\* The codes of a line: an x after each letter, one more for the spaces after it,
\* two for those that begin the line.
Stream(s) ==
    FlattenSeq([i \in DOMAIN s |->
        IF s[i] # Space THEN CodesOf(morse_table[s[i] - 32]) \o <<2>>
        ELSE IF i = 1 THEN <<2, 2>> ELSE IF s[i - 1] = Space THEN <<>> ELSE <<2>>])

\* While a line is encrypted, the letters printed for it and the codes that wait
\* in the three slots are together exactly the Morse codes of the characters read
\* (giveCodeToPosit, doMorseEncryptAndPrint, isSpaceAhead): no triple is printed
\* twice, dropped or made of the codes of another line.
LettersInStep ==
    stage = "encrypt" /\ fm
        /\ (\A i \in DOMAIN text : text[i] \in {Space, Newline} \/ HasMorse(text[i])) =>
    LET printed == Line(m.out)
    IN  FlattenSeq([i \in DOMAIN printed |-> fractionated_table(Place(printed[i]))])
            \o SubSeq(m.posit, 1, m.curPosit) = Stream(Line(text))

\* A text without the characters that are in no square.
Kept(s) == FlattenSeq([i \in DOMAIN s |->
    IF s[i] \in Range(polybius_alphabet) \union {Space, Newline} THEN <<s[i]>> ELSE <<>>])

\* What Polybius encryption printed decrypts, with the same key and square, to
\* the text, unless the bytes after a character on the stack change what strtol()
\* reads (doPolybiusCipher).  The characters that are in no table are either all
\* there or all missing: const.c 4-6 says that they should be preserved, the code
\* drops them (hw1.c 200-212).
PolybiusRoundTrip ==
    ~fm /\ ~stale =>
        /\ stage # "undecoded"
        /\ stage = "decoded" => m.out \in {text, Kept(text)}

\* A text with one space for each gap, and none where a line or the text ends.
Squeezed(s) ==
    FlattenSeq([i \in DOMAIN s |->
        IF s[i] = Space THEN <<>>
        ELSE IF s[i] # Newline /\ i > 1 /\ s[i - 1] = Space THEN <<Space, s[i]>>
        ELSE <<s[i]>>])

StartsALine(i) == i = 1 \/ text[i - 1] = Newline

\* Fractionated Morse gives back the words of every line: a second run with the
\* same words reads the first one's letters, never fails, and prints the text
\* with the spaces of each gap made one.  Three kinds of input are outside it:
\* characters without a code, a space at the head of a line (it comes back as
\* "# "), and a key with a Z, whose triple is then not the "xx-" that hw1.c:403-412
\* ends a line with.  Without a last newline the end of the last word may be
\* missing, never anything else.
MorseRoundTrip ==
    fm /\ table[26] = 90
        /\ (\A i \in DOMAIN text : \/ text[i] = Newline \/ HasMorse(text[i])
                                   \/ text[i] = Space /\ ~StartsALine(i)) =>
    /\ stage \notin {"undecoded", "crashed"}
    /\ stage = "decoded" =>
          /\ IsPrefix(Squeezed(m.out), Squeezed(text))
          /\ text = <<>> \/ Last(text) = Newline => Squeezed(m.out) = Squeezed(text)
=============================================================================
