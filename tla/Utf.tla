-------------------------------- MODULE Utf --------------------------------
(***************************************************************************)
(* The hw2 converter: main() takes the words of its command line apart,    *)
(* reads the byte order mark of INPUT_FILE, opens the two files, and runs  *)
(* the conversion loop that get_encoding_function() picks, one glyph per   *)
(* turn, until read(2) returns no more bytes.  Files are sequences of      *)
(* bytes with an offset each.  Any open, read or write may fail, at most   *)
(* MaxFaults times in a run.                                               *)
(***************************************************************************)
EXTENDS UtfCodec, FiniteSets

CONSTANTS
    Standard,    \* [code point -> [utf8 |-> bytes, utf16 |-> units]], the
                 \* encodings the Unicode standard prints, data of the inputs
    Inputs,      \* the input files tried: [format, text, cut]
    Argvs,       \* the command lines tried, argv[1] and on; "in" and "out" are
                 \* the files there are, and no line names one twice
    Dashed,      \* the words that are '-' and more
    Olds,        \* what OUTPUT_FILE may hold before the run
    Garbage,     \* what the glyph buffer on the stack may hold
    MaxFaults    \* bound on the failing system calls of one run

Formats == {"UTF8", "UTF16LE", "UTF16BE"}

Bom == 65279

\* -e and its argument as one word
Joined == [UTF8 |-> "-eUTF8", UTF16LE |-> "-eUTF16LE", UTF16BE |-> "-eUTF16BE"]

\* A code point that is no half of a pair, and its encodings as RFC 3629 and
\* RFC 2781 lay them out.
Scalar(cp) == cp \in Nat /\ cp < 1114112 /\ (cp < 55296 \/ cp > 57343)

Standard8(cp) ==
    IF cp < 128 THEN <<cp>>
    ELSE IF cp < 2048 THEN <<192 + (cp \div 64), 128 + (cp % 64)>>
    ELSE IF cp < 65536
         THEN <<224 + (cp \div 4096), 128 + ((cp \div 64) % 64), 128 + (cp % 64)>>
    ELSE <<240 + (cp \div 262144), 128 + ((cp \div 4096) % 64),
           128 + ((cp \div 64) % 64), 128 + (cp % 64)>>

Standard16(cp) ==
    IF cp < 65536 THEN <<cp>> ELSE <<55296 + ((cp - 65536) \div 1024), 56320 + (cp % 1024)>>

\* Texts are made of code points whose encoding is known; the mark heads none
\* that is to be a file without one.
IsInput(format, text, cut) ==
    /\ format \in Formats \union {"none"} /\ text \in Seq(DOMAIN Standard) /\ cut \in Nat
    /\ format = "none" /\ text # <<>> => text[1] # Bom

ASSUME UtfAssumption ==
    /\ MaxFaults \in Nat
    /\ Argvs \subseteq Seq(STRING)
    /\ {"-e", "--"} \union {Joined[f] : f \in Formats} \subseteq Dashed
    /\ Dashed \intersect (Formats \union {"in", "out", "none"}) = {}
    /\ Olds \subseteq Seq(Byte)
    /\ Garbage \subseteq [1 .. 4 -> Byte]
    /\ \A cp \in DOMAIN Standard :
           Scalar(cp) /\ Standard[cp].utf8 = Standard8(cp) /\ Standard[cp].utf16 = Standard16(cp)
    /\ Bom \in DOMAIN Standard
    /\ \A in \in Inputs : IsInput(in.format, in.text, in.cut)

VARIABLES
    input,       \* what the file "in" is, a member of Inputs
    argv,        \* the command line
    in_file, out_file,   \* program_state, "NULL" until a name is found
    file,        \* the bytes of in_file
    to,          \* program_state->encoding_to ("none": no -e among the words)
    from,        \* program_state->encoding_from
    pc,          \* where main() is
    off,         \* file offset of infile
    out, wpos,   \* the bytes of out_file and the offset of outfile
    buf,         \* the glyph buffer of the loop, four bytes
    faults       \* system calls that failed so far

line == <<input, argv, in_file, out_file>>
vars == <<line, file, to, from, pc, off, out, wpos, buf, faults>>

----------------------------------------------------------------------------
(* Input files: standard text, as another program wrote it.                *)

Pair(f, u) == IF f = "UTF16LE" THEN <<u % 256, u \div 256>> ELSE <<u \div 256, u % 256>>

\* One code point as the standard encodes it in format f.
Encoded(f, cp) ==
    IF f = "UTF8" THEN Standard[cp].utf8
    ELSE LET u == Standard[cp].utf16
         IN  IF Len(u) = 1 THEN Pair(f, u[1]) ELSE Pair(f, u[1]) \o Pair(f, u[2])

\* The encoding of the first k code points of a text.
EncodedTo(f, text, k) ==
    LET enc[i \in 0 .. Len(text)] ==
            IF i = 0 THEN <<>> ELSE enc[i - 1] \o Encoded(f, text[i])
    IN  enc[k]

\* The mark is the code point U+FEFF at the head of the file ...
Marked(text) == <<Bom>> \o text
Whole(f, text) == EncodedTo(f, Marked(text), Len(text) + 1)

\* ... "none" is a file without one; cut bytes are missing at the end.
FileOf(in) ==
    LET all == IF in.format = "none" THEN EncodedTo("UTF8", in.text, Len(in.text))
               ELSE Whole(in.format, in.text)
    IN  SubSeq(all, 1, Len(all) - in.cut)

----------------------------------------------------------------------------
(* check_bom() and get_encoding_function()                                 *)

\* enum format_t, with 0 for a flag that was not given
Code == [UTF16LE |-> 65534, UTF16BE |-> 65279, UTF8 |-> 12565487, none |-> 0]

Recognized ==
    LET b == SubSeq(file, 1, 3)
    IN  IF b[1] + 256 * b[2] + 65536 * b[3] = Code["UTF8"] THEN {"UTF8"}
        ELSE {f \in {"UTF16LE", "UTF16BE"} : 256 * b[1] + b[2] = Code[f]}

\* Mutant: a switch without the case utf16be_to_utf8.
Routes_noBeTo8(d) ==
    {r \in Formats \X Formats : /\ r[1] # r[2] /\ Code[r[1]] - Code[r[2]] = d
                                /\ r # <<"UTF16BE", "UTF8">>}

\* The case labels of the switch: differences of two codes.
Routes(d) == {r \in Formats \X Formats : r[1] # r[2] /\ Code[r[1]] - Code[r[2]] = d}

translate == Code[from] - Code[to]

----------------------------------------------------------------------------
(* System calls                                                            *)

\* The offset after reading n bytes.
Clip(n) == IF off + n < Len(file) THEN off + n ELSE Len(file)

\* read(2) of n bytes into a buffer at index i: what is there, the rest stale.
Fill(g, i, from_, n) ==
    [j \in DOMAIN g |->
        IF j >= i /\ j < i + n /\ from_ + (j - i) < Len(file)
        THEN file[from_ + (j - i) + 1] ELSE g[j]]

\* write(2) at the offset of outfile; what lies beyond stays (no O_TRUNC).
Overlay(bs) ==
    SubSeq(out, 1, wpos) \o bs \o SubSeq(out, wpos + Len(bs) + 1, Len(out))

Written == SubSeq(out, 1, wpos)

\* Mutant: a write cut short is repeated from its first byte.
Write_retries(bs) ==
    \/ /\ out' = Overlay(bs)
       /\ wpos' = wpos + Len(bs)
       /\ UNCHANGED faults
    \/ /\ faults < MaxFaults
       /\ faults' = faults + 1
       /\ out' = Overlay(bs \o bs)
       /\ wpos' = wpos + 2 * Len(bs)

\* write_to_bigendian(): a failed write is not noticed, the bytes are lost.
Write(bs) ==
    \/ /\ out' = Overlay(bs)
       /\ wpos' = wpos + Len(bs)
       /\ UNCHANGED faults
    \/ /\ faults < MaxFaults
       /\ faults' = faults + 1
       /\ UNCHANGED <<out, wpos>>

----------------------------------------------------------------------------
(* main()                                                                  *)

Init ==
    /\ input \in Inputs
    /\ file = FileOf(input)
    /\ argv \in Argvs /\ in_file = "NULL" /\ out_file = "NULL"
    /\ to = "none"
    /\ from = "none"
    /\ pc = "args"
    /\ off = 0
    /\ out \in Olds
    /\ wpos = 0
    /\ buf \in Garbage
    /\ faults = 0

determine_format(word) == IF word \in Formats THEN word ELSE "none"

\* getopt(3) of the C library with "e:": names are moved behind the options.
\* value is what the last -e was given, wrong that some word is not to be had.
Scan(s, word) ==
    IF s.waits
    THEN [s EXCEPT !.waits = FALSE, !.value = word, !.wrong = @ \/ word \notin Formats]
    ELSE IF s.over \/ word \notin Dashed
    THEN [s EXCEPT !.names = Append(@, word)]
    ELSE IF word \in {"-e", "--"}
    THEN [s EXCEPT !.waits = (word = "-e"), !.over = (word = "--")]
    ELSE IF \E f \in Formats : word = Joined[f]
    THEN [s EXCEPT !.value = CHOOSE f \in Formats : word = Joined[f]]
    ELSE [s EXCEPT !.wrong = TRUE]

Getopt(ws) ==
    LET start == [waits |-> FALSE, value |-> "none", wrong |-> FALSE, over |-> FALSE,
                  names |-> <<>>]
        scan[i \in 0 .. Len(ws)] == IF i = 0 THEN start ELSE Scan(scan[i - 1], ws[i])
    IN  scan[Len(ws)]

\* Mutant: argc < 5.
Counted_atLeast(ws) == Len(ws) >= 4

\* argc # 5 is an error.
Counted(ws) == Len(ws) = 4

Disk(name) == IF name = "in" THEN file ELSE IF name = "out" THEN out ELSE <<>>

\* parse_args(): without a name after the options the files are argv[1] and on,
\* options or not; names past the second are dropped.
parse_args ==
    /\ pc = "args"
    /\ LET got     == Getopt(argv)
           names   == IF got.names = <<>> THEN argv ELSE got.names
           Name(i) == IF i <= Len(names) THEN names[i] ELSE "NULL"
       IN  IF ~Counted(argv) \/ got.wrong \/ got.waits
           THEN /\ pc' = "failed"
                /\ UNCHANGED <<in_file, out_file, file, out, to>>
           ELSE /\ pc' = "bom"
                /\ in_file' = Name(1) /\ file' = Disk(Name(1))
                /\ out_file' = Name(2) /\ out' = Disk(Name(2))
                /\ to' = determine_format(got.value)
    /\ UNCHANGED <<input, argv, from, off, wpos, buf, faults>>

\* check_bom(): the file opens and three bytes are read, the mark is known, or
\* the program ends.
check_bom ==
    /\ pc = "bom"
    /\ \/ /\ IF in_file \notin {"in", "out"} \/ Len(file) < 3 \/ Recognized = {}
             THEN /\ pc' = "failed"
                  /\ UNCHANGED from
             ELSE /\ from' \in Recognized
                  /\ pc' = "open"
          /\ UNCHANGED faults
       \/ /\ faults < MaxFaults
          /\ pc' = "failed"
          /\ faults' = faults + 1
          /\ UNCHANGED from
    /\ UNCHANGED <<line, file, to, off, out, wpos, buf>>

\* Open() twice and lseek(SEEK_SET, bom_length, infile): the arguments are in
\* the order whence, offset, descriptor, so it is descriptor 0 that is asked.
OpenFiles ==
    /\ pc = "open"
    /\ \/ /\ out_file # "NULL"
          /\ pc' = "start"
          /\ off' = 0
          /\ UNCHANGED faults
       \/ /\ faults < MaxFaults
          /\ pc' = "failed"
          /\ faults' = faults + 1
          /\ UNCHANGED off
       \/ /\ out_file = "NULL"
          /\ pc' = "failed"
          /\ UNCHANGED <<off, faults>>
    /\ UNCHANGED <<line, file, to, from, out, wpos, buf>>

\* The mark each conversion writes; UTF8 is an int of which 4 bytes go out.
Header(f) == CASE f = "UTF16LE" -> <<255, 254>>
               [] f = "UTF16BE" -> <<254, 255>>
               [] f = "UTF8" -> <<239, 187, 191, 0>>

\* transcribe(): sendfile() of the whole file.
transcribe ==
    /\ pc = "start"
    /\ translate = 0
    /\ Write(file)
    /\ off' = IF faults' = faults THEN Len(file) ELSE off
    /\ pc' = "done"
    /\ UNCHANGED <<line, file, to, from, buf>>

\* The conversion is called and writes its mark, or a null pointer is called.
StartConversion ==
    /\ pc = "start"
    /\ translate # 0
    /\ IF Routes(translate) = {}
       THEN /\ pc' = "crashed"
            /\ UNCHANGED <<out, wpos, faults>>
       ELSE /\ pc' = "loop"
            /\ \E r \in Routes(translate) : Write(Header(r[2]))
    /\ UNCHANGED <<line, file, to, from, off, buf>>

----------------------------------------------------------------------------
(* The conversion loops                                                    *)

Turn(a, b) == /\ pc = "loop"
              /\ off < Len(file)
              /\ <<a, b>> \in Routes(translate)

\* from_utf8_to_utf16le/be: first byte, the rest it announces, one glyph out.
\* At the end of the file the missing bytes keep the last glyph's values.
FromUtf8(b) ==
    /\ Turn("UTF8", b)
    /\ LET first == Fill(buf, 1, off, 1)
           n     == remaining_utf8_bytes(first[1])
           g     == Fill(first, 2, off + 1, n)
           cp    == utf8_decode(g)
       IN  /\ buf' = g
           /\ off' = Clip(1 + n)
           /\ Write(IF b = "UTF16LE" THEN code_point_to_utf16le_glyph(cp)
                    ELSE code_point_to_utf16be_glyph(cp))
    /\ UNCHANGED <<line, file, to, from, pc>>

\* Mutant: the second half of a pair is written as it was read.
Utf16Swap_oneHalf(a) ==
    /\ \E b \in {"UTF16LE", "UTF16BE"} \ {a} : Turn(a, b)
    /\ LET one  == Fill(buf, 1, off, 2)
           up   == Reversed(one)
           pair == is_upper_surrogate_pair(Native(up, 1))
           two  == Fill(one, 3, off + 2, 2)
       IN  /\ buf' = up \o <<two[3], two[4]>>
           /\ off' = Clip(IF pair THEN 4 ELSE 2)
           /\ Write(IF pair THEN up \o <<two[3], two[4]>> ELSE up)
    /\ UNCHANGED <<line, file, to, from, pc>>

\* from_utf16be_to_utf16le and its mirror: reverse a unit, and the next one
\* with it when the reversed unit reads as the first half of a pair.
Utf16Swap(a) ==
    /\ \E b \in {"UTF16LE", "UTF16BE"} \ {a} : Turn(a, b)
    /\ LET one  == Fill(buf, 1, off, 2)
           up   == Reversed(one)
           pair == is_upper_surrogate_pair(Native(up, 1))
           two  == Fill(one, 3, off + 2, 2)
           low  == Reversed(<<two[3], two[4]>>)
       IN  /\ buf' = up \o (IF pair THEN low ELSE <<one[3], one[4]>>)
           /\ off' = Clip(IF pair THEN 4 ELSE 2)
           /\ Write(IF pair THEN up \o low ELSE up)
    /\ UNCHANGED <<line, file, to, from, pc>>

\* from_utf16le_to_utf8 and from_utf16be_to_utf8.
ToUtf8(a) ==
    /\ Turn(a, "UTF8")
    /\ LET Ord(p) == IF a = "UTF16BE" THEN Reversed(p) ELSE p
           one  == Fill(buf, 1, off, 2)
           up   == Ord(<<one[1], one[2]>>)
           pair == is_upper_surrogate_pair(Native(up, 1))
           two  == Fill(one, 3, off + 2, 2)
           low  == IF pair THEN Ord(<<two[3], two[4]>>) ELSE <<one[3], one[4]>>
       IN  /\ buf' = up \o low
           /\ off' = Clip(IF pair THEN 4 ELSE 2)
           /\ Write(code_point_to_utf8_glyph(
                        utf16_glyph_to_code_point(Native(up, 1), Native(low, 1))))
    /\ UNCHANGED <<line, file, to, from, pc>>

\* Mutant: while(read() >= 0): the end of the file is not seen.
LoopEnds_onError ==
    /\ pc = "loop"
    /\ IF off = Len(file) THEN UNCHANGED <<pc, faults>>
       ELSE faults < MaxFaults /\ faults' = faults + 1 /\ pc' = "done"
    /\ UNCHANGED <<line, file, to, from, off, out, wpos, buf>>

\* The first read of a glyph returned 0, or failed: the loop is left and main()
\* returns EXIT_SUCCESS in either case.
LoopEnds ==
    /\ pc = "loop"
    /\ \/ off = Len(file) /\ UNCHANGED faults
       \/ faults < MaxFaults /\ faults' = faults + 1
    /\ pc' = "done"
    /\ UNCHANGED <<line, file, to, from, off, out, wpos, buf>>

\* The second read of a glyph failed: the loop is left too, nothing of the glyph
\* is written, and its first byte or unit has been read.
SecondReadFails(a, b) ==
    /\ Turn(a, b)
    /\ faults < MaxFaults
    /\ LET n    == IF a = "UTF8" THEN 1 ELSE 2
           one  == Fill(buf, 1, off, n)
           up   == IF a = "UTF8" \/ <<a, b>> = <<"UTF16LE", "UTF8">>
                   THEN <<one[1], one[2]>> ELSE Reversed(one)
       IN  /\ IF a = "UTF8" THEN remaining_utf8_bytes(up[1]) > 0
              ELSE is_upper_surrogate_pair(Native(up, 1))
           /\ off' = Clip(n)
           /\ buf' = up \o <<one[3], one[4]>>
    /\ faults' = faults + 1
    /\ pc' = "done"
    /\ UNCHANGED <<line, file, to, from, out, wpos>>

Finished == pc \in {"done", "failed", "crashed"} /\ UNCHANGED vars

Next ==
    \/ parse_args
    \/ check_bom
    \/ OpenFiles
    \/ transcribe
    \/ StartConversion
    \/ \E b \in {"UTF16LE", "UTF16BE"} : FromUtf8(b) \/ Utf16Swap(b) \/ ToUtf8(b)
    \/ \E a, b \in Formats : SecondReadFails(a, b)
    \/ LoopEnds
    \/ Finished

Spec == Init /\ [][Next]_vars /\ WF_vars(Next)

----------------------------------------------------------------------------
(* Properties                                                              *)

Converting == pc \in {"loop", "done"} /\ from # to /\ in_file = "in"

\* The text a loop reads: lseek() leaves the mark in front of it.
Read == Marked(input.text)

\* is_upper_surrogate_pair() leaves out D800 and DBFF, the first halves of
\* these code points.
Edge(cp) == is_code_point_surrogate(cp) /\ Standard[cp].utf16[1] \in {55296, 56319}
AllHalvesSeen == from = "UTF8" \/ \A i \in DOMAIN input.text : ~Edge(input.text[i])

\* Header, then the pieces of the output in format f for the first k code points
\* of a text, the pieces in lost (0 is the header) left out.
Without(f, text, lost, k) ==
    LET piece(j) == IF j \in lost THEN <<>>
                    ELSE IF j = 0 THEN Header(f) ELSE Encoded(f, text[j])
        cat[j \in 0 .. Len(text)] == IF j = 0 THEN piece(0) ELSE cat[j - 1] \o piece(j)
    IN  cat[k]

\* The offset is behind the first k code points; or inside the next one, where a
\* second read failed.
Consumed(k) == off = Len(EncodedTo(from, Read, k))
Inside(k) ==
    /\ pc = "done" /\ faults > 0 /\ k < Len(Read)
    /\ Len(EncodedTo(from, Read, k)) < off /\ off < Len(EncodedTo(from, Read, k + 1))

\* A conversion to or from UTF-8 stays in step: the bytes read are exactly the
\* first k code points of the file, and the bytes written exactly the header and
\* the same k code points as the standard encodes them in the other format (the
\* loops of utf8.c, utf16be.c and utf16le.c), but for one piece when a call
\* failed: neither write() nor the result of the loop is ever looked at.  Whether
\* the mark of the file, code point 1 of what is read, is written again behind
\* the header is left open: main.c 17 says "Discard BOM", and the code does not.
\* A truncated last glyph is outside it, and so are the pairs the code cannot
\* see.
TextInStep ==
    Converting /\ "UTF8" \in {from, to} /\ faults <= 1 /\ AllHalvesSeen
        /\ (input.cut = 0 \/ (faults = 0 /\ off < Len(file))) =>
    \E k \in 0 .. Len(Read) :
        /\ Consumed(k) \/ Inside(k)
        /\ \E i \in (IF faults = 0 THEN {-1} ELSE -1 .. k), mark \in {-1, 1} :
               Written = Without(to, Read, {i, mark}, k)

Swapped(bs) == [i \in DOMAIN bs |-> IF i % 2 = 1 THEN bs[i + 1] ELSE bs[i - 1]]

\* The last unit of the text, read with its bytes the wrong way around, looks
\* like the first half of a pair: UTF16LE is tested after the reversal.
LastLooksHigh ==
    /\ from = "UTF16LE"
    /\ input.text # <<>>
    /\ LET u == Standard[input.text[Len(input.text)]].utf16
       IN  is_upper_surrogate_pair(Native(Reversed(Memory(u[Len(u)])), 1))

\* Between the two UTF-16 forms the output is the header and the bytes read so
\* far, with the mark of the file or without it, every two of them exchanged,
\* whichever units the loop takes for pairs, unless a seeming pair has no second
\* half left to read.
SwapInStep ==
    Converting /\ "UTF8" \notin {from, to} /\ faults = 0 /\ input.cut = 0
        /\ ~LastLooksHigh =>
    \E mark \in {0, 2} : Written = Header(to) \o Swapped(SubSeq(file, mark + 1, off))

\* With the target format of the source transcribe() copies the file, mark
\* included; a null conversion is reached only when no -e was given.
CopyOrConvert ==
    /\ pc = "done" /\ from = to /\ faults = 0 => Written = file
    /\ pc = "crashed" => to = "none"

\* Word i of a line stands behind the "--" that ends the options, is a name, or
\* asks for format f.
Behind(ws, i) == \E j \in 1 .. i - 1 : ws[j] = "--"
IsName(ws, i) == Behind(ws, i) \/ (ws[i] \notin Dashed /\ (i = 1 \/ ws[i - 1] # "-e"))
AsksFor(ws, i, f) ==
    /\ ~Behind(ws, i)
    /\ ws[i] = Joined[f] \/ (i > 1 /\ ws[i - 1] = "-e" /\ ws[i] = f)

\* Up to the "--" there is no option but -e, and a format belongs to each.
WellFormed(ws) ==
    \A i \in 1 .. Len(ws) : ws[i] \in Dashed /\ ~Behind(ws, i) =>
        \/ ws[i] = "--" \/ \E f \in Formats : ws[i] = Joined[f]
        \/ ws[i] = "-e" /\ i < Len(ws) /\ ws[i + 1] \in Formats

\* A line of four words that asks last for format f and first names a and b.
Asked(ws, f, a, b) ==
    /\ Len(ws) = 4 /\ WellFormed(ws)
    /\ \E i \in 1 .. 4 :
           AsksFor(ws, i, f) /\ \A j \in i + 1 .. 4 : \A g \in Formats : ~AsksFor(ws, j, g)
    /\ \E i \in 1 .. 4 : \E j \in i + 1 .. 4 :
           /\ IsName(ws, i) /\ ws[i] = a
           /\ IsName(ws, j) /\ ws[j] = b
           /\ \A l \in 1 .. j : IsName(ws, l) => l \in {i, j}

\* A file is written exactly for the lines of four words that ask for a format
\* and name two files, in any order, if the first is a file with a mark: neither
\* a name among the options nor an option among the names slips through
\* parse_args(), check_bom() and Open() together.  The lines are more than the
\* USAGE text of utf.h shows: one word may be -e and its format, and then the
\* fourth is one more format, "--", or a name nobody looks at.
AskedOnly ==
    /\ pc = "done" => /\ to \in Formats /\ in_file \in {"in", "out"}
                      /\ Asked(argv, to, in_file, out_file)
    /\ pc \in {"failed", "crashed"} /\ faults = 0 /\ input.format # "none" /\ Len(FileOf(input)) > 2 =>
        \A f \in Formats : ~Asked(argv, f, "in", "out")

\* Every run ends: each turn of a loop moves the offset, whatever the file
\* holds, truncated glyphs included.
Terminates == <>(pc \in {"done", "failed", "crashed"})

=============================================================================
