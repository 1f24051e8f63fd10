------------------------------ MODULE SfishLine ------------------------------
(***************************************************************************)
(* What main() of the hw4 shell does with the words of a line before it    *)
(* runs anything: the list of redirectors splitLineIntoArgs() makes, the   *)
(* files and pipes they stand for, and the two functions that take them    *)
(* out of the array of tokens again.  Places in the array count from 1.    *)
(***************************************************************************)
EXTENDS Integers, FiniteSets, SequencesExt

\* strstr() finds these words in "><|", the two-character ones too.
Redirectors == {"<", ">", "|", "><", "<|", "><|"}

Files == {"<", ">"}          \* strcmp() tells them from all others, which get a pipe

\* A file that cannot be opened.
Lost == "lost"

\* The places splitLineIntoArgs() puts into its list, in ascending order there.
redirList(ws) == {i \in DOMAIN ws : ws[i] \in Redirectors}

\* open() of the word that follows, or of NULL.
Opens(ws, i) == i < Len(ws) /\ ws[i + 1] # Lost

\* The first redirector of the line that fails; one past the end if none does.
FirstBad(ws) == Min({i \in DOMAIN ws : ws[i] \in Files /\ ~Opens(ws, i)} \union {Len(ws) + 1})

\* The redirectors setRedirection() and setPipe() were called for and went well.
Done(ws, R) == {i \in 1 .. FirstBad(ws) - 1 : ws[i] \in R}

-----------------------------------------------------------------------------
(* removeRdrFromTokens(): for each place of the list, shifted by two for   *)
(* every < and > before it, the tokens that follow are moved down by two,  *)
(* two at a time until a NULL.  It is not the NULL at the end of the array *)
(* when an odd number is moved: the walk goes on through memory malloc()   *)
(* gave and nobody wrote.  A pipe is taken out too, with the word after    *)
(* it, and not counted.                                                    *)

\* Mutant: the places are not shifted.
TakeOut_noShift(s, place) ==
    IF s.lost \/ place >= Len(s.tokens) THEN [s EXCEPT !.lost = TRUE]
    ELSE [s EXCEPT !.tokens = SubSeq(@, 1, place - 1) \o SubSeq(@, place + 2, Len(@)),
                   !.walks = @ \/ (Len(s.tokens) - place) % 2 = 0]

\* Past the last token but one strcmp() gets a NULL or junk comes into the array;
\* a redirector after a redirector is looked for before the array begins.
TakeOut(s, place) ==
    LET i == place - s.shift
    IN  IF s.lost \/ i \notin 1 .. Len(s.tokens) - 1 THEN [s EXCEPT !.lost = TRUE]
        ELSE [tokens |-> SubSeq(s.tokens, 1, i - 1) \o SubSeq(s.tokens, i + 2, Len(s.tokens)),
              shift  |-> s.shift + (IF s.tokens[i] \in Files THEN 2 ELSE 0),
              walks  |-> s.walks \/ (Len(s.tokens) - i) % 2 = 0,
              lost   |-> FALSE]

\* What is left when the places up to n have been taken out.
removeRdrFromTokens(ws) ==
    LET left[n \in 0 .. Len(ws)] ==
            IF n = 0 THEN [tokens |-> ws, shift |-> 0, walks |-> FALSE, lost |-> FALSE]
            ELSE IF n \in redirList(ws) THEN TakeOut(left[n - 1], n)
            ELSE left[n - 1]
    IN  left[Len(ws)]

-----------------------------------------------------------------------------
(* changePipeInTokens(): each | becomes a NULL, and pipeFuncList gets the  *)
(* place of the token after it: the commands are what lies between.        *)

changePipeInTokens(ts) ==
    LET cut[n \in 0 .. Len(ts)] ==
            IF n = 0 THEN << <<>> >>
            ELSE IF ts[n] = "|" THEN Append(cut[n - 1], <<>>)
            ELSE [cut[n - 1] EXCEPT ![Len(cut[n - 1])] = Append(@, ts[n])]
    IN  cut[Len(ts)]

\* isBuiltIn() and the checks before executable(), by the first token.
KindOf(command) ==
    IF command = <<>> THEN "absent"
    ELSE CASE Head(command) = "exit" -> "exit"
           [] Head(command) = "help" -> "builtin"
           [] Head(command) = "./gone" -> "missing"
           [] OTHER -> "program"

-----------------------------------------------------------------------------
(* What the user meant: the line is cut at its pipes, and a < or > and the *)
(* word after it are not part of a command.                                *)

Meant(ws) ==
    LET kept[n \in 0 .. Len(ws)] ==
            IF n = 0 THEN <<>>
            ELSE IF ws[n] \in Files \/ (n > 1 /\ ws[n - 1] \in Files) THEN kept[n - 1]
            ELSE Append(kept[n - 1], ws[n])
    IN  kept[Len(ws)]

Commands(ws) == changePipeInTokens(Meant(ws))

\* Lines outside it: pipes beside redirections, redirectors nobody writes, and a
\* redirector in the place of a file's name.
Mixed(ws) ==
    \/ "|" \in Range(ws) /\ Range(ws) \intersect Files # {}
    \/ Range(ws) \intersect (Redirectors \ (Files \union {"|"})) # {}
    \/ \E i \in 2 .. Len(ws) : ws[i - 1] \in Files /\ ws[i] \in Redirectors
=============================================================================
