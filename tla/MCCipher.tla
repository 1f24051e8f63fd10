------------------------------ MODULE MCCipher ------------------------------
(***************************************************************************)
(* E, A and R have codes of one, two and three symbols, which together with*)
(* the x after a letter make every remainder of three; ~ is the last of the*)
(* alphabet and past the end of morse_table; 9 is a tab.                   *)
(***************************************************************************)
EXTENDS Cipher

MCChars == {9, 10, 32, 65, 69, 82, 126}

\* no characters; two that change places; one with a Z; a repeated character; one
\* that only the square has
MCKeys == {<<>>, <<82, 65>>, <<69, 90>>, <<65, 65>>, <<126>>}

\* squares that are too small (9 by 9), large enough, and of more than one
\* hexadecimal digit; 65546 is 10 in 16 bits
MCNumbers == {9, 15, 16, 65546}
=============================================================================
