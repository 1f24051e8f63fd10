------------------------------- MODULE MCUtf -------------------------------
(***************************************************************************)
(* Texts of one or two code points: the edges of every length class of     *)
(* UTF-8, of the surrogate pairs, and the ones the tests name.             *)
(***************************************************************************)
EXTENDS Utf, TLC

E(u8, u16) == [utf8 |-> u8, utf16 |-> u16]

\* As the standard's code charts print them.
MCStandard ==
       65      :> E(<<65>>, <<65>>)
    @@ 127     :> E(<<127>>, <<127>>)
    @@ 128     :> E(<<194, 128>>, <<128>>)
    @@ 218     :> E(<<195, 154>>, <<218>>)
    @@ 2047    :> E(<<223, 191>>, <<2047>>)
    @@ 2048    :> E(<<224, 160, 128>>, <<2048>>)
    @@ 30693   :> E(<<231, 159, 165>>, <<30693>>)
    @@ 65279   :> E(<<239, 187, 191>>, <<65279>>)
    @@ 65535   :> E(<<239, 191, 191>>, <<65535>>)
    @@ 65536   :> E(<<240, 144, 128, 128>>, <<55296, 56320>>)
    @@ 129299  :> E(<<240, 159, 164, 147>>, <<55358, 56595>>)
    @@ 1114111 :> E(<<244, 143, 191, 191>>, <<56319, 57343>>)

Points == {cp \in DOMAIN MCStandard : cp # 65279}
Edges  == Points \ {127, 128, 30693}
Texts  == {<<>>} \union {<<a>> : a \in Points} \union (Edges \X Edges)

MCInputs ==
    [format : Formats, text : Texts, cut : {0}]
    \union [format : Formats, text : {<<a>> : a \in Points}, cut : {1}]
    \union [format : {"none"}, text : {<<>>, <<65>>, <<30693>>}, cut : {0}]

\* One line for each format and place of -e; no -e; a word too few and too many;
\* an unknown format, an unknown option; no name, one name, the names exchanged.
\* Then -e and its format in one word: a third name; a second format; options
\* ended, with a name that looks like an option; one without its format.
MCArgvs ==
    {<<"-e", "UTF8", "in", "out">>, <<"in", "-e", "UTF16LE", "out">>,
     <<"in", "out", "-e", "UTF16BE">>, <<"in", "out", "other", "another">>,
     <<"-e", "UTF8", "in">>, <<"-e", "UTF8", "in", "out", "other">>,
     <<"-e", "EBCDIC", "in", "out">>, <<"-x", "in", "out", "other">>,
     <<"-e", "UTF8", "-e", "UTF16LE">>, <<"-e", "UTF8", "--", "in">>,
     <<"out", "in", "-e", "UTF8">>}
    \union
    {<<"-eUTF8", "in", "out", "other">>, <<"-eUTF8", "in", "-eUTF16LE", "out">>,
     <<"-eUTF8", "--", "out", "-eUTF16LE">>, <<"in", "-eUTF16BE", "--", "out">>,
     <<"--", "-eUTF8", "in", "out">>, <<"in", "out", "-eUTF8", "-e">>,
     <<"-eEBCDIC", "in", "out", "other">>, <<"-eUTF16LE", "-e", "UTF8", "in">>}

MCDashed == {"-e", "--", "-x", "-eUTF8", "-eUTF16LE", "-eUTF16BE", "-eEBCDIC"}

\* nothing, or what a longer conversion left
MCOlds    == {<<>>, [i \in 1 .. 16 |-> 7]}
MCGarbage == {<<0, 0, 0, 0>>, <<255, 216, 165, 165>>}
=============================================================================
