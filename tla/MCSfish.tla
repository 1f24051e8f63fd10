------------------------------ MODULE MCSfish ------------------------------
(* One line of every kind main() tells apart.                              *)
EXTENDS Sfish

MCLines ==
    {<<"p">>, <<"exit">>, <<"./gone">>,
     <<"p", "<", "f", ">", "f", "p", "p">>, <<"help", "<", "f", "p">>,   \* even and odd tails
     <<"<", "<", "f">>,
     <<"p", "|", "p">>, <<"p", "|", "help", "|", "p">>,
     <<"p", "|", "p", "|", "p", "|", "p">>,
     <<"p", "|", "p", ">", "lost">>, <<"p", ">", "lost", "|", "p">>,
     <<"p", "<", "f", "|", "p">>, <<"p", "|", "p", ">", "f">>}
=============================================================================
