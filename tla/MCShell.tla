------------------------------ MODULE MCShell -------------------------------
(* Words over two letters stand for the names.  A row is four cells, so a  *)
(* line of five after the prompt wraps once, and one reply is longer than  *)
(* a row.                                                                  *)
EXTENDS Shell

MCName == [help |-> <<"a", "a">>, clear |-> <<"b">>, echo |-> <<"a">>,
           sobre |-> <<"a", "b">>, panic |-> <<"b", "b">>,
           mem |-> <<"a", "a", "a">>, falha |-> <<"b", "a">>]

MCKind == [pagina |-> <<"a">>, pilha |-> <<"b">>, opcode |-> <<"a", "a">>,
           protecao |-> <<"a", "b">>, breakpoint |-> <<"b", "a">>]

MCReply == [welcome |-> <<"a", "a", "\n", "b", "\n">>,
            help |-> <<"b", "\n", "a", "a", "a", "a", "a", "\n">>,
            sobre |-> <<"a", "\n">>,
            mem |-> <<"b", "b", "\n">>,
            types |-> <<"a", "b", "a", "b", "\n">>,
            breakpoint |-> <<"b", "\n">>]

MCPrompt == <<">", " ">>
=============================================================================
