------------------------------- MODULE MCTcp -------------------------------
(* TcpProtocol on small instances. *)
EXTENDS TcpService, TLC

CONSTANTS readA, readB      \* commands

\* Silence, an answer, a rejected request that is answered all the same, a
\* fragmented answer and half of it, an invalid one, and a connection closed or reset.
Faulty == {<<>>, <<"answer">>, <<"reject", "answer">>, <<"first", "second">>,
           <<"first">>, <<"garbage">>, <<"eof">>, <<"answer", "reset">>}

TwoCommands == {readA, readB}
OtherShape == readA :> 1 @@ readB :> 2
=============================================================================
