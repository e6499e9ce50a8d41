-------------------------- MODULE MCFramedExchange --------------------------
(***************************************************************************)
(* Instances of FramedExchange for TLC: requests with and without a final  *)
(* newline around the limit, one of two lines; answers around the limit of *)
(* the client, and an empty one, which no handler gives but something else *)
(* at the endpoint may.                                                    *)
(***************************************************************************)
EXTENDS FramedExchange

CONSTANTS letter, return, newline, broken

MCRequests ==
    {<<letter>>, <<letter, letter>>, <<letter, letter, letter>>, <<letter, letter, newline>>,
     <<letter, letter, letter, newline>>, <<letter, newline, letter>>}
MCResponses ==
    {<<newline>>, <<return, newline>>, <<letter, newline>>, <<letter, letter, newline>>,
     <<letter, letter, letter, newline>>}
=============================================================================
