------------------------------ MODULE MCServer ------------------------------
(* Two clients that write two keys, at any time around the shutdown.       *)
EXTENDS Server

CONSTANTS a, b, text

MCKeys == {a, b}

MCTexts == {text}

MCRequests == {<<"SET", a, text>>, <<"SET", b, text>>, <<"DEL", a>>}
=============================================================================
