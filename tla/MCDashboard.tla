---------------------------- MODULE MCDashboard ----------------------------
(* Two requests at a time.  ANALYZE may list a key with a character of two *)
(* bytes.                                                                  *)
EXTENDS Dashboard

MCReplies ==
  [PING    |-> {<<"+", "eol">>},
   INFO    |-> {<<"$", "eol", "eol">>},
   ANALYZE |-> {<<"$", "eol", "eol">>, <<"$", "eol", "L", "C", "eol">>}]
=============================================================================
