----------------------------- MODULE MCSession -----------------------------
(***************************************************************************)
(* Three names for two functions, room for two literals in a session,      *)
(* and forms that are written in one line or in several.                   *)
(***************************************************************************)
EXTENDS Session, SessionCode

MCLines ==
  {<<"Func", "f">>, <<"Func", "g", "1", "Print", "Ret">>, <<"Func", "h", "f", "Ret">>,
   <<"2">>, <<"f">>, <<"g", "Ret">>, <<"Print", "Ret">>,
   <<"Func">>, <<"Ret">>}
=============================================================================
