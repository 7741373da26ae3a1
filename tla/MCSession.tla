----------------------------- MODULE MCSession ------------------------------
(* The plugins TLC checks Session with: two have one name, of which only   *)
(* the second runs a command.                                              *)
EXTENDS Session

MCBuiltIn  == <<"cpu", "hd">>
MCExternal == <<"hd">>
MCCounters == <<>>
=============================================================================
