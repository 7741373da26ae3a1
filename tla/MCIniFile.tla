----------------------------- MODULE MCIniFile ------------------------------
(* A small instance of IniFile: a section and a value that are written in  *)
(* two ways, next to the section without a name and to another value.      *)
EXTENDS IniFile

TwoForms == {<<"s", "lower">>, <<"s", "upper">>}
TwoNames == {<<"n", "lower">>, <<"n", "upper">>, <<"m", "lower">>}

ValueSymmetry == Permutations(Values)
=============================================================================
