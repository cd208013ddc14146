------------------------------ MODULE MCStartup ------------------------------
(* Startup for TLC: a package of event 0, which syncers match before they  *)
(* are initialised, and one of an ordinary event.                          *)
EXTENDS Startup

MCEventOf == <<"zero", "e1">>

MCWanted == {<<"e1", "data">>, <<"zero", "act">>}

=============================================================================
