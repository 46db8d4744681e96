--------------------------- MODULE MCFileCommands ---------------------------
(* Two names, the shorter one being what is left when the longer is cut.   *)
EXTENDS FileCommands

MCNames == {<<"a">>, <<"a", "a", "a">>}
=============================================================================
