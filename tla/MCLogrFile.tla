------------------------------ MODULE MCLogrFile ------------------------------
(***************************************************************************)
(* Instances of LogrFile for TLC: a unit of 4 bytes, and lengths of 16.    *)
(***************************************************************************)
EXTENDS LogrFile

CONSTANT closed

Logr == <<".", "logr">>
Other == <<"var">>
BothPaths == {Logr, Other}
OnePath == {Logr}

=============================================================================
