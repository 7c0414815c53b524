----------------------------- MODULE MCConsole -----------------------------
(* Instances of Console for TLC; programs print a prompt of one column, or a *)
(* newline.                                                                 *)
EXTENDS Console

MCOutputs == { <<"c">>, <<"nl">> }
=============================================================================
