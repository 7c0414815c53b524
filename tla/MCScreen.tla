------------------------------ MODULE MCScreen ------------------------------
(* Instances of Screen for TLC; programs write a prompt, a line, or a row.   *)
EXTENDS Screen

MCPrompt == <<"p">>
MCOutputs == { <<"p">>, <<"a", NEWLINE>>, <<"a", "a">> }
=============================================================================
