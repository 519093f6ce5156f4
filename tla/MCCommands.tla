----------------------------- MODULE MCCommands -----------------------------
(* TLC instance of Commands: two operators, one node.                      *)
EXTENDS Commands
=============================================================================
