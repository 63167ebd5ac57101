----------------------------- MODULE MCCompiler -----------------------------
(* Scripts of up to six lines: enough for a function nested in a         *)
(* function, two arguments in order, and comments in every position.      *)
EXTENDS Compiler

MCFields == {"g1"}
MCLiterals == {"v1", "v2"}
=============================================================================
