----------------------------- MODULE MCClosure ------------------------------
(* Every reference graph over three paths, cycles and self references too. *)
EXTENDS Closure

CONSTANTS a, b, c

MCPaths == {a, b, c}
=============================================================================
