---------------------------- MODULE MCPipeServer ----------------------------
(* Small instances of PipeServer for TLC. *)
EXTENDS PipeServer, TLC

CONSTANTS s1, s2

Sym == Permutations(Senders)
=============================================================================
