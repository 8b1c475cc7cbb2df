------------------------------- MODULE MCStateLock -------------------------------
(* Instance of StateLock: a process with two contexts, and another with one. *)
EXTENDS StateLock, TLC

CONSTANTS watch, cli, w1, w2, c1

MCHost == (w1 :> watch) @@ (w2 :> watch) @@ (c1 :> cli)
=============================================================================
