---------------------------- MODULE MCLifecycle ----------------------------
(* Values for model-checking Lifecycle: blocks are numbered, and an         *)
(* allocation returns the lowest or the highest free one, so that memory    *)
(* is reused at once or late.                                               *)
EXTENDS Lifecycle, FiniteSetsExt

MCBlocks == 1 .. 9
MCPick(free) == IF free = {} THEN {} ELSE {Min(free), Max(free)}
=============================================================================
