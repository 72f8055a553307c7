----------------------------- MODULE MCLoopCode -----------------------------
(* Instances of LoopCode: constructs nested at most four deep.              *)
EXTENDS LoopCode

Depth == 4

=============================================================================
