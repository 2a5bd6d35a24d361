-------------------------- MODULE MC_LetsPipeline --------------------------
(* LetsPipeline for TLC: the commands are interchangeable.                 *)
EXTENDS LetsPipeline, TLC

Interchangeable == Permutations(Commands)
=============================================================================
