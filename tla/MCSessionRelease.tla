--------------------------- MODULE MCSessionRelease ---------------------------
(***************************************************************************)
(* Two corpora, which nothing tells apart, and five invocations of the     *)
(* two writers: enough for A to be published, sealed, replaced by B,       *)
(* published again and sealed again while one scoring runs.                *)
(***************************************************************************)
EXTENDS SessionRelease, TLC

Renamings == Permutations(Corpora)
=============================================================================
