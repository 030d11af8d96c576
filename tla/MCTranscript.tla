----------------------------- MODULE MCTranscript -----------------------------
(* Two steps of one arm, two texts of a completion, a ledger of two components. *)
EXTENDS Transcript
=============================================================================
