----------------------------- MODULE MCCohortRun -----------------------------
(* One development directory and a confirmatory one, two invocations, two rows. *)
EXTENDS CohortRun

CONSTANTS p1, p2, dev, test
=============================================================================
