----------------------------- MODULE MCR2Campaign -----------------------------
(* Three invocations over a campaign of a few rows per stage. *)
EXTENDS R2Campaign, TLC

CONSTANTS p1, p2, p3

\* A decision (two calls) per trajectory stage, and one proposal per condition.
FewRows == [s \in Stages |-> IF s = Propose THEN 2 ELSE 1]

\* Invocations only differ by name, and every property is about all of them;
\* all are safety properties, for which the reduction is sound.
Interchangeable == Permutations(Invocations)
=============================================================================
