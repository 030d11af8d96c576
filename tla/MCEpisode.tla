------------------------------ MODULE MCEpisode ------------------------------
(* The four families with two different invoice totals. *)
EXTENDS Episode, TLC

TwoTotals == [c \in 0..3 |-> IF c % 2 = 0 THEN 1 ELSE 2]
=============================================================================
