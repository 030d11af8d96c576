--------------------------- MODULE OneShotPipeline ---------------------------
(***************************************************************************)
(* What a registered campaign promises about its stages, with no files or  *)
(* processes in sight: stages run one after the other, each is entered at  *)
(* most once, and a stage that dies is never revived nor passed over.      *)
(***************************************************************************)
EXTENDS Naturals

CONSTANT Length  \* number of stages

VARIABLE status  \* of each stage: "fresh", "running", "sealed" or "dead"

Init == status = [i \in 1..Length |-> "fresh"]

Become(i, old, new) == status[i] = old /\ status' = [status EXCEPT ![i] = new]

Enter(i) == /\ \A j \in 1..(i - 1) : status[j] = "sealed"
            /\ Become(i, "fresh", "running")
Seal(i) == Become(i, "running", "sealed")
Die(i) == Become(i, "running", "dead")

Next == \E i \in 1..Length : Enter(i) \/ Seal(i) \/ Die(i)

Spec == Init /\ [][Next]_status
=============================================================================
