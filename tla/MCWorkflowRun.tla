--------------------------- MODULE MCWorkflowRun ---------------------------
(* Instances of WorkflowRun for TLC. *)
EXTENDS WorkflowRun, TLC

(* Activities called one after the other, and all at once. *)
Sequential == [s \in Seqs |-> {r \in Seqs : r < s}]
FanOut == [s \in Seqs |-> {}]

(* The first activity is tried twice, the others once. *)
TwoThenOne == [s \in Seqs |-> IF s = 1 THEN 2 ELSE 1]

Symmetry == Permutations(Threads)
=============================================================================
