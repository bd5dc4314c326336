------------------------- MODULE MCStagingRecovery -------------------------
(* Two batches on one queue, and crashes. *)
EXTENDS StagingRecovery, TLC

CONSTANTS q1, r1, r2

OneQueue == {q1}
TwoRecords == {r1, r2}
SameStage == [r \in Record |-> q1]
UnitSpan == [r \in Record |-> 1]

\* The two batches are alike.
Symmetry == Permutations(TwoRecords)
=============================================================================
