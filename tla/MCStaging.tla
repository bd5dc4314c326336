----------------------------- MODULE MCStaging -----------------------------
(* Small instances of Staging. *)
EXTENDS Staging, TLC

CONSTANTS q1, q2, r1, r2, r3

OneQueue == {q1}
TwoQueues == {q1, q2}
TwoRecords == {r1, r2}
ThreeRecords == {r1, r2, r3}

\* All the batches on one queue.
SameStage == [r \in Record |-> q1]
\* r2 on a queue of its own.
TwoStages == [r \in Record |-> IF r = r2 THEN q2 ELSE q1]

UnitSpan == [r \in Record |-> 1]
\* r3 fits no segment.
Oversized == [r \in Record |-> IF r = r3 THEN SegmentBytes + 1 ELSE 1]

\* r1 and r2 are alike in the configurations that use this.
Symmetry == Permutations(TwoRecords)
=============================================================================
