---------------------------- MODULE MCPlacement ----------------------------
EXTENDS Placement

\* One queue.
OneQueue == [b \in Batch |-> {1}]

\* Two queues: a batch that both consume, and one of the first queue alone.
Shared == [b \in Batch |-> IF b = 1 THEN {1, 2} ELSE {1}]

\* Two queues, each with a batch of its own.
Apart == [b \in Batch |-> {b}]

Units == [b \in Batch |-> 1]

\* A batch as large as two others.
Uneven == [b \in Batch |-> IF b = 2 THEN 2 ELSE 1]
=============================================================================
