---------------------------- MODULE ExactlyOnce ----------------------------
(***************************************************************************)
(* What a run promises about its output, whatever happens to the process:  *)
(* a row is never in the output twice, rows leave it only when the run is  *)
(* resumed, and when the output is finished every row is there.  RunResume *)
(* implements it.                                                          *)
(***************************************************************************)
EXTENDS Naturals

CONSTANT Rows

VARIABLES
  times,  \* [Rows -> how often the row is in the output]
  over    \* whether the output is finished

Init ==
  /\ times = [r \in Rows |-> 0]
  /\ over = FALSE

\* Rows come to be in the output.
Deliver ==
  /\ ~over /\ UNCHANGED over
  /\ times' \in [Rows -> {0, 1}]
  /\ \A r \in Rows : times'[r] >= times[r]

Finish ==
  /\ \A r \in Rows : times[r] = 1
  /\ over' = TRUE
  /\ UNCHANGED times

\* A resume takes back what was delivered after the manifest.
TakeBack ==
  /\ over' = FALSE
  /\ times' \in [Rows -> {0, 1}]
  /\ \A r \in Rows : times'[r] <= times[r]

Next == Deliver \/ Finish \/ TakeBack

Spec == Init /\ [][Next]_<<times, over>>
=============================================================================
