------------------------------ MODULE MCResume ------------------------------
(* Instances of RunResume for TLC. *)
EXTENDS RunResume

Morsels == [seq : 0 .. N - 1, rows : SUBSET (0 .. NRows - 1), read : {"cursor", "again"}]
\* What follows a resume from an incomplete manifest is left to the runs that
\* show it.
OnlySound == sound

NumberOf == [i \in Morsels |-> i.seq]
=============================================================================
