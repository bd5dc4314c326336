------------------------------- MODULE MCSink -------------------------------
(* Instances of SinkDrive for TLC: a payload is its number. *)
EXTENDS SinkDrive

Numbers == 0 .. N - 1
OwnNumber == [i \in 0 .. N - 1 |-> i]
=============================================================================
