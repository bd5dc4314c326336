------------------------- MODULE StagingInvariant -------------------------
(***************************************************************************)
(* The inductive invariant of Staging: where batches and segments are, the *)
(* roll lock, the order in which a segment is unlinked, and the charge.    *)
(***************************************************************************)
EXTENDS Staging

\* Where a batch is on disk follows from how far its spill has got.
Places ==
  \A r \in Record :
    /\ pc[r] \in {"memory", "lay", "roll", "open", "gone"} <=> at[r] = NoSegment
    /\ at[r] < nextSegment

\* A batch that was given a segment knows its number.
Placed ==
  \A r \in Record :
    pc[r] \in {"install", "laid", "writing", "disk", "taken"} => at[r] \in Segment

\* The roll lock: one thread opens a segment at a time, and nobody else knows its number yet.
Rolls ==
  /\ \A r1, r2 \in Record :
       pc[r1] \in {"open", "install"} /\ pc[r2] \in {"open", "install"} => r1 = r2
  /\ \A r1, r2 \in Record : pc[r1] = "install" /\ at[r2] = at[r1] => r1 = r2
  /\ \A r \in Record :
       pc[r] = "install" => /\ at[r] \in files \ segments
                            /\ unlinking[at[r]] = "none"

\* A number is used once, and a segment leaves the map before its file goes and its charge last.
Unlinks ==
  /\ nextSegment <= MaxSegment + 1
  /\ segments \subseteq files
  /\ \A s \in files : s < nextSegment
  /\ \A s \in Segment :
       /\ unlinking[s] # "none" => s < nextSegment
       /\ unlinking[s] = "cut" => s \in files \ segments
       /\ unlinking[s] = "removed" => s \notin files
  /\ \A q \in Queue : active[q] # NoSegment => active[q] \in segments

\* A write that lost its file was laid into a segment that is out of the map for good.
Lost == \A r \in lost : pc[r] = "writing" /\ at[r] \notin segments

Removed == {s \in Segment : unlinking[s] = "removed"}

\* The file of a segment that is being installed is not charged yet.
Uncharged == IF \E r \in Record : pc[r] = "install" THEN 1 ELSE 0

\* The charge is for the files that exist and for those removed and not yet discharged.
Charges ==
  /\ diskBudget <= MaxBudget
  /\ diskSegments + Uncharged = Cardinality(files) + Cardinality(Removed)
  /\ diskSegments + Uncharged <= MaxBudget

IndInv ==
  /\ TypeOK
  /\ Places
  /\ Rolls
  /\ Unlinks
  /\ Lost
  /\ CountsFollowRecords
  /\ CountedRecordReadable
  /\ Charges
=============================================================================
