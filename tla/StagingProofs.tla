--------------------------- MODULE StagingProofs ---------------------------
(***************************************************************************)
(* Proofs about Staging and StagingRecovery, for any number of queues,     *)
(* batches, segments and crashes: the counters of a segment, what          *)
(* unlink_segments may take, the disk budget, and what restore_from finds  *)
(* after a crash at any step.                                              *)
(***************************************************************************)
EXTENDS StagingRecovery, StagingInvariant, FiniteSetTheorems, WellFoundedInduction, TLAPS

USE ZenonT(3), SMTT(30)

USE StagingAssumption

\* What the steps of reserve_record before and after the file is created leave alone.
LEMMA LayFrame ==
  ASSUME NEW r \in Record, Spill(r) \/ Lay(r) \/ Roll(r) \/ DiskBound(r)
  PROVE  /\ UNCHANGED <<segments, recordsTotal, recordsReleased, active, unlinking>>
         /\ UNCHANGED <<diskSegments, diskBudget, nextSegment, files, content, lost>>
<1> USE DEF segmentVars, diskVars, fileVars
<1>1. CASE Spill(r)
  BY <1>1 DEF Spill
<1>2. CASE Lay(r)
  BY <1>2 DEF Lay
<1>3. CASE Roll(r)
  BY <1>3 DEF Roll
<1>4. CASE DiskBound(r)
  BY <1>4 DEF DiskBound
<1> QED BY <1>1, <1>2, <1>3, <1>4

\* What a write's submission and failure leave alone.
LEMMA WriteFrame ==
  ASSUME NEW r \in Record, Submit(r) \/ WriteFails(r)
  PROVE  /\ UNCHANGED <<segments, recordsTotal, recordsReleased, active, unlinking>>
         /\ UNCHANGED <<diskSegments, diskBudget, nextSegment, files, content>>
<1> USE DEF segmentVars, diskVars, fileVars
<1>1. CASE Submit(r)
  BY <1>1 DEF Submit, OpenForWrite
<1>2. CASE WriteFails(r)
  BY <1>2 DEF WriteFails, OpenForWrite
<1> QED BY <1>1, <1>2

\* What the steps on a landed batch's copies leave alone.
LEMMA CopyFrame ==
  ASSUME NEW r \in Record, DropCopy(r) \/ Promote(r) \/ Take(r)
  PROVE  /\ UNCHANGED <<segments, recordsTotal, recordsReleased, active, unlinking>>
         /\ UNCHANGED <<diskSegments, diskBudget, nextSegment, files, content, lost, at>>
         /\ ~Take(r) => pc' = pc
<1> USE DEF segmentVars, diskVars, fileVars
<1>1. CASE DropCopy(r)
  BY <1>1 DEF DropCopy
<1>2. CASE Promote(r)
  BY <1>2 DEF Promote
<1>3. CASE Take(r)
  BY <1>3 DEF Take
<1> QED BY <1>1, <1>2, <1>3

\* A step of a spill that does not land concerns one batch, which has no disk copy before or after.
LEMMA SpillMoves ==
  ASSUME RecordsOK, NEW r \in Record,
         Spill(r) \/ Lay(r) \/ Roll(r) \/ DiskBound(r) \/ CreateFile(r) \/ Submit(r) \/ WriteFails(r)
  PROVE  /\ pc[r] \notin {"install", "disk", "taken", "gone"}
         /\ pc'[r] \notin {"disk", "taken", "gone"}
         /\ \A x \in Record \ {r} : pc'[x] = pc[x] /\ at'[x] = at[x]
<1> USE DEF RecordsOK, Goto, BackToMemory
<1>1. CASE Spill(r)
  BY <1>1 DEF Spill
<1>2. CASE Lay(r)
  BY <1>2 DEF Lay
<1>3. CASE Roll(r)
  BY <1>3 DEF Roll
<1>4. CASE DiskBound(r)
  BY <1>4 DEF DiskBound
<1>5. CASE CreateFile(r)
  BY <1>5 DEF CreateFile
<1>6. CASE Submit(r)
  BY <1>6 DEF Submit
<1>7. CASE WriteFails(r)
  BY <1>7 DEF WriteFails
<1> QED BY <1>1, <1>2, <1>3, <1>4, <1>5, <1>6, <1>7

\* Only create makes a thread hold a file that is not charged yet.
LEMMA NoInstall ==
  ASSUME RecordsOK, NEW r \in Record,
         Spill(r) \/ Lay(r) \/ Roll(r) \/ DiskBound(r) \/ Submit(r) \/ WriteFails(r)
  PROVE  pc'[r] # "install"
<1> USE DEF RecordsOK, Goto, BackToMemory
<1>1. CASE Spill(r)
  BY <1>1 DEF Spill
<1>2. CASE Lay(r)
  BY <1>2 DEF Lay
<1>3. CASE Roll(r)
  BY <1>3 DEF Roll
<1>4. CASE DiskBound(r)
  BY <1>4 DEF DiskBound
<1>5. CASE Submit(r)
  BY <1>5 DEF Submit
<1>6. CASE WriteFails(r)
  BY <1>6 DEF WriteFails
<1> QED BY <1>1, <1>2, <1>3, <1>4, <1>5, <1>6

\* Every action keeps the types: a step assigns each variable a value of its set.
LEMMA TypeStep ==
  ASSUME RecordsOK, SegmentsOK, DiskOK, ManifestOK, Placed, [Next]_vars
  PROVE  TypeOK'
<1> USE DEF recordVars, segmentVars, diskVars, fileVars, manifestVars
<1>1. ASSUME NEW r \in Record, Spill(r) PROVE TypeOK'
  <2>1. RecordsOK'
    BY <1>1 DEF Spill, Goto, RecordsOK, Step
  <2>2. SegmentsOK'
    BY <1>1 DEF Spill, Goto, SegmentsOK, UnlinkStep
  <2>3. DiskOK'
    BY <1>1 DEF Spill, Goto, DiskOK
  <2>4. ManifestOK'
    BY <1>1 DEF Spill, Goto, ManifestOK
  <2> QED BY <2>1, <2>2, <2>3, <2>4 DEF TypeOK
<1>2. ASSUME NEW r \in Record, Lay(r) PROVE TypeOK'
  <2>1. Fits(r) => active[StageOf[r]] \in Segment
    BY DEF Fits, SegmentsOK
  <2>2. RecordsOK'
    BY <1>2, <2>1 DEF Lay, Goto, BackToMemory, RecordsOK, Step
  <2>3. SegmentsOK'
    BY <1>2, <2>1 DEF Lay, SegmentsOK
  <2>4. DiskOK'
    BY <1>2, <2>1 DEF Lay, Goto, BackToMemory, DiskOK
  <2>5. ManifestOK'
    BY <1>2, <2>1 DEF Lay, Goto, BackToMemory, ManifestOK
  <2> QED BY <2>2, <2>3, <2>4, <2>5 DEF TypeOK
<1>3. ASSUME NEW r \in Record, Roll(r) PROVE TypeOK'
  <2>1. RecordsOK'
    BY <1>3 DEF Roll, Goto, RecordsOK, Step
  <2>2. SegmentsOK'
    BY <1>3 DEF Roll, Goto, SegmentsOK, UnlinkStep
  <2>3. DiskOK'
    BY <1>3 DEF Roll, Goto, DiskOK
  <2>4. ManifestOK'
    BY <1>3 DEF Roll, Goto, ManifestOK
  <2> QED BY <2>1, <2>2, <2>3, <2>4 DEF TypeOK
<1>4. ASSUME NEW r \in Record, DiskBound(r) PROVE TypeOK'
  <2>1. RecordsOK'
    BY <1>4 DEF DiskBound, Goto, BackToMemory, RecordsOK, Step
  <2>2. SegmentsOK'
    BY <1>4 DEF DiskBound, Goto, BackToMemory, SegmentsOK, UnlinkStep
  <2>3. DiskOK'
    BY <1>4 DEF DiskBound, Goto, BackToMemory, DiskOK
  <2>4. ManifestOK'
    BY <1>4 DEF DiskBound, Goto, BackToMemory, ManifestOK
  <2> QED BY <2>1, <2>2, <2>3, <2>4 DEF TypeOK
<1>5. ASSUME NEW r \in Record, CreateFile(r) PROVE TypeOK'
  <2>1. nextSegment \in Nat /\ (nextSegment <= MaxSegment => nextSegment \in Segment)
    BY DEF DiskOK, Segment
  <2>2. RecordsOK'
    BY <1>5, <2>1 DEF CreateFile, Goto, BackToMemory, RecordsOK, Step
  <2>3. SegmentsOK'
    BY <1>5 DEF CreateFile, Goto, BackToMemory, SegmentsOK, UnlinkStep
  <2>4. DiskOK'
    <3>1. nextSegment' \in Nat /\ diskBudget' \in Nat
      BY <1>5 DEF CreateFile, DiskOK
    <3>2. files' \in SUBSET Segment /\ strays' \in SUBSET Segment
      BY <1>5, <2>1 DEF CreateFile, DiskOK
    <3>3. content' \in [Segment -> SUBSET Record]
      BY <1>5 DEF CreateFile, DiskOK
    <3> QED BY <1>5, <3>1, <3>2, <3>3 DEF CreateFile, DiskOK
  <2>5. ManifestOK'
    BY <1>5 DEF CreateFile, Goto, BackToMemory, ManifestOK
  <2> QED BY <2>2, <2>3, <2>4, <2>5 DEF TypeOK
<1>6. ASSUME NEW r \in Record, InstallSegment(r) PROVE TypeOK'
  <2>1. at[r] \in Segment
    BY <1>6 DEF InstallSegment, Placed
  <2>2. RecordsOK'
    BY <1>6, <2>1 DEF InstallSegment, Goto, BackToMemory, RecordsOK, Step
  <2>3. SegmentsOK'
    BY <1>6, <2>1 DEF InstallSegment, SegmentsOK
  <2>4. DiskOK'
    BY <1>6, <2>1 DEF InstallSegment, Goto, BackToMemory, DiskOK
  <2>5. ManifestOK'
    BY <1>6, <2>1 DEF InstallSegment, Goto, BackToMemory, ManifestOK
  <2> QED BY <2>2, <2>3, <2>4, <2>5 DEF TypeOK
<1>7. ASSUME NEW r \in Record, Submit(r) PROVE TypeOK'
  <2>1. at[r] \in Segment
    BY <1>7 DEF Submit, Placed
  <2>2. RecordsOK'
    BY <1>7, <2>1 DEF Submit, OpenForWrite, Goto, BackToMemory, RecordsOK, Step
  <2>3. SegmentsOK'
    BY <1>7, <2>1 DEF Submit, OpenForWrite, Goto, BackToMemory, SegmentsOK, UnlinkStep
  <2>4. DiskOK'
    BY <1>7, <2>1 DEF Submit, OpenForWrite, Goto, BackToMemory, DiskOK
  <2>5. ManifestOK'
    BY <1>7, <2>1 DEF Submit, OpenForWrite, Goto, BackToMemory, ManifestOK
  <2> QED BY <2>2, <2>3, <2>4, <2>5 DEF TypeOK
<1>8. ASSUME NEW r \in Record, Land(r) PROVE TypeOK'
  <2>1. at[r] \in Segment
    BY <1>8 DEF Land, Placed
  <2>2. RecordsOK'
    BY <1>8, <2>1 DEF Land, Goto, RecordsOK, Step
  <2>3. SegmentsOK'
    BY <1>8, <2>1 DEF Land, SegmentsOK
  <2>4. DiskOK'
    BY <1>8, <2>1 DEF Land, Goto, DiskOK
  <2>5. ManifestOK'
    BY <1>8, <2>1 DEF Land, Goto, ManifestOK
  <2> QED BY <2>2, <2>3, <2>4, <2>5 DEF TypeOK
<1>9. ASSUME NEW r \in Record, WriteFails(r) PROVE TypeOK'
  <2>1. at[r] \in Segment
    BY <1>9 DEF WriteFails, Placed
  <2>2. RecordsOK'
    BY <1>9, <2>1 DEF WriteFails, OpenForWrite, Goto, BackToMemory, RecordsOK, Step
  <2>3. SegmentsOK'
    BY <1>9, <2>1 DEF WriteFails, OpenForWrite, Goto, BackToMemory, SegmentsOK, UnlinkStep
  <2>4. DiskOK'
    BY <1>9, <2>1 DEF WriteFails, OpenForWrite, Goto, BackToMemory, DiskOK
  <2>5. ManifestOK'
    BY <1>9, <2>1 DEF WriteFails, OpenForWrite, Goto, BackToMemory, ManifestOK
  <2> QED BY <2>2, <2>3, <2>4, <2>5 DEF TypeOK
<1>10. ASSUME NEW r \in Record, Release(r) PROVE TypeOK'
  <2>1. RecordsOK'
    BY <1>10 DEF Release, Goto, ListForUnlink, RecordsOK, Step
  <2>2. SegmentsOK'
    <3>1. recordsReleased' \in [Segment -> Nat]
      BY <1>10 DEF Release, SegmentsOK
    <3>2. unlinking' \in [Segment -> UnlinkStep]
      BY <1>10 DEF Release, SegmentsOK, ListForUnlink, UnlinkStep
    <3> QED BY <1>10, <3>1, <3>2 DEF Release, SegmentsOK
  <2>3. DiskOK'
    BY <1>10 DEF Release, Goto, ListForUnlink, DiskOK
  <2>4. ManifestOK'
    BY <1>10 DEF Release, Goto, ListForUnlink, ManifestOK
  <2> QED BY <2>1, <2>2, <2>3, <2>4 DEF TypeOK
<1>11. ASSUME NEW r \in Record, DropCopy(r) PROVE TypeOK'
  <2>1. RecordsOK'
    BY <1>11 DEF DropCopy, RecordsOK, Step
  <2>2. SegmentsOK'
    BY <1>11 DEF DropCopy, SegmentsOK, UnlinkStep
  <2>3. DiskOK'
    BY <1>11 DEF DropCopy, DiskOK
  <2>4. ManifestOK'
    BY <1>11 DEF DropCopy, ManifestOK
  <2> QED BY <2>1, <2>2, <2>3, <2>4 DEF TypeOK
<1>12. ASSUME NEW r \in Record, Promote(r) PROVE TypeOK'
  <2>1. RecordsOK'
    BY <1>12 DEF Promote, RecordsOK, Step
  <2>2. SegmentsOK'
    BY <1>12 DEF Promote, SegmentsOK, UnlinkStep
  <2>3. DiskOK'
    BY <1>12 DEF Promote, DiskOK
  <2>4. ManifestOK'
    BY <1>12 DEF Promote, ManifestOK
  <2> QED BY <2>1, <2>2, <2>3, <2>4 DEF TypeOK
<1>13. ASSUME NEW r \in Record, Take(r) PROVE TypeOK'
  <2>1. RecordsOK'
    BY <1>13 DEF Take, Goto, RecordsOK, Step
  <2>2. SegmentsOK'
    BY <1>13 DEF Take, Goto, SegmentsOK, UnlinkStep
  <2>3. DiskOK'
    BY <1>13 DEF Take, Goto, DiskOK
  <2>4. ManifestOK'
    BY <1>13 DEF Take, Goto, ManifestOK
  <2> QED BY <2>1, <2>2, <2>3, <2>4 DEF TypeOK
<1>14. ASSUME NEW q \in Queue, Close(q) PROVE TypeOK'
  <2>1. RecordsOK'
    BY <1>14 DEF Close, ListForUnlink, RecordsOK, Step
  <2>2. SegmentsOK'
    BY <1>14 DEF Close, ListForUnlink, SegmentsOK, UnlinkStep
  <2>3. DiskOK'
    BY <1>14 DEF Close, ListForUnlink, DiskOK
  <2>4. ManifestOK'
    BY <1>14 DEF Close, ListForUnlink, ManifestOK
  <2> QED BY <2>1, <2>2, <2>3, <2>4 DEF TypeOK
<1>15. ASSUME NEW s \in Segment, UnlinkEntry(s) PROVE TypeOK'
  <2>1. RecordsOK'
    BY <1>15 DEF UnlinkEntry, RecordsOK, Step
  <2>2. SegmentsOK'
    BY <1>15 DEF UnlinkEntry, SegmentsOK, UnlinkStep
  <2>3. DiskOK'
    BY <1>15 DEF UnlinkEntry, DiskOK
  <2>4. ManifestOK'
    BY <1>15 DEF UnlinkEntry, ManifestOK
  <2> QED BY <2>1, <2>2, <2>3, <2>4 DEF TypeOK
<1>16. ASSUME NEW s \in Segment, UnlinkFile(s) PROVE TypeOK'
  <2>1. RecordsOK'
    BY <1>16 DEF UnlinkFile, RecordsOK, Step
  <2>2. SegmentsOK'
    BY <1>16 DEF UnlinkFile, SegmentsOK, UnlinkStep
  <2>3. DiskOK'
    BY <1>16 DEF UnlinkFile, DiskOK
  <2>4. ManifestOK'
    BY <1>16 DEF UnlinkFile, ManifestOK
  <2> QED BY <2>1, <2>2, <2>3, <2>4 DEF TypeOK
<1>17. ASSUME NEW s \in Segment, Discharge(s) PROVE TypeOK'
  <2>1. RecordsOK'
    BY <1>17 DEF Discharge, RecordsOK, Step
  <2>2. SegmentsOK'
    BY <1>17 DEF Discharge, SegmentsOK, UnlinkStep
  <2>3. DiskOK'
    BY <1>17 DEF Discharge, DiskOK
  <2>4. ManifestOK'
    BY <1>17 DEF Discharge, ManifestOK
  <2> QED BY <2>1, <2>2, <2>3, <2>4 DEF TypeOK
<1>18. CASE SetBudgets
  <2>1. RecordsOK' /\ SegmentsOK' /\ ManifestOK'
    BY <1>18 DEF SetBudgets, RecordsOK, SegmentsOK, ManifestOK
  <2>2. DiskOK'
    BY <1>18 DEF SetBudgets, DiskOK
  <2> QED BY <2>1, <2>2 DEF TypeOK
<1>19. CASE Checkpoint
  <2> USE DEF Checkpoint, SnapshotRows, SnapshotSegments, RenameManifest, ReclaimSegments
  <2>1. RecordsOK' /\ DiskOK'
    BY <1>19 DEF RecordsOK, DiskOK
  <2>2. SegmentsOK'
    BY <1>19 DEF SegmentsOK, UnlinkStep, ListForUnlink
  <2>3. ManifestOK'
    <3>1. CASE SnapshotRows
      BY <3>1 DEF ManifestOK
    <3>2. CASE SnapshotSegments
      <4>1. {s \in segments : \E p \in writer.rows : p[2] = s} \in SUBSET Segment
        BY DEF SegmentsOK
      <4>2. writer' \in [step : {"idle", "rows", "segs", "reclaim"},
                         rows : SUBSET Row, segs : SUBSET Segment]
        BY <3>2, <4>1, Zenon DEF ManifestOK
      <4> QED BY <3>2, <4>2 DEF ManifestOK
    <3>3. CASE RenameManifest
      <4>1. writer.rows \in SUBSET Row /\ writer.segs \in SUBSET Segment
        BY DEF ManifestOK
      <4>2. manifest' \in [file : {"absent", "present"}, rows : SUBSET Row, segs : SUBSET Segment]
        BY <3>3, <4>1 DEF ManifestOK
      <4>3. writer' \in [step : {"idle", "rows", "segs", "reclaim"},
                         rows : SUBSET Row, segs : SUBSET Segment]
        BY <3>3 DEF IdleWriter, ManifestOK
      <4>4. checkpointEnabled' = checkpointEnabled
        BY <3>3
      <4> QED BY <4>2, <4>3, <4>4 DEF ManifestOK
    <3>4. CASE ReclaimSegments
      BY <3>4 DEF IdleWriter, ManifestOK
    <3> QED BY <1>19, <3>1, <3>2, <3>3, <3>4
  <2> QED BY <2>1, <2>2, <2>3 DEF TypeOK
<1>20. CASE UNCHANGED vars
  BY <1>20 DEF vars, TypeOK, RecordsOK, SegmentsOK, DiskOK, ManifestOK
<1> QED
  BY <1>1, <1>2, <1>3, <1>4, <1>5, <1>6, <1>7, <1>8, <1>9, <1>10, <1>11, <1>12, <1>13, <1>14,
     <1>15, <1>16, <1>17, <1>18, <1>19, <1>20, Zenon DEF Next, Progress, Unlink

\* A step moves a batch's place only with its spill, and numbers only grow.
LEMMA PlacesStep ==
  ASSUME RecordsOK, SegmentsOK, DiskOK, Places, Unlinks, [Next]_vars
  PROVE  Places'
<1> USE DEF RecordsOK, DiskOK, Places, NoSegment
<1> USE DEF recordVars, segmentVars, diskVars, fileVars, manifestVars
<1>1. CASE UNCHANGED <<pc, at, nextSegment>>
  BY <1>1
<1>2. ASSUME NEW r \in Record, Spill(r) \/ Roll(r) PROVE Places'
  BY <1>2 DEF Spill, Roll, Goto
<1>3. ASSUME NEW r \in Record, Lay(r) PROVE Places'
  <2>1. Fits(r) => active[StageOf[r]] \in segments /\ active[StageOf[r]] < nextSegment
                   /\ active[StageOf[r]] # NoSegment
    BY DEF Fits, Unlinks, SegmentsOK, Segment
  <2> QED BY <1>3, <2>1 DEF Lay, Goto, BackToMemory
<1>4. ASSUME NEW r \in Record, DiskBound(r) PROVE Places'
  BY <1>4 DEF DiskBound, Goto, BackToMemory
<1>5. ASSUME NEW r \in Record, CreateFile(r) PROVE Places'
  <2>1. \A x \in Record : at[x] \in Int /\ at[x] < nextSegment'
    BY <1>5 DEF CreateFile, Segment
  <2>2. nextSegment' \in Nat /\ nextSegment' > -1
    BY <1>5 DEF CreateFile
  <2>3. CASE nextSegment <= MaxSegment /\ at' = [at EXCEPT ![r] = nextSegment] /\ Goto(r, "install")
    BY <1>5, <2>1, <2>2, <2>3 DEF CreateFile, Goto
  <2>4. CASE BackToMemory(r)
    BY <1>5, <2>1, <2>2, <2>4 DEF CreateFile, Goto, BackToMemory
  <2> QED BY <1>5, <2>3, <2>4 DEF CreateFile
<1>6. ASSUME NEW r \in Record, InstallSegment(r) PROVE Places'
  BY <1>6 DEF InstallSegment, Goto, BackToMemory
<1>7. ASSUME NEW r \in Record, Submit(r) PROVE Places'
  BY <1>7 DEF Submit, Goto, BackToMemory
<1>8. ASSUME NEW r \in Record, Land(r) \/ Take(r) PROVE Places'
  BY <1>8 DEF Land, Take, Goto
<1>9. ASSUME NEW r \in Record, WriteFails(r) PROVE Places'
  BY <1>9 DEF WriteFails, Goto, BackToMemory
<1>10. ASSUME NEW r \in Record, Release(r) PROVE Places'
  BY <1>10 DEF Release, Goto
<1>11. ASSUME NEW r \in Record, DropCopy(r) \/ Promote(r) PROVE Places'
  BY <1>1, <1>11 DEF DropCopy, Promote
<1>12. ASSUME NEW q \in Queue, Close(q) PROVE Places'
  BY <1>1, <1>12 DEF Close
<1>13. ASSUME NEW s \in Segment, Unlink(s) PROVE Places'
  BY <1>1, <1>13 DEF Unlink, UnlinkEntry, UnlinkFile, Discharge
<1>14. CASE SetBudgets \/ Checkpoint
  BY <1>1, <1>14 DEF SetBudgets, Checkpoint, SnapshotRows, SnapshotSegments, RenameManifest,
                     ReclaimSegments
<1> QED
  BY <1>1, <1>2, <1>3, <1>4, <1>5, <1>6, <1>7, <1>8, <1>9, <1>10, <1>11, <1>12, <1>13, <1>14,
     Zenon DEF Next, Progress, vars

\* A batch that is not opening a segment leaves the one that is alone.
LEMMA RollsAside ==
  ASSUME RecordsOK, Places, Rolls, NEW r \in Record, pc[r] \notin {"open", "install"},
         NEW step \in Step \ {"open", "install"}, pc' = [pc EXCEPT ![r] = step],
         NEW s \in segments \cup {NoSegment}, at' = at \/ at' = [at EXCEPT ![r] = s],
         UNCHANGED <<segments, files>>,
         \A t \in Segment \ segments : unlinking'[t] = unlinking[t]
  PROVE  Rolls'
<1>1. ASSUME NEW x \in Record
      PROVE  /\ x # r => pc'[x] = pc[x] /\ at'[x] = at[x]
             /\ pc'[r] = step /\ (at'[r] = at[r] \/ at'[r] = s)
  BY DEF RecordsOK
<1>2. \A x \in Record : pc'[x] \in {"open", "install"} => x # r /\ pc'[x] = pc[x] /\ at'[x] = at[x]
  BY <1>1
<1>3. \A x \in Record : pc[x] = "install" =>
        at[x] \in Segment \ segments /\ at[x] # NoSegment /\ at[x] \in files /\ unlinking[at[x]] = "none"
  BY DEF RecordsOK, Places, Rolls
<1>4. \A x, y \in Record : pc'[x] \in {"open", "install"} /\ pc'[y] \in {"open", "install"} => x = y
  BY <1>2 DEF Rolls
<1>5. ASSUME NEW x \in Record, NEW y \in Record, pc'[x] = "install", at'[y] = at'[x] PROVE x = y
  <2>1. pc[x] = "install" /\ at'[x] = at[x] /\ x # r
    BY <1>2, <1>5
  <2>2. at'[y] # s
    BY <1>3, <1>5, <2>1
  <2>3. at'[y] = at[y]
    BY <1>1, <2>2
  <2> QED BY <1>5, <2>1, <2>3 DEF Rolls
<1>6. \A x \in Record : pc'[x] = "install" => at'[x] \in files' \ segments' /\ unlinking'[at'[x]] = "none"
  BY <1>2, <1>3
<1> QED BY <1>4, <1>5, <1>6 DEF Rolls

\* The roll lock excludes: a number handed out is known to the thread that opens it alone.
LEMMA RollsStep ==
  ASSUME RecordsOK, SegmentsOK, DiskOK, Places, Rolls, Unlinks, [Next]_vars
  PROVE  Rolls'
<1> USE DEF RecordsOK, Rolls, NoSegment
<1> USE DEF recordVars, segmentVars, diskVars, fileVars, manifestVars
<1>1. \A x \in Record : pc[x] = "install" => at[x] \in Segment
  BY DEF Places
<1>2. CASE UNCHANGED <<pc, at, segments, files, unlinking>>
  BY <1>2
<1>3. ASSUME NEW r \in Record, Spill(r) PROVE Rolls'
  BY <1>3 DEF Spill, Goto
<1>4. ASSUME NEW r \in Record, Lay(r) PROVE Rolls'
  <2> DEFINE s == active[StageOf[r]]
  <2>1. /\ UNCHANGED <<segments, files, unlinking>> /\ pc[r] = "lay"
        /\ \/ Fits(r) /\ at' = [at EXCEPT ![r] = s] /\ Goto(r, "laid")
           \/ BackToMemory(r)
           \/ Goto(r, "roll") /\ at' = at
    BY <1>4, Zenon DEF Lay
  <2>2. Fits(r) => s \in segments
    BY DEF Fits, Unlinks
  <2> HIDE DEF s
  <2> QED BY <2>1, <2>2, RollsAside DEF Goto, BackToMemory, Step
<1>5. ASSUME NEW r \in Record, Roll(r) PROVE Rolls'
  BY <1>5 DEF Roll, RollHeld, Goto
<1>6. ASSUME NEW r \in Record, DiskBound(r) PROVE Rolls'
  BY <1>6 DEF DiskBound, Goto, BackToMemory, Places
<1>7. ASSUME NEW r \in Record, CreateFile(r) PROVE Rolls'
  <2>1. \A x \in Record : pc[x] # "install" /\ at[x] # nextSegment
    BY <1>7 DEF CreateFile, Places, DiskOK, Segment
  <2>2. nextSegment <= MaxSegment => /\ nextSegment \in Segment
                                     /\ nextSegment \notin segments
                                     /\ unlinking[nextSegment] = "none"
    BY DEF Unlinks, SegmentsOK, DiskOK, Segment
  <2> QED BY <1>7, <2>1, <2>2 DEF CreateFile, Goto, BackToMemory
<1>8. ASSUME NEW r \in Record, InstallSegment(r) PROVE Rolls'
  <2>1. \A x \in Record : pc'[x] \notin {"open", "install"}
    BY <1>8 DEF InstallSegment, Goto, BackToMemory
  <2> QED BY <2>1
<1>9. ASSUME NEW r \in Record, Submit(r) \/ WriteFails(r) PROVE Rolls'
  <2>1. UNCHANGED <<segments, files, unlinking>> /\ pc[r] \in {"laid", "writing"}
    BY <1>9 DEF Submit, WriteFails, OpenForWrite
  <2>2. \/ Goto(r, "writing") /\ at' = at
        \/ UNCHANGED <<pc, at>>
        \/ BackToMemory(r)
    BY <1>9, Zenon DEF Submit, WriteFails
  <2> QED BY <1>2, <2>1, <2>2, RollsAside DEF Goto, BackToMemory, Step
<1>10. ASSUME NEW r \in Record, Land(r) \/ Take(r) PROVE Rolls'
  <2>1. UNCHANGED <<segments, files, unlinking, at>> /\ pc[r] \in {"writing", "disk"}
        /\ (Goto(r, "disk") \/ Goto(r, "taken"))
    BY <1>10 DEF Land, Take
  <2> QED BY <2>1, RollsAside DEF Goto, Step
<1>11. ASSUME NEW r \in Record, Release(r) PROVE Rolls'
  <2>1. \A t \in Segment \ segments : unlinking'[t] = unlinking[t]
    BY <1>11 DEF Release, ListForUnlink
  <2>2. /\ UNCHANGED <<segments, files>> /\ pc[r] = "taken"
        /\ Goto(r, "gone") /\ at' = [at EXCEPT ![r] = NoSegment]
    BY <1>11 DEF Release
  <2>3. pc' = [pc EXCEPT ![r] = "gone"] /\ "gone" \in Step \ {"open", "install"}
    BY <2>2 DEF Goto, Step
  <2>4. pc[r] \notin {"open", "install"} /\ NoSegment \in segments \cup {NoSegment}
    BY <2>2
  <2> QED BY <2>1, <2>2, <2>3, <2>4, RollsAside, Zenon
<1>12. ASSUME NEW r \in Record, DropCopy(r) \/ Promote(r) PROVE Rolls'
  BY <1>2, <1>12 DEF DropCopy, Promote
<1>13. ASSUME NEW q \in Queue, Close(q) PROVE Rolls'
  BY <1>1, <1>13 DEF Close, ListForUnlink, SegmentsOK
<1>14. ASSUME NEW s \in Segment, UnlinkEntry(s) PROVE Rolls'
  BY <1>1, <1>14 DEF UnlinkEntry, SegmentsOK
<1>15. ASSUME NEW s \in Segment, UnlinkFile(s) \/ Discharge(s) PROVE Rolls'
  BY <1>1, <1>15 DEF UnlinkFile, Discharge, SegmentsOK
<1>16. CASE SetBudgets \/ SnapshotRows \/ SnapshotSegments \/ RenameManifest
  BY <1>2, <1>16 DEF SetBudgets, SnapshotRows, SnapshotSegments, RenameManifest
<1>17. CASE ReclaimSegments
  BY <1>1, <1>17 DEF ReclaimSegments, ListForUnlink, SegmentsOK
<1> QED
  BY <1>2, <1>3, <1>4, <1>5, <1>6, <1>7, <1>8, <1>9, <1>10, <1>11, <1>12, <1>13, <1>14, <1>15,
     <1>16, <1>17, Zenon DEF Next, Progress, Unlink, Checkpoint, vars

\* A segment is in the map, then cut, then removed, in that order, and its number is not used again.
LEMMA UnlinksStep ==
  ASSUME RecordsOK, SegmentsOK, DiskOK, Places, Rolls, Unlinks, [Next]_vars
  PROVE  Unlinks'
<1> USE DEF SegmentsOK, DiskOK, Unlinks, NoSegment
<1> USE DEF recordVars, segmentVars, diskVars, fileVars, manifestVars
<1>1. CASE UNCHANGED <<nextSegment, segments, files, unlinking, active>>
  BY <1>1
<1>2. ASSUME NEW r \in Record, Spill(r) \/ Lay(r) \/ Roll(r) \/ DiskBound(r) PROVE Unlinks'
  BY <1>1, <1>2, LayFrame
<1>3. ASSUME NEW r \in Record, CreateFile(r) PROVE Unlinks'
  <2>1. CASE nextSegment <= MaxSegment /\ files' = files \cup {nextSegment}
    <3>1. nextSegment' = nextSegment + 1 /\ nextSegment \in Segment
      BY <1>3, <2>1 DEF CreateFile, Segment
    <3>2. unlinking[nextSegment] = "none"
      BY <3>1
    <3>3. \A s \in Segment : s < nextSegment => s < nextSegment'
      BY <3>1 DEF Segment
    <3>4. \A s \in files' : s < nextSegment'
      BY <2>1, <3>1, <3>3
    <3>5. UNCHANGED <<segments, active, unlinking>>
      BY <1>3 DEF CreateFile
    <3>6. nextSegment' <= MaxSegment + 1
      BY <2>1, <3>1
    <3> QED BY <2>1, <3>2, <3>3, <3>4, <3>5, <3>6
  <2>2. CASE files' = files
    <3>1. /\ nextSegment' <= MaxSegment + 1
          /\ \A s \in Segment : s < nextSegment => s < nextSegment'
      BY <1>3 DEF CreateFile, Segment
    <3>2. UNCHANGED <<segments, active, unlinking>>
      BY <1>3 DEF CreateFile
    <3> QED BY <2>2, <3>1, <3>2
  <2> QED BY <1>3, <2>1, <2>2 DEF CreateFile
<1>4. ASSUME NEW r \in Record, InstallSegment(r) PROVE Unlinks'
  <2>1. UNCHANGED <<nextSegment, files, unlinking>>
    BY <1>4, Zenon DEF InstallSegment
  <2>2. CASE UNCHANGED segmentVars
    BY <1>1, <2>1, <2>2, Zenon
  <2>3. PICK n : n = at[r]
    OBVIOUS
  <2>4. n \in files /\ unlinking[n] = "none"
    BY <1>4, <2>3 DEF InstallSegment, Rolls
  <2>5. CASE segments' = segments \cup {n} /\ active' = [active EXCEPT ![StageOf[r]] = n]
    BY <2>1, <2>4, <2>5
  <2> QED BY <1>4, <2>2, <2>3, <2>5, Zenon DEF InstallSegment
<1>5. ASSUME NEW r \in Record, Submit(r) \/ WriteFails(r) PROVE Unlinks'
  BY <1>1, <1>5, WriteFrame
<1>6. ASSUME NEW r \in Record, Land(r) PROVE Unlinks'
  BY <1>1, <1>6 DEF Land
<1>7. ASSUME NEW r \in Record, Release(r) PROVE Unlinks'
  <2>1. \A s \in Segment : unlinking'[s] # unlinking[s] => s \in segments /\ unlinking'[s] = "listed"
    BY <1>7 DEF Release, ListForUnlink
  <2> QED BY <1>7, <2>1 DEF Release
<1>8. ASSUME NEW r \in Record, DropCopy(r) \/ Promote(r) \/ Take(r) PROVE Unlinks'
  BY <1>1, <1>8, CopyFrame
<1>9. ASSUME NEW q \in Queue, Close(q) PROVE Unlinks'
  <2>1. \A s \in Segment : unlinking'[s] # unlinking[s] => s \in segments /\ unlinking'[s] = "listed"
    BY <1>9 DEF Close, ListForUnlink
  <2>2. \A p \in Queue : active'[p] = IF p = q THEN NoSegment ELSE active[p]
    BY <1>9 DEF Close
  <2> QED BY <1>9, <2>1, <2>2 DEF Close
<1>10. ASSUME NEW s \in Segment, UnlinkEntry(s) PROVE Unlinks'
  BY <1>10 DEF UnlinkEntry, Reclaimable, IsActive
<1>11. ASSUME NEW s \in Segment, UnlinkFile(s) PROVE Unlinks'
  BY <1>11 DEF UnlinkFile
<1>12. ASSUME NEW s \in Segment, Discharge(s) PROVE Unlinks'
  BY <1>12 DEF Discharge
<1>13. CASE SetBudgets \/ SnapshotRows \/ SnapshotSegments \/ RenameManifest
  BY <1>1, <1>13 DEF SetBudgets, SnapshotRows, SnapshotSegments, RenameManifest
<1>14. CASE ReclaimSegments
  <2>1. \A s \in Segment : unlinking'[s] # unlinking[s] => s \in segments /\ unlinking'[s] = "listed"
    BY <1>14 DEF ReclaimSegments, ListForUnlink
  <2> QED BY <1>14, <2>1 DEF ReclaimSegments
<1> QED
  BY <1>1, <1>2, <1>3, <1>4, <1>5, <1>6, <1>7, <1>8, <1>9, <1>10, <1>11, <1>12, <1>13, <1>14,
     Zenon DEF Next, Progress, Unlink, Checkpoint, vars

\* A write loses its file only to unlink_segments, which has taken the segment out of the map.
LEMMA LostStep ==
  ASSUME RecordsOK, SegmentsOK, DiskOK, Places, Rolls, Unlinks, Lost, [Next]_vars
  PROVE  Lost'
<1> USE DEF RecordsOK, DiskOK, Lost
<1> USE DEF recordVars, segmentVars, diskVars, fileVars, manifestVars
<1>1. CASE UNCHANGED <<pc, at, segments, lost>>
  BY <1>1
<1>2. ASSUME NEW r \in Record, Spill(r) \/ Lay(r) \/ Roll(r) \/ DiskBound(r) PROVE Lost'
  <2>1. r \notin lost
    BY <1>2 DEF Spill, Lay, Roll, DiskBound
  <2>2. UNCHANGED <<segments, lost>>
    BY <1>2, LayFrame, Zenon
  <2>3. \A x \in Record \ {r} : pc'[x] = pc[x] /\ at'[x] = at[x]
    BY <1>2, SpillMoves, Zenon
  <2> QED BY <2>1, <2>2, <2>3
<1>3. ASSUME NEW r \in Record, CreateFile(r) PROVE Lost'
  BY <1>3 DEF CreateFile, Goto, BackToMemory
<1>4. ASSUME NEW r \in Record, InstallSegment(r) PROVE Lost'
  BY <1>4 DEF InstallSegment, Goto, BackToMemory, Rolls
<1>5. ASSUME NEW r \in Record, Submit(r) PROVE Lost'
  BY <1>5 DEF Submit, OpenForWrite, Goto, BackToMemory
<1>6. ASSUME NEW r \in Record, Land(r) \/ WriteFails(r) PROVE Lost'
  BY <1>6 DEF Land, WriteFails, OpenForWrite, Goto, BackToMemory
<1>7. ASSUME NEW r \in Record, Release(r) PROVE Lost'
  BY <1>7 DEF Release, Goto
<1>8. ASSUME NEW r \in Record, Take(r) PROVE Lost'
  BY <1>8 DEF Take, Goto
<1>9. ASSUME NEW r \in Record, DropCopy(r) \/ Promote(r) PROVE Lost'
  BY <1>1, <1>9, CopyFrame DEF DropCopy, Promote, Take
<1>10. ASSUME NEW q \in Queue, Close(q) PROVE Lost'
  BY <1>1, <1>10 DEF Close
<1>11. ASSUME NEW s \in Segment, UnlinkEntry(s) PROVE Lost'
  BY <1>11 DEF UnlinkEntry
<1>12. ASSUME NEW s \in Segment, UnlinkFile(s) PROVE Lost'
  BY <1>12 DEF UnlinkFile, Unlinks
<1>13. ASSUME NEW s \in Segment, Discharge(s) PROVE Lost'
  BY <1>1, <1>13 DEF Discharge
<1>14. CASE SetBudgets \/ Checkpoint
  BY <1>1, <1>14 DEF SetBudgets, Checkpoint, SnapshotRows, SnapshotSegments, RenameManifest,
                     ReclaimSegments
<1> QED
  BY <1>1, <1>2, <1>3, <1>4, <1>5, <1>6, <1>7, <1>8, <1>9, <1>10, <1>11, <1>12, <1>13,
     <1>14, Zenon DEF Next, Progress, Unlink, vars

\* The counters of a segment and its set of counted records change together: record_written and
\* release_record are the only steps that change either for a segment in the map.
LEMMA CountsStep ==
  ASSUME RecordsOK, SegmentsOK, Places, Rolls, CountsFollowRecords, [Next]_vars
  PROVE  CountsFollowRecords'
<1> USE DEF RecordsOK
<1> USE DEF recordVars, segmentVars, diskVars, fileVars, manifestVars
<1>1. \A s \in Segment : IsFiniteSet(Counted(s))
  <2>1. \A s \in Segment : Counted(s) \in SUBSET Record
    BY DEF Counted
  <2> QED BY <2>1, FS_Subset
<1>2. \A s \in Segment : Cardinality(Counted(s)) \in Nat
  BY <1>1, FS_CardinalityType
<1>3. ASSUME UNCHANGED <<recordsTotal, recordsReleased>>, segments' \subseteq segments,
             \A s \in segments : Counted(s)' = Counted(s)
      PROVE  CountsFollowRecords'
  BY <1>3 DEF CountsFollowRecords
<1>4. CASE UNCHANGED <<pc, at, segments, recordsTotal, recordsReleased>>
  BY <1>3, <1>4 DEF Counted
<1>5. ASSUME NEW r \in Record, pc[r] \notin {"disk", "taken"}, pc'[r] \notin {"disk", "taken"},
             \A x \in Record \ {r} : pc'[x] = pc[x] /\ at'[x] = at[x]
      PROVE  \A s \in segments : Counted(s)' = Counted(s)
  BY <1>5 DEF Counted
<1>6. ASSUME NEW r \in Record, Spill(r) \/ Lay(r) \/ Roll(r) \/ DiskBound(r)
      PROVE  CountsFollowRecords'
  BY <1>3, <1>5, <1>6, LayFrame, SpillMoves, Zenon
<1>7. ASSUME NEW r \in Record, CreateFile(r) PROVE CountsFollowRecords'
  <2>1. UNCHANGED <<segments, recordsTotal, recordsReleased>>
    BY <1>7 DEF CreateFile
  <2> QED BY <1>3, <1>5, <1>7, <2>1, SpillMoves
<1>8. ASSUME NEW r \in Record, Submit(r) \/ WriteFails(r) PROVE CountsFollowRecords'
  BY <1>3, <1>5, <1>8, WriteFrame, SpillMoves, Zenon
<1>9. ASSUME NEW r \in Record, InstallSegment(r) PROVE CountsFollowRecords'
  <2>1. PICK n \in Segment : n = at[r]
    BY <1>9 DEF InstallSegment, Places
  <2>2. CASE BackToMemory(r) /\ UNCHANGED segmentVars
    <3>1. /\ pc[r] \notin {"disk", "taken"} /\ pc'[r] \notin {"disk", "taken"}
          /\ \A x \in Record \ {r} : pc'[x] = pc[x] /\ at'[x] = at[x]
      BY <1>9, <2>2 DEF InstallSegment, Goto, BackToMemory
    <3> QED BY <1>3, <1>5, <2>2, <3>1
  <2>3. CASE /\ segments' = segments \cup {n}
             /\ recordsTotal' = [recordsTotal EXCEPT ![n] = 0]
             /\ recordsReleased' = [recordsReleased EXCEPT ![n] = 0]
             /\ at' = [at EXCEPT ![r] = NoSegment]
             /\ Goto(r, "lay")
    <3>1. Counted(n)' = {}
      BY <1>9, <2>1, <2>3 DEF Counted, InstallSegment, Goto, Rolls
    <3>2. \A s \in segments : s # n /\ Counted(s)' = Counted(s)
      BY <1>9, <2>1, <2>3 DEF Counted, InstallSegment, Goto, Rolls
    <3>3. recordsTotal'[n] = recordsReleased'[n] + Cardinality(Counted(n)')
      BY <2>3, <3>1, FS_EmptySet DEF SegmentsOK
    <3>4. \A s \in segments : /\ recordsTotal'[s] = recordsTotal[s]
                              /\ recordsReleased'[s] = recordsReleased[s]
      BY <2>3, <3>2 DEF SegmentsOK
    <3> QED BY <2>3, <3>2, <3>3, <3>4 DEF CountsFollowRecords
  <2> QED BY <1>9, <2>1, <2>2, <2>3 DEF InstallSegment
<1>10. ASSUME NEW r \in Record, Land(r) PROVE CountsFollowRecords'
  <2>1. PICK n \in Segment : n = at[r]
    BY <1>10 DEF Land, Places
  <2>2. Counted(n)' = Counted(n) \cup {r} /\ r \notin Counted(n)
    BY <1>10, <2>1 DEF Land, Counted, Goto
  <2>3. \A s \in segments : s # n => Counted(s)' = Counted(s)
    BY <1>10, <2>1 DEF Land, Counted, Goto
  <2>4. Cardinality(Counted(n)') = Cardinality(Counted(n)) + 1
    BY <1>1, <2>2, FS_AddElement, Zenon
  <2>5. \A s \in segments : recordsTotal'[s] = recordsTotal[s] + (IF s = n THEN 1 ELSE 0)
    BY <1>10, <2>1 DEF Land, SegmentsOK
  <2>6. segments' = segments /\ recordsReleased' = recordsReleased
    BY <1>10 DEF Land
  <2> QED BY <1>2, <2>3, <2>4, <2>5, <2>6 DEF CountsFollowRecords, SegmentsOK
<1>11. ASSUME NEW r \in Record, Take(r) PROVE CountsFollowRecords'
  BY <1>3, <1>11 DEF Take, Counted, Goto
<1>12. ASSUME NEW r \in Record, Release(r) PROVE CountsFollowRecords'
  <2>1. PICK n \in Segment : n = at[r]
    BY <1>12 DEF Release, Places
  <2>2. Counted(n)' = Counted(n) \ {r} /\ r \in Counted(n)
    BY <1>12, <2>1 DEF Release, Counted, Goto, NoSegment, Segment
  <2>3. \A s \in segments : s # n => Counted(s)' = Counted(s)
    BY <1>12, <2>1 DEF Release, Counted, Goto
  <2>4. Cardinality(Counted(n)') = Cardinality(Counted(n)) - 1
    BY <1>1, <2>2, FS_RemoveElement, Zenon
  <2>5. \A s \in segments : recordsReleased'[s] = recordsReleased[s] + (IF s = n THEN 1 ELSE 0)
    BY <1>12, <2>1 DEF Release, SegmentsOK
  <2>6. segments' = segments /\ recordsTotal' = recordsTotal
    BY <1>12 DEF Release
  <2> QED BY <1>2, <2>3, <2>4, <2>5, <2>6 DEF CountsFollowRecords, SegmentsOK
<1>13. ASSUME NEW r \in Record, DropCopy(r) \/ Promote(r) PROVE CountsFollowRecords'
  BY <1>4, <1>13, CopyFrame DEF DropCopy, Promote, Take
<1>14. ASSUME NEW q \in Queue, Close(q) PROVE CountsFollowRecords'
  BY <1>4, <1>14, Zenon DEF Close
<1>15. ASSUME NEW s \in Segment, Unlink(s) PROVE CountsFollowRecords'
  BY <1>3, <1>15 DEF Unlink, UnlinkEntry, UnlinkFile, Discharge, Counted
<1>16. CASE SetBudgets \/ Checkpoint
  BY <1>4, <1>16 DEF SetBudgets, Checkpoint, SnapshotRows, SnapshotSegments, RenameManifest,
                     ReclaimSegments
<1> QED
  BY <1>4, <1>6, <1>7, <1>8, <1>9, <1>10, <1>11, <1>12, <1>13, <1>14, <1>15, <1>16, Zenon
  DEF Next, Progress, vars

\* A counted record's bytes stay in its file: a file is truncated when its number is new, and
\* removed when the segment is out of the map.
LEMMA ReadableStep ==
  ASSUME RecordsOK, SegmentsOK, DiskOK, Places, Rolls, Unlinks, Lost, CountedRecordReadable,
         [Next]_vars
  PROVE  CountedRecordReadable'
<1> USE DEF RecordsOK, DiskOK, CountedRecordReadable, Readable
<1> USE DEF recordVars, segmentVars, diskVars, fileVars, manifestVars
<1>1. CASE UNCHANGED <<pc, at, segments, files, content>>
  BY <1>1
<1>2. ASSUME NEW r \in Record, Spill(r) \/ Lay(r) \/ Roll(r) \/ DiskBound(r)
      PROVE  CountedRecordReadable'
  BY <1>2, LayFrame, SpillMoves, Zenon
<1>3. ASSUME NEW r \in Record, CreateFile(r) PROVE CountedRecordReadable'
  <2>1. \A x \in Record : at[x] # nextSegment
    BY DEF Places, Segment, NoSegment
  <2>2. \A x \in Record : at[x] \in segments => content'[at[x]] = content[at[x]]
    BY <1>3, <2>1 DEF CreateFile, SegmentsOK
  <2> QED BY <1>3, <2>2 DEF CreateFile, Goto, BackToMemory
<1>4. ASSUME NEW r \in Record, InstallSegment(r) PROVE CountedRecordReadable'
  BY <1>4 DEF InstallSegment, Goto, BackToMemory, Rolls
<1>5. ASSUME NEW r \in Record, Submit(r) \/ WriteFails(r) PROVE CountedRecordReadable'
  BY <1>5, WriteFrame, SpillMoves, Zenon
<1>6. ASSUME NEW r \in Record, Land(r) PROVE CountedRecordReadable'
  <2>1. at[r] \in segments => r \notin lost /\ at[r] \in Segment /\ at[r] \in files
    BY <1>6 DEF Land, Lost, Unlinks, SegmentsOK
  <2>2. \A s \in Segment : content[s] \subseteq content'[s]
    BY <1>6 DEF Land
  <2>3. at[r] \in segments => r \in content'[at[r]]
    BY <1>6, <2>1 DEF Land
  <2>4. UNCHANGED <<at, segments, files>> /\ \A x \in Record : x # r => pc'[x] = pc[x]
    BY <1>6 DEF Land, Goto
  <2> QED BY <2>1, <2>2, <2>3, <2>4, Zenon DEF SegmentsOK
<1>7. ASSUME NEW r \in Record, Take(r) \/ Release(r) PROVE CountedRecordReadable'
  BY <1>7 DEF Take, Release, Goto
<1>8. ASSUME NEW r \in Record, DropCopy(r) \/ Promote(r) PROVE CountedRecordReadable'
  BY <1>1, <1>8, CopyFrame DEF DropCopy, Promote, Take
<1>9. ASSUME NEW q \in Queue, Close(q) PROVE CountedRecordReadable'
  BY <1>1, <1>9 DEF Close
<1>10. ASSUME NEW s \in Segment, UnlinkEntry(s) PROVE CountedRecordReadable'
  BY <1>10 DEF UnlinkEntry
<1>11. ASSUME NEW s \in Segment, UnlinkFile(s) PROVE CountedRecordReadable'
  BY <1>11 DEF UnlinkFile, Unlinks, SegmentsOK
<1>12. ASSUME NEW s \in Segment, Discharge(s) PROVE CountedRecordReadable'
  BY <1>1, <1>12 DEF Discharge
<1>13. CASE SetBudgets \/ Checkpoint
  BY <1>1, <1>13 DEF SetBudgets, Checkpoint, SnapshotRows, SnapshotSegments, RenameManifest,
                     ReclaimSegments
<1> QED
  BY <1>1, <1>2, <1>3, <1>4, <1>5, <1>6, <1>7, <1>8, <1>9, <1>10, <1>11, <1>12, <1>13,
     Zenon DEF Next, Progress, Unlink, vars

\* The charge follows the files: it is made after the file is created and returned after it is
\* removed, and the budget was checked under the roll lock, which admits one uncharged file.
LEMMA ChargesStep ==
  ASSUME RecordsOK, SegmentsOK, DiskOK, Places, Rolls, Unlinks, Charges, [Next]_vars
  PROVE  Charges'
<1> USE DEF RecordsOK, DiskOK, Charges
<1> USE DEF recordVars, segmentVars, diskVars, fileVars, manifestVars
<1>1. /\ IsFiniteSet(files) /\ Cardinality(files) \in Nat
      /\ IsFiniteSet(Removed) /\ Cardinality(Removed) \in Nat
  <2>1. IsFiniteSet(Segment)
    BY FS_Interval DEF Segment
  <2>2. files \in SUBSET Segment /\ Removed \in SUBSET Segment
    BY DEF Removed
  <2> QED BY <2>1, <2>2, FS_Subset, FS_CardinalityType
<1>2. ASSUME Uncharged' = Uncharged, Removed' = Removed, diskBudget' <= MaxBudget,
             UNCHANGED <<diskSegments, files>>
      PROVE  Charges'
  BY <1>2
<1>3. CASE UNCHANGED <<pc, unlinking, diskSegments, diskBudget, files>>
  BY <1>2, <1>3 DEF Uncharged, Removed
<1>4. ASSUME NEW r \in Record, pc[r] # "install", pc'[r] # "install",
             \A x \in Record : x # r => pc'[x] = pc[x]
      PROVE  Uncharged' = Uncharged
  BY <1>4 DEF Uncharged
<1>5. ASSUME NEW r \in Record, Spill(r) \/ Lay(r) \/ Roll(r) \/ DiskBound(r) PROVE Charges'
  <2>1. pc'[r] # "install"
    BY <1>5, NoInstall
  <2>2. Uncharged' = Uncharged
    BY <1>4, <1>5, <2>1, SpillMoves, Zenon
  <2> QED BY <1>2, <1>5, <2>2, LayFrame DEF Removed
<1>6. ASSUME NEW r \in Record, Submit(r) \/ WriteFails(r) PROVE Charges'
  <2>1. pc'[r] # "install"
    BY <1>6, NoInstall
  <2>2. Uncharged' = Uncharged
    BY <1>4, <1>6, <2>1, SpillMoves, Zenon
  <2> QED BY <1>2, <1>6, <2>2, WriteFrame DEF Removed
<1>7. ASSUME NEW r \in Record, Land(r) PROVE Charges'
  <2>1. Uncharged' = Uncharged
    BY <1>4, <1>7 DEF Land, Goto
  <2> QED BY <1>2, <1>7, <2>1 DEF Land, Removed
<1>8. ASSUME NEW r \in Record, Take(r) PROVE Charges'
  <2>1. Uncharged' = Uncharged
    BY <1>4, <1>8 DEF Take, Goto
  <2> QED BY <1>2, <1>8, <2>1, CopyFrame DEF Removed
<1>9. ASSUME NEW r \in Record, CreateFile(r) PROVE Charges'
  <2>1. Uncharged = 0 /\ UNCHANGED <<diskSegments, unlinking>> /\ Removed' = Removed
    BY <1>9 DEF CreateFile, Uncharged, Rolls, Removed
  <2>2. CASE Goto(r, "install") /\ files' = files \cup {nextSegment} /\ diskBudget' = diskBudget
    <3>1. Uncharged' = 1
      BY <2>2 DEF Uncharged, Goto
    <3>2. Cardinality(files') = Cardinality(files) + 1
      <4>1. nextSegment \notin files
        BY DEF Unlinks
      <4> QED BY <1>1, <2>2, <4>1, FS_AddElement, Zenon
    <3>3. diskSegments + 1 <= MaxBudget
      BY <1>9 DEF CreateFile
    <3> QED BY <1>1, <2>1, <2>2, <3>1, <3>2, <3>3
  <2>3. CASE BackToMemory(r) /\ files' = files
    <3>1. Uncharged' = Uncharged
      BY <1>4, <1>9, <2>3, Zenon DEF CreateFile, BackToMemory, Goto
    <3>2. diskBudget' <= MaxBudget
      BY <1>9, <2>1 DEF CreateFile
    <3> QED BY <1>2, <2>1, <2>3, <3>1, <3>2
  <2> QED BY <1>9, <2>2, <2>3 DEF CreateFile
<1>10. ASSUME NEW r \in Record, InstallSegment(r) PROVE Charges'
  <2>1. Uncharged = 1
    BY <1>10 DEF InstallSegment, Uncharged
  <2>2. Uncharged' = 0
    BY <1>10, Zenon DEF InstallSegment, Uncharged, Goto, BackToMemory, Rolls
  <2>3. diskSegments' = diskSegments + 1 /\ UNCHANGED <<files, diskBudget>> /\ Removed' = Removed
    BY <1>10, Zenon DEF InstallSegment, Removed
  <2> QED BY <1>1, <2>1, <2>2, <2>3
<1>11. ASSUME NEW r \in Record, Release(r) PROVE Charges'
  <2>1. Uncharged' = Uncharged
    BY <1>4, <1>11, Zenon DEF Release, Goto
  <2>2. Removed' = Removed
    BY <1>11 DEF Release, Removed, ListForUnlink, SegmentsOK
  <2> QED BY <1>2, <1>11, <2>1, <2>2, Zenon DEF Release
<1>12. ASSUME NEW r \in Record, DropCopy(r) \/ Promote(r) PROVE Charges'
  BY <1>3, <1>12, CopyFrame, Zenon DEF DropCopy, Promote, Take
<1>13. ASSUME NEW q \in Queue, Close(q) PROVE Charges'
  <2>1. Removed' = Removed /\ Uncharged' = Uncharged
    BY <1>13 DEF Close, Removed, ListForUnlink, SegmentsOK, Uncharged
  <2> QED BY <1>2, <1>13, <2>1, Zenon DEF Close
<1>14. ASSUME NEW s \in Segment, UnlinkEntry(s) PROVE Charges'
  <2>1. Removed' = Removed /\ Uncharged' = Uncharged
    BY <1>14 DEF UnlinkEntry, Removed, SegmentsOK, Uncharged
  <2> QED BY <1>2, <1>14, <2>1 DEF UnlinkEntry
<1>15. ASSUME NEW s \in Segment, UnlinkFile(s) PROVE Charges'
  <2>1. Removed' = Removed \cup {s} /\ s \notin Removed
    BY <1>15 DEF UnlinkFile, Removed, SegmentsOK
  <2>2. files' = files \ {s} /\ s \in files
    BY <1>15 DEF UnlinkFile, Unlinks
  <2>3. /\ Cardinality(Removed') = Cardinality(Removed) + 1
        /\ Cardinality(files') = Cardinality(files) - 1
    BY <1>1, <2>1, <2>2, FS_AddElement, FS_RemoveElement, Zenon
  <2>4. Uncharged' = Uncharged /\ UNCHANGED <<diskSegments, diskBudget>>
    BY <1>15 DEF UnlinkFile, Uncharged
  <2> QED BY <1>1, <2>3, <2>4
<1>16. ASSUME NEW s \in Segment, Discharge(s) PROVE Charges'
  <2>1. Removed' = Removed \ {s} /\ s \in Removed
    BY <1>16 DEF Discharge, Removed, SegmentsOK
  <2>2. Cardinality(Removed') = Cardinality(Removed) - 1
    BY <1>1, <2>1, FS_RemoveElement, Zenon
  <2>3. Uncharged' = Uncharged /\ Uncharged \in {0, 1} /\ UNCHANGED <<files, diskBudget>>
    BY <1>16 DEF Discharge, Uncharged
  <2>4. Uncharged <= Cardinality(files)
    <3>1. Uncharged = 1 => files # {}
      BY DEF Uncharged, Rolls
    <3> QED BY <1>1, <2>3, <3>1, FS_EmptySet
  <2>5. Cardinality(Removed) >= 1
    BY <1>1, <2>1, FS_EmptySet
  <2>6. diskSegments' = diskSegments - 1
    BY <1>1, <1>16, <2>3, <2>4, <2>5 DEF Discharge
  <2> QED BY <1>1, <2>2, <2>3, <2>5, <2>6
<1>17. CASE SetBudgets
  <2>1. Removed' = Removed /\ Uncharged' = Uncharged /\ diskBudget' <= MaxBudget
    BY <1>17 DEF SetBudgets, Removed, Uncharged
  <2> QED BY <1>2, <1>17, <2>1 DEF SetBudgets
<1>18. CASE SnapshotRows \/ SnapshotSegments \/ RenameManifest
  BY <1>3, <1>18 DEF SnapshotRows, SnapshotSegments, RenameManifest
<1>19. CASE ReclaimSegments
  <2>1. Removed' = Removed /\ Uncharged' = Uncharged
    BY <1>19, Zenon DEF ReclaimSegments, Removed, ListForUnlink, SegmentsOK, Uncharged
  <2> QED BY <1>2, <1>19, <2>1, Zenon DEF ReclaimSegments
<1> QED
  BY <1>3, <1>5, <1>6, <1>7, <1>8, <1>9, <1>10, <1>11, <1>12, <1>13, <1>14, <1>15, <1>16, <1>17,
     <1>18, <1>19, Zenon DEF Next, Progress, Unlink, Checkpoint, vars
-----------------------------------------------------------------------------
LEMMA InitInv == Init => IndInv
<1> SUFFICES ASSUME Init PROVE IndInv
  OBVIOUS
<1> USE DEF Init
<1>1. TypeOK
  <2>1. RecordsOK
    BY DEF RecordsOK, Step
  <2>2. SegmentsOK
    BY DEF SegmentsOK, UnlinkStep
  <2>3. DiskOK
    BY DEF DiskOK
  <2>4. ManifestOK
    BY DEF ManifestOK, NoManifest, IdleWriter
  <2> QED BY <2>1, <2>2, <2>3, <2>4 DEF TypeOK
<1>2. Places /\ Rolls
  BY DEF Places, Rolls, NoSegment
<1>3. Unlinks /\ Lost
  BY DEF Unlinks, Lost, NoSegment
<1>4. CountsFollowRecords /\ CountedRecordReadable
  BY DEF CountsFollowRecords, CountedRecordReadable
<1>5. Charges
  <2>1. Removed = {} /\ Uncharged = 0
    BY DEF Removed, Uncharged
  <2> QED BY <2>1, FS_EmptySet DEF Charges
<1> QED BY <1>1, <1>2, <1>3, <1>4, <1>5 DEF IndInv

LEMMA NextInv == IndInv /\ [Next]_vars => IndInv'
<1> SUFFICES ASSUME IndInv, [Next]_vars PROVE IndInv'
  OBVIOUS
<1>1. /\ RecordsOK /\ SegmentsOK /\ DiskOK /\ ManifestOK
      /\ Places /\ Rolls /\ Unlinks /\ Lost
      /\ CountsFollowRecords /\ CountedRecordReadable /\ Charges
  BY DEF IndInv, TypeOK
<1>2. Placed
  BY <1>1 DEF Places, Placed, RecordsOK
<1> QED
  BY <1>1, <1>2, TypeStep, PlacesStep, RollsStep, UnlinksStep, LostStep, CountsStep, ReadableStep,
     ChargesStep DEF IndInv

\* The invariant is inductive.
THEOREM Invariance == Spec => []IndInv
BY InitInv, NextInv, PTL DEF Spec

\* Every variable of the disk tier keeps its type.
THEOREM TypeCorrect == Spec => []TypeOK
BY Invariance, PTL DEF IndInv

\* A segment in the map counts exactly the records that landed in it and were not released, for any
\* number of queues, batches and segments, with checkpoints on or off.
THEOREM CountsCorrect == Spec => []CountsFollowRecords
BY Invariance, PTL DEF IndInv

\* The disk copy of a batch whose segment is in the map can be read back.
THEOREM CountedReadable == Spec => []CountedRecordReadable
BY Invariance, PTL DEF IndInv

\* unlink_segments takes no segment that holds the counted copy of a live batch.
THEOREM CopyKept == Spec => CopyKeptUntilTaken
<1> DEFINE Kept == \A r \in Record :
             pc[r] = "disk" /\ at[r] \in segments /\ pc'[r] = "disk" => at[r] \in segments'
<1>1. IndInv /\ [Next]_vars => [Kept]_vars
  <2> SUFFICES ASSUME IndInv, Next, NEW r \in Record, pc[r] = "disk", at[r] \in segments
               PROVE  at[r] \in segments'
    OBVIOUS
  <2> USE DEF recordVars, segmentVars
  <2>1. RecordsOK /\ SegmentsOK /\ CountsFollowRecords
    BY DEF IndInv, TypeOK
  <2>2. ASSUME NEW s \in Segment, UnlinkEntry(s) PROVE at[r] \in segments'
    <3>1. CASE s = at[r] /\ Reclaimable(s)
      <4>1. Counted(s) \in SUBSET Record /\ r \in Counted(s)
        BY <3>1 DEF Counted
      <4>2. Cardinality(Counted(s)) \in Nat \ {0}
        BY <4>1, FS_Subset, FS_CardinalityType, FS_EmptySet
      <4>3. recordsReleased[s] < recordsTotal[s]
        BY <2>1, <3>1, <4>2 DEF CountsFollowRecords, SegmentsOK
      <4>4. recordsReleased[s] \in Nat /\ recordsTotal[s] \in Nat
        BY <2>1, <2>2 DEF SegmentsOK
      <4>5. ~(recordsReleased[s] >= recordsTotal[s])
        BY <4>3, <4>4
      <4> QED BY <3>1, <4>5, Zenon DEF Reclaimable
    <3> QED BY <2>2, <3>1 DEF UnlinkEntry
  <2>3. ASSUME NEW x \in Record, InstallSegment(x) PROVE at[r] \in segments'
    BY <2>3 DEF InstallSegment
  <2>4. ASSUME NEW x \in Record, Spill(x) \/ Lay(x) \/ Roll(x) \/ DiskBound(x)
        PROVE  segments' = segments
    BY <2>4, LayFrame, Zenon
  <2>5. ASSUME NEW x \in Record, CreateFile(x) PROVE segments' = segments
    BY <2>5 DEF CreateFile
  <2>6. ASSUME NEW x \in Record, Submit(x) \/ WriteFails(x) PROVE segments' = segments
    BY <2>6, WriteFrame, Zenon
  <2>7. ASSUME NEW x \in Record, Land(x) PROVE segments' = segments
    BY <2>7, Zenon DEF Land
  <2>8. ASSUME NEW x \in Record, Release(x) PROVE segments' = segments
    BY <2>8, Zenon DEF Release
  <2>9. ASSUME NEW x \in Record, DropCopy(x) \/ Promote(x) \/ Take(x) PROVE segments' = segments
    BY <2>9, CopyFrame, Zenon
  <2>10. ASSUME NEW q \in Queue, Close(q) PROVE segments' = segments
    BY <2>10 DEF Close
  <2>11. ASSUME NEW s \in Segment, UnlinkFile(s) \/ Discharge(s) PROVE segments' = segments
    BY <2>11, Zenon DEF UnlinkFile, Discharge
  <2>12. CASE SetBudgets \/ Checkpoint
    BY <2>12 DEF SetBudgets, Checkpoint, SnapshotRows, SnapshotSegments, RenameManifest,
                ReclaimSegments
  <2> QED BY <2>2, <2>3, <2>4, <2>5, <2>6, <2>7, <2>8, <2>9, <2>10, <2>11, <2>12, Zenon
      DEF Next, Progress, Unlink
<1> QED BY <1>1, Invariance, PTL DEF Spec, CopyKeptUntilTaken

\* PL-I7: the preallocated segment files never take more than the largest disk budget, for any
\* interleaving of the budget check, the creation, the charge, the removal and the discharge.
THEOREM DiskBounded == Spec => []FilesWithinBudget
<1>1. IndInv => FilesWithinBudget
  <2> SUFFICES ASSUME IndInv PROVE FilesWithinBudget
    OBVIOUS
  <2>1. IsFiniteSet(Segment)
    BY FS_Interval DEF Segment
  <2>2. files \in SUBSET Segment /\ Removed \in SUBSET Segment
    BY DEF IndInv, TypeOK, DiskOK, Removed
  <2>3. Cardinality(files) \in Nat /\ Cardinality(Removed) \in Nat
    BY <2>1, <2>2, FS_Subset, FS_CardinalityType
  <2>4. diskSegments \in Nat /\ Uncharged \in Nat
    BY DEF IndInv, TypeOK, DiskOK, Uncharged
  <2> QED BY <2>3, <2>4 DEF IndInv, Charges, FilesWithinBudget
<1> QED BY <1>1, Invariance, PTL

-----------------------------------------------------------------------------
(* Crashes and resumes.  The invariant of one life does not survive a       *)
(* resume: a row whose segment is missing from the manifest's table comes   *)
(* back with a number that may be given out again, and the files of the     *)
(* crashed run stay uncharged.  What is proved here uses the weaker facts   *)
(* that every life keeps.                                                   *)

\* What every life keeps of the map, the roll lock and the order of unlink_segments.  Numbers are
\* only known to be fresh with respect to the map and the unlinks in progress.
LifeOK ==
  /\ segments \subseteq files
  /\ \A s \in segments : s < nextSegment
  /\ \A s \in Segment : /\ unlinking[s] # "none" => s < nextSegment
                        /\ unlinking[s] = "cut" => s \notin segments
  /\ \A r1, r2 \in Record :
       pc[r1] \in {"open", "install"} /\ pc[r2] \in {"open", "install"} => r1 = r2
  /\ \A r \in Record :
       pc[r] = "install" => /\ at[r] \in files \ segments
                            /\ at[r] < nextSegment
                            /\ unlinking[at[r]] = "none"

\* The checkpoint thread alone unlinks when a manifest is kept, and not while it writes one.
WriterAlone ==
  /\ ~checkpointEnabled => writer.step = "idle" /\ manifest.segs = {}
  /\ checkpointEnabled /\ writer.step # "idle" => \A s \in Segment : unlinking[s] = "none"

\* A number the thread has put on its table, or that the manifest on disk has, has its file and is
\* not given out again.
TableKept ==
  /\ \A s \in manifest.segs : s \in files /\ unlinking[s] = "none"
  /\ writer.step = "segs" =>
       \A s \in writer.segs : /\ s \in files /\ s < nextSegment
                              /\ \E p \in writer.rows : p[2] = s
  /\ writer.step = "reclaim" => \A s \in manifest.segs : \E p \in writer.rows : p[2] = s

\* Numbering goes on after the manifest's table.
Numbered == \A s \in manifest.segs : s < nextSegment

\* In the life that writes it, what a table covers is readable from the snapshot of the rows on.
RowsKept ==
  /\ ManifestReadable
  /\ writer.step = "rows" =>
       \A p \in writer.rows : /\ p[2] < nextSegment
                              /\ p[2] \in segments => p[1] \in content[p[2]]
                              /\ \A r \in Record : pc[r] = "install" => at[r] # p[2]
  /\ writer.step = "segs" =>
       \A p \in writer.rows : p[2] \in writer.segs => p[1] \in content[p[2]]

RecoveryInv ==
  /\ RecoveryTypeOK
  /\ Placed
  /\ LifeOK
  /\ WriterAlone
  /\ TableKept
  /\ up => Numbered
  /\ crashes = 0 => up /\ IndInv /\ RowsKept
-----------------------------------------------------------------------------
USE CrashAssumption

\* What every step of a spill, a copy or a take leaves alone.
LEMMA QuietSteps ==
  ASSUME NEW r \in Record,
         \/ Spill(r) \/ Lay(r) \/ Roll(r) \/ DiskBound(r) \/ Submit(r) \/ WriteFails(r)
         \/ Land(r) \/ DropCopy(r) \/ Promote(r) \/ Take(r)
  PROVE  UNCHANGED <<segments, files, nextSegment, unlinking, manifestVars>>
<1> USE DEF segmentVars, diskVars, fileVars
<1>1. CASE Spill(r) \/ Roll(r) \/ DiskBound(r)
  BY <1>1, Zenon DEF Spill, Roll, DiskBound
<1>2. CASE Lay(r)
  BY <1>2, Zenon DEF Lay
<1>3. CASE Submit(r) \/ WriteFails(r)
  <2>1. UNCHANGED <<segments, files, nextSegment, unlinking>>
    BY <1>3, WriteFrame, Zenon
  <2>2. UNCHANGED manifestVars
    BY <1>3, Zenon DEF Submit, WriteFails
  <2> QED BY <2>1, <2>2
<1>4. CASE Land(r)
  BY <1>4, Zenon DEF Land
<1>5. CASE DropCopy(r) \/ Promote(r) \/ Take(r)
  BY <1>5, Zenon DEF DropCopy, Promote, Take
<1> QED BY <1>1, <1>2, <1>3, <1>4, <1>5

\* Only a roll and a creation enter the region of the roll lock.
LEMMA QuietMoves ==
  ASSUME RecordsOK, NEW r \in Record,
         \/ Spill(r) \/ Lay(r) \/ DiskBound(r) \/ Submit(r) \/ WriteFails(r)
         \/ Land(r) \/ DropCopy(r) \/ Promote(r) \/ Take(r) \/ Release(r)
  PROVE  \A x \in Record : pc'[x] \in {"open", "install"} => pc'[x] = pc[x] /\ at'[x] = at[x]
<1> USE DEF RecordsOK, Goto, BackToMemory
<1>1. CASE Spill(r) \/ DiskBound(r)
  BY <1>1 DEF Spill, DiskBound
<1>2. CASE Lay(r)
  BY <1>2 DEF Lay
<1>3. CASE Submit(r) \/ WriteFails(r)
  BY <1>3 DEF Submit, WriteFails
<1>4. CASE Land(r) \/ Take(r) \/ Release(r)
  BY <1>4 DEF Land, Take, Release
<1>5. CASE DropCopy(r) \/ Promote(r)
  BY <1>5 DEF DropCopy, Promote
<1> QED BY <1>1, <1>2, <1>3, <1>4, <1>5

\* What a release or a close puts on the list of unlink_segments is in the map, and only when the
\* run keeps no manifest.
LEMMA ListsMapped ==
  ASSUME SegmentsOK, (\E r \in Record : Release(r)) \/ (\E q \in Queue : Close(q))
  PROVE  /\ UNCHANGED <<segments, files, nextSegment, manifestVars>>
         /\ \A s \in Segment : unlinking'[s] # unlinking[s] =>
              s \in segments /\ unlinking'[s] = "listed" /\ ~checkpointEnabled
<1> USE DEF segmentVars, diskVars, fileVars
<1> DEFINE Mapped == \A s \in Segment : unlinking'[s] # unlinking[s] =>
                       s \in segments /\ unlinking'[s] = "listed" /\ ~checkpointEnabled
<1>1. UNCHANGED <<segments, files, nextSegment, manifestVars>>
  BY Zenon DEF Release, Close
<1>2. ASSUME NEW r \in Record, Release(r) PROVE Mapped
  BY <1>2 DEF Release, ListForUnlink, SegmentsOK
<1>3. ASSUME NEW q \in Queue, Close(q) PROVE Mapped
  BY <1>3 DEF Close, ListForUnlink, SegmentsOK
<1> QED BY <1>1, <1>2, <1>3

\* A batch is given its number with its span, or with the file it opens, and keeps it until its
\* spill ends or its record is released.
LEMMA PlacedStep ==
  ASSUME RecordsOK, SegmentsOK, DiskOK, Placed, [Next]_vars
  PROVE  Placed'
<1> USE DEF RecordsOK, Placed
<1> USE DEF recordVars
<1>1. CASE UNCHANGED <<pc, at>>
  BY <1>1
<1>2. ASSUME NEW r \in Record, Spill(r) \/ Roll(r) PROVE Placed'
  BY <1>2 DEF Spill, Roll, Goto
<1>3. ASSUME NEW r \in Record, Lay(r) PROVE Placed'
  <2>1. Fits(r) => active[StageOf[r]] \in Segment
    BY DEF Fits, SegmentsOK
  <2> QED BY <1>3, <2>1 DEF Lay, Goto, BackToMemory
<1>4. ASSUME NEW r \in Record, DiskBound(r) PROVE Placed'
  BY <1>4 DEF DiskBound, Goto, BackToMemory
<1>5. ASSUME NEW r \in Record, CreateFile(r) PROVE Placed'
  <2>1. nextSegment <= MaxSegment => nextSegment \in Segment
    BY DEF DiskOK, Segment
  <2> QED BY <1>5, <2>1 DEF CreateFile, Goto, BackToMemory
<1>6. ASSUME NEW r \in Record, InstallSegment(r) PROVE Placed'
  BY <1>6 DEF InstallSegment, Goto, BackToMemory
<1>7. ASSUME NEW r \in Record, Submit(r) \/ WriteFails(r) PROVE Placed'
  BY <1>7 DEF Submit, WriteFails, Goto, BackToMemory
<1>8. ASSUME NEW r \in Record, Land(r) \/ Take(r) PROVE Placed'
  BY <1>8 DEF Land, Take, Goto
<1>9. ASSUME NEW r \in Record, Release(r) PROVE Placed'
  BY <1>9 DEF Release, Goto
<1>10. ASSUME NEW r \in Record, DropCopy(r) \/ Promote(r) PROVE Placed'
  BY <1>1, <1>10 DEF DropCopy, Promote
<1>11. ASSUME NEW q \in Queue, Close(q) PROVE Placed'
  BY <1>1, <1>11 DEF Close
<1>12. ASSUME NEW s \in Segment, Unlink(s) PROVE Placed'
  BY <1>1, <1>12 DEF Unlink, UnlinkEntry, UnlinkFile, Discharge
<1>13. CASE SetBudgets \/ Checkpoint
  BY <1>1, <1>13 DEF SetBudgets, Checkpoint, SnapshotRows, SnapshotSegments, RenameManifest,
                     ReclaimSegments
<1> QED
  BY <1>1, <1>2, <1>3, <1>4, <1>5, <1>6, <1>7, <1>8, <1>9, <1>10, <1>11, <1>12, <1>13, Zenon
  DEF Next, Progress, vars

\* A number is new to the map and to the unlinks in progress when it is given out, in every life.
LEMMA LifeStep ==
  ASSUME RecordsOK, SegmentsOK, DiskOK, Placed, LifeOK, [Next]_vars
  PROVE  LifeOK'
<1> USE DEF LifeOK
<1> USE DEF recordVars, segmentVars, diskVars, fileVars
<1>0. /\ \A x \in Record : pc[x] = "install" => at[x] \in Segment
      /\ segments \subseteq Segment
  BY DEF Placed, SegmentsOK
<1>1. ASSUME UNCHANGED <<segments, files, nextSegment>>,
             \A x \in Record : pc'[x] \in {"open", "install"} => pc'[x] = pc[x] /\ at'[x] = at[x],
             \A s \in Segment : unlinking'[s] # unlinking[s] =>
               s \in segments /\ unlinking'[s] = "listed"
      PROVE  LifeOK'
  <2>1. \A s \in Segment : /\ unlinking'[s] # "none" => s < nextSegment
                           /\ unlinking'[s] = "cut" => s \notin segments
    BY <1>1
  <2>2. \A x \in Record : pc'[x] = "install" => /\ at'[x] \in files \ segments
                                                /\ at'[x] < nextSegment
                                                /\ unlinking'[at'[x]] = "none"
    BY <1>0, <1>1
  <2>3. \A x1, x2 \in Record :
          pc'[x1] \in {"open", "install"} /\ pc'[x2] \in {"open", "install"} => x1 = x2
    BY <1>1
  <2> QED BY <1>1, <2>1, <2>2, <2>3
<1>2. CASE UNCHANGED <<pc, at, segments, files, nextSegment, unlinking>>
  BY <1>2
<1>3. ASSUME NEW r \in Record,
             \/ Spill(r) \/ Lay(r) \/ DiskBound(r) \/ Submit(r) \/ WriteFails(r)
             \/ Land(r) \/ DropCopy(r) \/ Promote(r) \/ Take(r)
      PROVE  LifeOK'
  <2>1. UNCHANGED <<segments, files, nextSegment, unlinking>>
    BY <1>3, QuietSteps, Zenon
  <2>2. \A x \in Record : pc'[x] \in {"open", "install"} => pc'[x] = pc[x] /\ at'[x] = at[x]
    BY <1>3, QuietMoves, Zenon
  <2> QED BY <1>1, <2>1, <2>2
<1>4. ASSUME NEW r \in Record, Release(r) PROVE LifeOK'
  <2>1. \A x \in Record : pc'[x] \in {"open", "install"} => pc'[x] = pc[x] /\ at'[x] = at[x]
    BY <1>4, QuietMoves, Zenon
  <2> QED BY <1>1, <1>4, <2>1, ListsMapped
<1>5. ASSUME NEW q \in Queue, Close(q) PROVE LifeOK'
  <2>1. UNCHANGED <<pc, at>>
    BY <1>5, Zenon DEF Close
  <2> QED BY <1>1, <1>5, <2>1, ListsMapped
<1>6. ASSUME NEW r \in Record, Roll(r) PROVE LifeOK'
  <2>1. UNCHANGED <<at, segments, files, nextSegment, unlinking>>
    BY <1>6 DEF Roll
  <2>2. \A x \in Record : pc[x] \notin {"open", "install"}
    BY <1>6 DEF Roll, RollHeld
  <2>3. \A x \in Record : pc'[x] # "install" /\ (x # r => pc'[x] = pc[x])
    BY <1>6, <2>2 DEF Roll, Goto, RecordsOK
  <2> QED BY <2>1, <2>2, <2>3
<1>7. ASSUME NEW r \in Record, CreateFile(r) PROVE LifeOK'
  <2>1. UNCHANGED <<segments, unlinking>> /\ files \subseteq files'
    BY <1>7 DEF CreateFile
  <2>2. \A s \in Segment : s < nextSegment => s < nextSegment'
    BY <1>7 DEF CreateFile, DiskOK, Segment
  <2>3. \A x \in Record : x # r => pc[x] \notin {"open", "install"} /\ pc'[x] = pc[x]
    BY <1>7 DEF CreateFile, Goto, BackToMemory, RecordsOK
  <2>4. pc'[r] = "install" => /\ at'[r] \in files' \ segments
                              /\ at'[r] < nextSegment'
                              /\ unlinking[at'[r]] = "none"
    <3>1. nextSegment <= MaxSegment => /\ nextSegment \in Segment /\ nextSegment \notin segments
                                       /\ unlinking[nextSegment] = "none"
      BY DEF DiskOK, Segment
    <3>2. CASE BackToMemory(r)
      BY <3>2 DEF BackToMemory, Goto, RecordsOK
    <3>3. CASE /\ nextSegment <= MaxSegment /\ nextSegment' = nextSegment + 1
               /\ files' = files \cup {nextSegment} /\ at' = [at EXCEPT ![r] = nextSegment]
      BY <3>1, <3>3 DEF RecordsOK, DiskOK
    <3> QED BY <1>7, <3>2, <3>3 DEF CreateFile
  <2> QED BY <1>0, <2>1, <2>2, <2>3, <2>4
<1>8. ASSUME NEW r \in Record, InstallSegment(r) PROVE LifeOK'
  <2>1. UNCHANGED <<files, nextSegment, unlinking>>
    BY <1>8, Zenon DEF InstallSegment
  <2>2. \A x \in Record : pc'[x] \notin {"open", "install"}
    BY <1>8 DEF InstallSegment, Goto, BackToMemory, RecordsOK
  <2>3. segments' = segments \/ segments' = segments \cup {at[r]}
    BY <1>8 DEF InstallSegment
  <2>4. at[r] \in files /\ at[r] < nextSegment /\ unlinking[at[r]] = "none"
    BY <1>8 DEF InstallSegment
  <2> QED BY <2>1, <2>2, <2>3, <2>4
<1>9. ASSUME NEW s \in Segment, UnlinkEntry(s) PROVE LifeOK'
  <2>1. UNCHANGED <<pc, at, files, nextSegment>>
    BY <1>9 DEF UnlinkEntry
  <2>2. /\ segments' \subseteq segments
        /\ \A t \in Segment : t # s => unlinking'[t] = unlinking[t]
        /\ unlinking[s] = "listed" /\ (unlinking'[s] = "cut" => s \notin segments')
    BY <1>9 DEF UnlinkEntry, SegmentsOK
  <2> QED BY <1>0, <2>1, <2>2
<1>10. ASSUME NEW s \in Segment, UnlinkFile(s) PROVE LifeOK'
  <2>1. UNCHANGED <<pc, at, segments, nextSegment>>
    BY <1>10 DEF UnlinkFile
  <2>2. /\ files' = files \ {s} /\ s \notin segments
        /\ \A t \in Segment : t # s => unlinking'[t] = unlinking[t]
        /\ unlinking[s] = "cut" /\ unlinking'[s] = "removed"
    BY <1>10 DEF UnlinkFile, SegmentsOK
  <2> QED BY <1>0, <2>1, <2>2
<1>11. ASSUME NEW s \in Segment, Discharge(s) PROVE LifeOK'
  <2>1. UNCHANGED <<pc, at, segments, files, nextSegment>>
    BY <1>11 DEF Discharge
  <2>2. /\ \A t \in Segment : t # s => unlinking'[t] = unlinking[t]
        /\ unlinking'[s] = "none"
    BY <1>11 DEF Discharge, SegmentsOK
  <2> QED BY <1>0, <2>1, <2>2
<1>12. CASE SetBudgets \/ SnapshotRows \/ SnapshotSegments \/ RenameManifest
  BY <1>2, <1>12, Zenon DEF SetBudgets, SnapshotRows, SnapshotSegments, RenameManifest
<1>13. CASE ReclaimSegments
  <2>1. UNCHANGED <<pc, at, segments, files, nextSegment>>
    BY <1>13, Zenon DEF ReclaimSegments
  <2>2. \A s \in Segment : unlinking'[s] # unlinking[s] =>
          s \in segments /\ unlinking'[s] = "listed"
    BY <1>13 DEF ReclaimSegments, ListForUnlink
  <2> QED BY <1>1, <2>1, <2>2
<1> QED
  BY <1>2, <1>3, <1>4, <1>5, <1>6, <1>7, <1>8, <1>9, <1>10, <1>11, <1>12, <1>13, Zenon
  DEF Next, Progress, Unlink, Checkpoint, vars

\* What a checkpoint step leaves alone.
LEMMA CheckpointFrame ==
  ASSUME Checkpoint
  PROVE  /\ UNCHANGED <<pc, at, segments, files, content, nextSegment, checkpointEnabled>>
         /\ ~ReclaimSegments => UNCHANGED unlinking
         /\ ~RenameManifest => UNCHANGED manifest
BY Zenon DEF Checkpoint, SnapshotRows, SnapshotSegments, RenameManifest, ReclaimSegments,
             recordVars, segmentVars, diskVars, fileVars

\* A step outside the checkpoint leaves the manifest and its writer alone, and puts a segment on the
\* list of unlink_segments only when the run keeps no manifest.
LEMMA OutsideFrame ==
  ASSUME SegmentsOK, [Next]_vars, ~Checkpoint
  PROVE  /\ UNCHANGED manifestVars
         /\ \A s \in Segment : unlinking[s] = "none" /\ unlinking'[s] # "none" =>
              s \in segments /\ ~checkpointEnabled
<1> DEFINE Lists == \A s \in Segment : unlinking[s] = "none" /\ unlinking'[s] # "none" =>
                      s \in segments /\ ~checkpointEnabled
<1> USE DEF segmentVars, diskVars, fileVars
<1>1. CASE UNCHANGED vars
  BY <1>1 DEF vars
<1>2. ASSUME NEW r \in Record,
             \/ Spill(r) \/ Lay(r) \/ Roll(r) \/ DiskBound(r) \/ Submit(r) \/ WriteFails(r)
             \/ Land(r) \/ DropCopy(r) \/ Promote(r) \/ Take(r)
      PROVE  UNCHANGED manifestVars /\ Lists
  <2>1. UNCHANGED <<unlinking, manifestVars>>
    BY <1>2, QuietSteps, Zenon
  <2> QED BY <2>1
<1>3. ASSUME NEW r \in Record, CreateFile(r) \/ InstallSegment(r)
      PROVE  UNCHANGED manifestVars /\ Lists
  <2>1. UNCHANGED <<unlinking, manifestVars>>
    BY <1>3, Zenon DEF CreateFile, InstallSegment
  <2> QED BY <2>1
<1>4. ASSUME (\E r \in Record : Release(r)) \/ (\E q \in Queue : Close(q))
      PROVE  UNCHANGED manifestVars /\ Lists
  BY <1>4, ListsMapped
<1>5. ASSUME NEW s \in Segment, UnlinkEntry(s) PROVE UNCHANGED manifestVars /\ Lists
  BY <1>5 DEF UnlinkEntry, SegmentsOK
<1>6. ASSUME NEW s \in Segment, UnlinkFile(s) PROVE UNCHANGED manifestVars /\ Lists
  BY <1>6 DEF UnlinkFile, SegmentsOK
<1>7. ASSUME NEW s \in Segment, Discharge(s) PROVE UNCHANGED manifestVars /\ Lists
  BY <1>7 DEF Discharge, SegmentsOK
<1>8. CASE SetBudgets
  BY <1>8 DEF SetBudgets
<1> QED
  BY <1>1, <1>2, <1>3, <1>4, <1>5, <1>6, <1>7, <1>8, Zenon DEF Next, Progress, Unlink

\* A file goes only when unlink_segments has cut its segment, and numbers never go back.
LEMMA FilesStay ==
  ASSUME SegmentsOK, DiskOK, [Next]_vars
  PROVE  /\ \A s \in files : unlinking[s] # "cut" => s \in files'
         /\ nextSegment' \in Nat /\ nextSegment <= nextSegment'
<1> DEFINE Stay == \A s \in files : unlinking[s] # "cut" => s \in files'
             Grows == nextSegment' \in Nat /\ nextSegment <= nextSegment'
<1> USE DEF segmentVars, diskVars, fileVars, DiskOK
<1>1. CASE UNCHANGED <<files, nextSegment>>
  BY <1>1
<1>2. ASSUME NEW r \in Record,
             \/ Spill(r) \/ Lay(r) \/ Roll(r) \/ DiskBound(r) \/ Submit(r) \/ WriteFails(r)
             \/ Land(r) \/ DropCopy(r) \/ Promote(r) \/ Take(r)
      PROVE  UNCHANGED <<files, nextSegment>>
  BY <1>2, QuietSteps, Zenon
<1>3. ASSUME NEW r \in Record, CreateFile(r) PROVE Stay /\ Grows
  BY <1>3 DEF CreateFile
<1>4. ASSUME NEW r \in Record, InstallSegment(r) PROVE UNCHANGED <<files, nextSegment>>
  BY <1>4, Zenon DEF InstallSegment
<1>5. ASSUME (\E r \in Record : Release(r)) \/ (\E q \in Queue : Close(q))
      PROVE  UNCHANGED <<files, nextSegment>>
  BY <1>5, ListsMapped, Zenon
<1>6. ASSUME NEW s \in Segment, UnlinkEntry(s) \/ Discharge(s)
      PROVE  UNCHANGED <<files, nextSegment>>
  BY <1>6, Zenon DEF UnlinkEntry, Discharge
<1>7. ASSUME NEW s \in Segment, UnlinkFile(s) PROVE Stay /\ Grows
  BY <1>7 DEF UnlinkFile
<1>8. CASE SetBudgets
  BY <1>1, <1>8 DEF SetBudgets
<1>9. CASE Checkpoint
  BY <1>1, <1>9, CheckpointFrame
<1>10. CASE UNCHANGED vars
  BY <1>1, <1>10, Zenon DEF vars
<1> QED
  BY <1>1, <1>2, <1>3, <1>4, <1>5, <1>6, <1>7, <1>8, <1>9, <1>10, Zenon DEF Next, Progress, Unlink

\* The checkpoint thread writes and unlinks in turn, and it alone does either.
LEMMA AloneStep ==
  ASSUME SegmentsOK, ManifestOK, WriterAlone, [Next]_vars
  PROVE  WriterAlone'
<1> USE DEF WriterAlone
<1>1. CASE ~Checkpoint
  <2>1. UNCHANGED manifestVars
        /\ \A s \in Segment : unlinking[s] = "none" /\ unlinking'[s] # "none" => ~checkpointEnabled
    BY <1>1, OutsideFrame
  <2> QED BY <2>1 DEF manifestVars
<1>2. CASE Checkpoint /\ checkpointEnabled
  <2>1. checkpointEnabled'
    BY <1>2, CheckpointFrame
  <2>2. CASE SnapshotRows
    BY <2>1, <2>2 DEF SnapshotRows, Unlinking
  <2>3. CASE SnapshotSegments
    BY <2>1, <2>3 DEF SnapshotSegments
  <2>4. CASE RenameManifest
    BY <2>1, <2>4 DEF RenameManifest
  <2>5. CASE ReclaimSegments
    BY <2>1, <2>5 DEF ReclaimSegments, IdleWriter
  <2> QED BY <1>2, <2>2, <2>3, <2>4, <2>5 DEF Checkpoint
<1>3. CASE Checkpoint /\ ~checkpointEnabled
  BY <1>3 DEF Checkpoint, SnapshotRows, SnapshotSegments, RenameManifest, ReclaimSegments
<1> QED BY <1>1, <1>2, <1>3 DEF ManifestOK

\* A segment of the manifest's table, or of the table being written, keeps its file.
LEMMA TableStep ==
  ASSUME RecordsOK, SegmentsOK, DiskOK, ManifestOK, LifeOK, WriterAlone, TableKept, [Next]_vars
  PROVE  TableKept'
<1>0. manifest.segs \subseteq Segment /\ writer.segs \subseteq Segment
  BY DEF ManifestOK
<1>1. CASE ~Checkpoint
  <2>1. UNCHANGED <<manifest, writer>>
        /\ \A s \in Segment : unlinking[s] = "none" /\ unlinking'[s] # "none" => ~checkpointEnabled
    BY <1>1, OutsideFrame DEF manifestVars
  <2>2. \A s \in manifest.segs : s \in files' /\ unlinking'[s] = "none"
    BY <1>0, <2>1, FilesStay DEF TableKept, WriterAlone
  <2>3. writer.step = "segs" => \A s \in writer.segs : unlinking[s] = "none"
    BY <1>0 DEF WriterAlone, ManifestOK
  <2>4. writer.step = "segs" => \A s \in writer.segs : s \in files' /\ s < nextSegment'
    <3>1. nextSegment \in Nat /\ nextSegment' \in Nat
      BY FilesStay DEF DiskOK
    <3> QED BY <1>0, <2>3, <3>1, FilesStay DEF TableKept, Segment
  <2> QED BY <2>1, <2>2, <2>4 DEF TableKept
<1>2. CASE Checkpoint
  <2>0. UNCHANGED <<segments, files, nextSegment>>
    BY <1>2, CheckpointFrame
  <2>1. CASE SnapshotRows
    BY <2>0, <2>1 DEF SnapshotRows, TableKept
  <2>2. CASE SnapshotSegments
    <3>1. UNCHANGED <<manifest, unlinking>>
      BY <2>2 DEF SnapshotSegments
    <3>2. /\ writer'.step = "segs" /\ writer'.rows = writer.rows
          /\ writer'.segs = {s \in segments : \E p \in writer.rows : p[2] = s}
      BY <2>2 DEF SnapshotSegments, ManifestOK
    <3> QED BY <2>0, <3>1, <3>2 DEF TableKept, LifeOK
  <2>3. CASE RenameManifest
    <3>1. \A s \in Segment : unlinking'[s] = "none"
      BY <2>3 DEF RenameManifest, WriterAlone, ManifestOK
    <3>2. CASE writer' = IdleWriter /\ UNCHANGED manifest
      BY <2>0, <3>1, <3>2, <1>0 DEF TableKept, IdleWriter
    <3>3. CASE /\ manifest' = [file |-> "present", rows |-> writer.rows, segs |-> writer.segs]
               /\ writer' = [writer EXCEPT !.step = "reclaim"]
      <4>1. /\ manifest'.segs = writer.segs /\ writer'.rows = writer.rows
            /\ writer'.step = "reclaim"
        BY <3>3 DEF ManifestOK
      <4> QED BY <1>0, <2>0, <2>3, <3>1, <4>1 DEF TableKept, RenameManifest
    <3> QED BY <2>3, <3>2, <3>3 DEF RenameManifest
  <2>4. CASE ReclaimSegments
    <3>1. writer'.step = "idle" /\ UNCHANGED manifest
      BY <2>4 DEF ReclaimSegments, IdleWriter
    <3>2. \A s \in manifest.segs : unlinking'[s] = unlinking[s]
      BY <1>0, <2>4 DEF ReclaimSegments, ListForUnlink, TableKept
    <3> QED BY <2>0, <3>1, <3>2 DEF TableKept
  <2> QED BY <1>2, <2>1, <2>2, <2>3, <2>4 DEF Checkpoint
<1> QED BY <1>1, <1>2

\* The table the thread writes has numbers that were given out.
LEMMA NumberedStep ==
  ASSUME DiskOK, SegmentsOK, ManifestOK, TableKept, Numbered, [Next]_vars
  PROVE  Numbered'
<1>1. CASE ~Checkpoint
  <2>1. UNCHANGED manifest
    BY <1>1, OutsideFrame DEF manifestVars
  <2> QED BY <2>1, FilesStay DEF Numbered, ManifestOK, Segment, DiskOK
<1>2. CASE Checkpoint
  <2>1. nextSegment' = nextSegment
    BY <1>2, CheckpointFrame
  <2>2. CASE RenameManifest
    BY <2>1, <2>2 DEF RenameManifest, TableKept, Numbered
  <2>3. CASE ~RenameManifest
    BY <1>2, <2>1, <2>3, CheckpointFrame DEF Numbered
  <2> QED BY <2>2, <2>3
<1> QED BY <1>1, <1>2

\* What is in a file stays there until its segment is cut: a creation truncates a new number only.
LEMMA ContentStays ==
  ASSUME SegmentsOK, DiskOK, [Next]_vars
  PROVE  \A s \in Segment : s < nextSegment /\ unlinking[s] # "cut" => content[s] \subseteq content'[s]
<1> DEFINE Stays == \A s \in Segment :
                      s < nextSegment /\ unlinking[s] # "cut" => content[s] \subseteq content'[s]
<1> USE DEF segmentVars, diskVars, fileVars, DiskOK
<1>1. CASE UNCHANGED content
  BY <1>1
<1>2. ASSUME NEW r \in Record, Spill(r) \/ Lay(r) \/ Roll(r) \/ DiskBound(r) PROVE Stays
  BY <1>1, <1>2, LayFrame
<1>3. ASSUME NEW r \in Record, Submit(r) \/ WriteFails(r) PROVE Stays
  BY <1>1, <1>3, WriteFrame
<1>4. ASSUME NEW r \in Record, DropCopy(r) \/ Promote(r) \/ Take(r) PROVE Stays
  BY <1>1, <1>4, CopyFrame
<1>5. ASSUME NEW r \in Record, Land(r) PROVE Stays
  BY <1>5 DEF Land
<1>6. ASSUME NEW r \in Record, CreateFile(r) PROVE Stays
  <2>1. \A s \in Segment : s < nextSegment => s # nextSegment
    BY DEF Segment
  <2> QED BY <1>6, <2>1 DEF CreateFile
<1>7. ASSUME NEW r \in Record, InstallSegment(r) \/ Release(r) PROVE Stays
  BY <1>1, <1>7, Zenon DEF InstallSegment, Release
<1>8. ASSUME NEW q \in Queue, Close(q) PROVE Stays
  BY <1>1, <1>8 DEF Close
<1>9. ASSUME NEW s \in Segment, UnlinkEntry(s) \/ Discharge(s) PROVE Stays
  BY <1>1, <1>9, Zenon DEF UnlinkEntry, Discharge
<1>10. ASSUME NEW s \in Segment, UnlinkFile(s) PROVE Stays
  BY <1>10 DEF UnlinkFile
<1>11. CASE SetBudgets \/ UNCHANGED vars
  BY <1>1, <1>11, Zenon DEF SetBudgets, vars
<1>12. CASE Checkpoint
  BY <1>1, <1>12, CheckpointFrame
<1> QED
  BY <1>2, <1>3, <1>4, <1>5, <1>6, <1>7, <1>8, <1>9, <1>10, <1>11, <1>12, Zenon
  DEF Next, Progress, Unlink

\* A segment enters the map when the thread that created its file installs it, and a thread that
\* installs has the number it took from the counter.
LEMMA InstallsNew ==
  ASSUME RecordsOK, SegmentsOK, [Next]_vars
  PROVE  /\ \A s \in segments' \ segments : \E r \in Record : pc[r] = "install" /\ at[r] = s
         /\ \A r \in Record : pc'[r] = "install" =>
              \/ pc[r] = "install" /\ at'[r] = at[r]
              \/ at'[r] = nextSegment
<1> DEFINE Enters == \A s \in segments' \ segments : \E r \in Record : pc[r] = "install" /\ at[r] = s
           Takes == \A r \in Record : pc'[r] = "install" =>
                      \/ pc[r] = "install" /\ at'[r] = at[r]
                      \/ at'[r] = nextSegment
<1> USE DEF recordVars, segmentVars, diskVars, fileVars
<1>1. CASE UNCHANGED <<pc, at>> /\ segments' \subseteq segments
  BY <1>1
<1>2. ASSUME NEW r \in Record,
             \/ Spill(r) \/ Lay(r) \/ DiskBound(r) \/ Submit(r) \/ WriteFails(r)
             \/ Land(r) \/ DropCopy(r) \/ Promote(r) \/ Take(r)
      PROVE  Enters /\ Takes
  <2>1. segments' = segments
    BY <1>2, QuietSteps, Zenon
  <2>2. Takes
    BY <1>2, QuietMoves, Zenon
  <2> QED BY <2>1, <2>2
<1>3. ASSUME NEW r \in Record, Release(r) PROVE Enters /\ Takes
  <2>1. segments' = segments
    BY <1>3, ListsMapped, Zenon
  <2>2. Takes
    BY <1>3, QuietMoves, Zenon
  <2> QED BY <2>1, <2>2
<1>4. ASSUME NEW r \in Record, Roll(r) PROVE Enters /\ Takes
  BY <1>4 DEF Roll, Goto, RecordsOK
<1>5. ASSUME NEW r \in Record, CreateFile(r) PROVE Enters /\ Takes
  <2>1. segments' = segments
    BY <1>5 DEF CreateFile
  <2>2. Takes
    BY <1>5 DEF CreateFile, Goto, BackToMemory, RecordsOK
  <2> QED BY <2>1, <2>2
<1>6. ASSUME NEW r \in Record, InstallSegment(r) PROVE Enters /\ Takes
  <2>1. Enters
    BY <1>6 DEF InstallSegment
  <2>2. Takes
    BY <1>6 DEF InstallSegment, Goto, BackToMemory, RecordsOK
  <2> QED BY <2>1, <2>2
<1>7. ASSUME NEW q \in Queue, Close(q) PROVE Enters /\ Takes
  BY <1>1, <1>7, Zenon DEF Close
<1>8. ASSUME NEW s \in Segment, Unlink(s) PROVE Enters /\ Takes
  BY <1>1, <1>8 DEF Unlink, UnlinkEntry, UnlinkFile, Discharge
<1>9. CASE SetBudgets \/ UNCHANGED vars
  BY <1>1, <1>9 DEF SetBudgets, vars
<1>10. CASE Checkpoint
  BY <1>1, <1>10, CheckpointFrame
<1> QED
  BY <1>2, <1>3, <1>4, <1>5, <1>6, <1>7, <1>8, <1>9, <1>10, Zenon DEF Next, Progress

\* In the life that writes it, a table's rows read back, from the snapshot to the next manifest.
LEMMA RowsStep ==
  ASSUME IndInv, WriterAlone, TableKept, Numbered, RowsKept, [Next]_vars
  PROVE  RowsKept'
<1>0. RecordsOK /\ SegmentsOK /\ DiskOK /\ ManifestOK /\ Places /\ Rolls /\ CountedRecordReadable
  BY DEF IndInv, TypeOK
<1>1. /\ manifest.rows \subseteq Row /\ writer.rows \subseteq Row
      /\ manifest.segs \subseteq Segment /\ writer.segs \subseteq Segment
  BY <1>0 DEF ManifestOK
<1>2. \A p \in Row : p[1] \in Record /\ p[2] \in Segment
  BY DEF Row
<1>3. writer.step # "idle" => \A s \in Segment : unlinking[s] = "none"
  BY <1>0 DEF WriterAlone, ManifestOK
<1>4. CASE ~Checkpoint
  <2>1. UNCHANGED <<manifest, writer>>
    BY <1>0, <1>4, OutsideFrame DEF manifestVars
  <2>2. ManifestReadable'
    <3> SUFFICES ASSUME NEW p \in manifest.rows, p[2] \in manifest.segs
                 PROVE  p[2] \in files' /\ p[1] \in content'[p[2]]
      BY <2>1 DEF ManifestReadable
    <3>1. p[2] \in files /\ unlinking[p[2]] = "none" /\ p[2] < nextSegment
      BY DEF TableKept, Numbered
    <3>2. p[1] \in content[p[2]]
      BY DEF RowsKept, ManifestReadable
    <3> QED BY <1>0, <1>1, <3>1, <3>2, FilesStay, ContentStays
  <2>3. ASSUME writer.step = "rows", NEW p \in writer.rows
        PROVE  /\ p[2] < nextSegment'
               /\ p[2] \in segments' => p[1] \in content'[p[2]]
               /\ \A r \in Record : pc'[r] = "install" => at'[r] # p[2]
    <3>1. p[2] \in Segment /\ unlinking[p[2]] = "none" /\ p[2] < nextSegment
      BY <1>1, <1>2, <1>3, <2>3 DEF RowsKept
    <3>2. p[2] < nextSegment'
      BY <1>0, <3>1, FilesStay DEF Segment, DiskOK
    <3>3. p[2] \in segments' => p[2] \in segments
      BY <1>0, <2>3, InstallsNew DEF RowsKept
    <3>4. p[2] \in segments' => p[1] \in content'[p[2]]
      BY <1>0, <2>3, <3>1, <3>3, ContentStays DEF RowsKept
    <3>5. ASSUME NEW r \in Record, pc'[r] = "install" PROVE at'[r] # p[2]
      <4>1. nextSegment # p[2]
        BY <1>0, <3>1 DEF Segment, DiskOK
      <4> QED BY <1>0, <2>3, <3>5, <4>1, InstallsNew DEF RowsKept
    <3> QED BY <3>2, <3>4, <3>5
  <2>4. ASSUME writer.step = "segs", NEW p \in writer.rows, p[2] \in writer.segs
        PROVE  p[1] \in content'[p[2]]
    <3>1. p[2] \in Segment /\ unlinking[p[2]] = "none" /\ p[2] < nextSegment
      BY <1>1, <1>3, <2>4 DEF TableKept
    <3> QED BY <1>0, <2>4, <3>1, ContentStays DEF RowsKept
  <2> QED BY <2>1, <2>2, <2>3, <2>4 DEF RowsKept
<1>5. CASE Checkpoint
  <2>0. UNCHANGED <<pc, at, segments, files, content, nextSegment>>
    BY <1>5, CheckpointFrame
  <2>1. CASE SnapshotRows
    <3>1. /\ writer'.step = "rows" /\ UNCHANGED manifest
          /\ writer'.rows = {p \in Row : pc[p[1]] = "disk" /\ at[p[1]] = p[2]}
      BY <2>1 DEF SnapshotRows
    <3>2. ASSUME NEW p \in Row, pc[p[1]] = "disk", at[p[1]] = p[2]
          PROVE  /\ p[2] < nextSegment
                 /\ p[2] \in segments => p[1] \in content[p[2]]
                 /\ \A r \in Record : pc[r] = "install" => at[r] # p[2]
      BY <1>0, <1>2, <3>2 DEF Places, Rolls, CountedRecordReadable, Readable
    <3> QED BY <2>0, <3>1, <3>2 DEF RowsKept, ManifestReadable
  <2>2. CASE SnapshotSegments
    <3>1. /\ writer'.step = "segs" /\ writer'.rows = writer.rows /\ UNCHANGED manifest
          /\ writer'.segs = {s \in segments : \E p \in writer.rows : p[2] = s}
          /\ writer.step = "rows"
      BY <1>0, <2>2 DEF SnapshotSegments, ManifestOK
    <3> QED BY <2>0, <3>1 DEF RowsKept, ManifestReadable
  <2>3. CASE RenameManifest
    <3>1. CASE writer' = IdleWriter /\ UNCHANGED manifest
      BY <2>0, <3>1 DEF RowsKept, ManifestReadable, IdleWriter
    <3>2. CASE /\ manifest' = [file |-> "present", rows |-> writer.rows, segs |-> writer.segs]
               /\ writer' = [writer EXCEPT !.step = "reclaim"]
      <4>1. /\ manifest'.rows = writer.rows /\ manifest'.segs = writer.segs
            /\ writer'.step = "reclaim" /\ writer.step = "segs"
        BY <1>0, <2>3, <3>2 DEF ManifestOK, RenameManifest
      <4> QED BY <2>0, <4>1 DEF RowsKept, ManifestReadable, TableKept
    <3> QED BY <2>3, <3>1, <3>2 DEF RenameManifest
  <2>4. CASE ReclaimSegments
    BY <2>0, <2>4 DEF RowsKept, ManifestReadable, ReclaimSegments, IdleWriter
  <2> QED BY <1>5, <2>1, <2>2, <2>3, <2>4 DEF Checkpoint
<1> QED BY <1>4, <1>5
-----------------------------------------------------------------------------
\* restore_from's next number exists: a table that is not empty has a highest segment.
LEMMA HighestExists ==
  ASSUME NEW S \in SUBSET Segment, S # {}
  PROVE  \E s \in S : \A t \in S : t <= s
<1> DEFINE T == {n \in Nat : MaxSegment - n \in S}
<1>1. \A t \in S : t \in Nat /\ MaxSegment - t \in T
  <2> SUFFICES ASSUME NEW t \in S PROVE t \in Nat /\ MaxSegment - t \in T
    OBVIOUS
  <2>1. t \in Nat /\ MaxSegment - t \in Nat /\ MaxSegment - (MaxSegment - t) = t
    BY DEF Segment
  <2> QED BY <2>1
<1>2. T \in SUBSET Nat /\ T # {}
  BY <1>1
<1>3. IsWellFoundedOn(OpToRel(<, Nat), Nat)
  BY NatLessThanWellFounded
<1>4. PICK n \in T : \A k \in T : ~(<<k, n>> \in OpToRel(<, Nat))
  BY <1>2, <1>3, WFMin
<1>5. \A k \in T : ~(k < n)
  BY <1>2, <1>4 DEF OpToRel
<1>6. MaxSegment - n \in S /\ n \in Nat
  BY <1>4
<1> HIDE DEF T
<1>7. ASSUME NEW t \in S PROVE t <= MaxSegment - n
  <2>1. t \in Nat /\ ~(MaxSegment - t < n)
    BY <1>1, <1>5
  <2> QED BY <1>6, <2>1
<1> QED BY <1>6, <1>7

\* What a crash forgets is typed and empty.
LEMMA ForgetKeeps ==
  ASSUME ForgetMemory, RecordsOK, SegmentsOK, DiskOK, ManifestOK,
         UNCHANGED <<files, strays, content, manifest, checkpointEnabled>>,
         pc' \in [Record -> {"memory", "disk"}],
         at' \in [Record -> Segment \cup {NoSegment}],
         segments' \in SUBSET Segment,
         recordsTotal' \in [Segment -> Nat],
         nextSegment' \in Nat, diskSegments' \in Nat,
         segments' \subseteq files, \A s \in segments' : s < nextSegment',
         TableKept, WriterAlone
  PROVE  TypeOK' /\ LifeOK' /\ WriterAlone' /\ TableKept'
<1>1. /\ RecordsOK' /\ SegmentsOK' /\ DiskOK'
  <2>1. RecordsOK'
    BY DEF ForgetMemory, RecordsOK, Step
  <2>2. SegmentsOK'
    BY DEF ForgetMemory, SegmentsOK, UnlinkStep
  <2>3. DiskOK'
    BY DEF ForgetMemory, DiskOK
  <2> QED BY <2>1, <2>2, <2>3
<1>2. ManifestOK'
  BY DEF ForgetMemory, ManifestOK, IdleWriter
<1>3. LifeOK'
  BY DEF ForgetMemory, LifeOK
<1>4. writer'.step = "idle"
  BY DEF ForgetMemory, IdleWriter
<1>5. WriterAlone'
  BY <1>4 DEF WriterAlone
<1>6. TableKept'
  BY <1>4 DEF ForgetMemory, TableKept, ManifestOK
<1> QED BY <1>1, <1>2, <1>3, <1>5, <1>6 DEF TypeOK

\* A crash at any step keeps the invariant: what it forgets nobody refers to, and what stays is on
\* disk already.
LEMMA CrashKeeps == RecoveryInv /\ Crash => RecoveryInv'
<1> SUFFICES ASSUME RecoveryInv, Crash PROVE RecoveryInv'
  OBVIOUS
<1>1. RecordsOK /\ SegmentsOK /\ DiskOK /\ ManifestOK /\ TableKept /\ WriterAlone
  BY DEF RecoveryInv, RecoveryTypeOK, TypeOK
<1>2. /\ up' = FALSE /\ crashes' = crashes + 1 /\ crashes < MaxCrashes
      /\ crashes \in 0 .. MaxCrashes
  BY DEF RecoveryInv, RecoveryTypeOK, Crash
<1>3. /\ pc' \in [Record -> {"memory", "disk"}] /\ Placed'
      /\ at' \in [Record -> Segment \cup {NoSegment}]
  BY DEF Crash, Placed
<1>4. /\ segments' = {} /\ recordsTotal' \in [Segment -> Nat]
      /\ nextSegment' = 0 /\ diskSegments' = 0
      /\ UNCHANGED <<files, strays, content, manifest, checkpointEnabled>> /\ ForgetMemory
  BY DEF Crash
<1>5. TypeOK' /\ LifeOK' /\ WriterAlone' /\ TableKept'
  BY <1>1, <1>3, <1>4, ForgetKeeps
<1>6. crashes' \in 0 .. MaxCrashes /\ crashes' # 0
  BY <1>2
<1>7. RecoveryTypeOK'
  BY <1>2, <1>5, <1>6, Zenon DEF RecoveryTypeOK
<1> QED BY <1>2, <1>3, <1>5, <1>6, <1>7 DEF RecoveryInv

\* A resume keeps the invariant: it takes over the manifest's table and goes on after it.
LEMMA RestoreKeeps == RecoveryInv /\ Restore => RecoveryInv'
<1> SUFFICES ASSUME RecoveryInv, Restore PROVE RecoveryInv'
  OBVIOUS
<1>1. RecordsOK /\ SegmentsOK /\ DiskOK /\ ManifestOK /\ TableKept /\ WriterAlone
  BY DEF RecoveryInv, RecoveryTypeOK, TypeOK
<1>2. manifest.segs \in SUBSET Segment /\ manifest.rows \in SUBSET Row
  BY <1>1 DEF ManifestOK
<1>3. \A r \in Record : RowOf(r) # {} => (CHOOSE p \in RowOf(r) : TRUE)[2] \in Segment
  <2> SUFFICES ASSUME NEW r \in Record, RowOf(r) # {}
               PROVE  (CHOOSE p \in RowOf(r) : TRUE)[2] \in Segment
    OBVIOUS
  <2>1. (CHOOSE p \in RowOf(r) : TRUE) \in RowOf(r)
    BY Zenon
  <2> QED BY <1>2, <2>1 DEF RowOf, Row
<1>4. /\ pc' \in [Record -> {"memory", "disk"}] /\ Placed'
      /\ at' \in [Record -> Segment \cup {NoSegment}]
  BY <1>3 DEF Restore, Placed
<1>5. recordsTotal' \in [Segment -> Nat] /\ diskSegments' \in Nat
  <2>1. IsFiniteSet(Segment)
    BY FS_Interval DEF Segment
  <2>2. IsFiniteSet(Row)
    BY <2>1, FS_Product DEF Row
  <2>3. \A s \in Segment : Cardinality({p \in manifest.rows : p[2] = s}) \in Nat
    <3> SUFFICES ASSUME NEW s \in Segment
                 PROVE  Cardinality({p \in manifest.rows : p[2] = s}) \in Nat
      OBVIOUS
    <3>1. {p \in manifest.rows : p[2] = s} \in SUBSET Row
      BY <1>2
    <3> QED BY <2>2, <3>1, FS_Subset, FS_CardinalityType
  <2>4. Cardinality(manifest.segs) \in Nat
    BY <1>2, <2>1, FS_Subset, FS_CardinalityType
  <2> QED BY <2>3, <2>4 DEF Restore
<1>6. nextSegment' \in Nat /\ \A s \in manifest.segs : s < nextSegment'
  <2>1. CASE manifest.segs = {}
    BY <2>1 DEF Restore
  <2>2. CASE manifest.segs # {}
    <3> DEFINE top == CHOOSE s \in manifest.segs : \A t \in manifest.segs : t <= s
    <3>1. top \in manifest.segs /\ \A t \in manifest.segs : t <= top
      BY <1>2, <2>2, HighestExists, Zenon
    <3>2. nextSegment' = 1 + top
      BY <2>2 DEF Restore
    <3> HIDE DEF top
    <3> QED BY <1>2, <3>1, <3>2 DEF Segment
  <2> QED BY <2>1, <2>2
<1>7. /\ segments' = manifest.segs /\ ForgetMemory
      /\ UNCHANGED <<files, strays, content, manifest, checkpointEnabled, crashes>>
      /\ up' = TRUE /\ ~up
  BY DEF Restore
<1>8. manifest.segs \subseteq files
  BY <1>1 DEF TableKept
<1>9. TypeOK' /\ LifeOK' /\ WriterAlone' /\ TableKept'
  BY <1>1, <1>2, <1>4, <1>5, <1>6, <1>7, <1>8, ForgetKeeps
<1>10. RecoveryTypeOK'
  BY <1>7, <1>9 DEF RecoveryTypeOK, RecoveryInv
<1>11. Numbered'
  BY <1>6, <1>7 DEF Numbered
<1>12. crashes' # 0
  BY <1>7 DEF RecoveryInv
<1> QED BY <1>4, <1>9, <1>10, <1>11, <1>12 DEF RecoveryInv

\* A step of a running life keeps the invariant.
LEMMA StepKeeps ==
  RecoveryInv /\ [Next]_vars /\ UNCHANGED <<up, crashes>> => RecoveryInv'
<1> SUFFICES ASSUME RecoveryInv, [Next]_vars, UNCHANGED <<up, crashes>> PROVE RecoveryInv'
  OBVIOUS
<1>1. /\ RecordsOK /\ SegmentsOK /\ DiskOK /\ ManifestOK
      /\ Placed /\ LifeOK /\ WriterAlone /\ TableKept
  BY DEF RecoveryInv, RecoveryTypeOK, TypeOK
<1>2. TypeOK' /\ Placed' /\ LifeOK' /\ WriterAlone' /\ TableKept'
  BY <1>1, TypeStep, PlacedStep, LifeStep, AloneStep, TableStep
<1>3. RecoveryTypeOK'
  BY <1>2, Zenon DEF RecoveryInv, RecoveryTypeOK
<1>4. up => Numbered'
  BY <1>1, NumberedStep DEF RecoveryInv
<1>5. crashes = 0 => IndInv' /\ RowsKept'
  BY <1>1, NextInv, RowsStep DEF RecoveryInv
<1> QED BY <1>2, <1>3, <1>4, <1>5 DEF RecoveryInv

LEMMA RecoveryStarts == RecoveryInit => RecoveryInv
<1> SUFFICES ASSUME RecoveryInit PROVE RecoveryInv
  OBVIOUS
<1>1. IndInv /\ Init /\ up = TRUE /\ crashes = 0
  BY InitInv DEF RecoveryInit
<1>2. RecoveryTypeOK
  <2>1. crashes \in 0 .. MaxCrashes
    BY <1>1
  <2> QED BY <1>1, <2>1, Zenon DEF RecoveryTypeOK, IndInv
<1>3. writer.step = "idle" /\ manifest.segs = {} /\ manifest.rows = {}
  BY <1>1 DEF Init, IdleWriter, NoManifest
<1>4. Placed /\ LifeOK
  BY <1>1 DEF Init, Placed, LifeOK
<1>5. WriterAlone /\ TableKept /\ Numbered /\ RowsKept
  BY <1>3 DEF WriterAlone, TableKept, Numbered, RowsKept, ManifestReadable
<1> QED BY <1>1, <1>2, <1>4, <1>5 DEF RecoveryInv

\* What every life keeps holds at every step of every life.
THEOREM RecoveryInvariance == RecoverySpec => []RecoveryInv
<1>1. RecoveryInv /\ [RecoveryNext]_recoveryVars => RecoveryInv'
  <2>1. CASE UNCHANGED recoveryVars
    BY <2>1, StepKeeps, Zenon DEF recoveryVars
  <2> QED BY <2>1, StepKeeps, CrashKeeps, RestoreKeeps DEF RecoveryNext
<1> QED BY <1>1, RecoveryStarts, PTL DEF RecoverySpec

\* Every variable of the disk tier keeps its type across crashes and resumes.
THEOREM RecoveryTypeCorrect == RecoverySpec => []RecoveryTypeOK
BY RecoveryInvariance, PTL DEF RecoveryInv

\* A crash at any instant leaves a manifest that restore_from does not refuse for a missing segment,
\* in the first life and in every resumed one.
THEOREM ResumeAccepted == RecoverySpec => []ResumeNotRefused
<1>1. RecoveryInv => ResumeNotRefused
  BY DEF RecoveryInv, TableKept, ResumeNotRefused
<1> QED BY <1>1, RecoveryInvariance, PTL

\* PL-I12 in the run that wrote the manifest: every row its segment table covers reads back.
THEOREM FirstLifeReads == RecoverySpec => []FirstLifeReadable
<1>1. RecoveryInv => FirstLifeReadable
  BY DEF RecoveryInv, RowsKept, FirstLifeReadable
<1> QED BY <1>1, RecoveryInvariance, PTL
=============================================================================
