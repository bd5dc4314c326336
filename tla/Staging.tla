------------------------------ MODULE Staging ------------------------------
(***************************************************************************)
(* The disk tier of the placement engine: crates/moruna-placement/src/     *)
(* staging/segment.rs, the write path of moves.rs and the manifest writer  *)
(* of manifest.rs, for one life of the process.                            *)
(*                                                                         *)
(* A batch the engine spills becomes a record of a segment file.  A        *)
(* segment belongs to one queue and is created at its full size; every     *)
(* record laid into it takes a span of it for good.  A segment is unlinked *)
(* when it is no longer the active one of its queue and as many records    *)
(* were released as were counted.  Spilling threads, completions, releases,*)
(* closes, budget changes and the checkpoint thread interleave at the      *)
(* segments lock, the roll lock and the reactor calls made outside both.   *)
(*                                                                         *)
(* Bytes of disk are counted in whole segments: disk_bytes is always a     *)
(* multiple of cfg.segment_bytes, so held + segment_bytes > budget exactly *)
(* when one more segment exceeds the segments the budget has room for.     *)
(***************************************************************************)
EXTENDS Integers, FiniteSets

CONSTANTS
  Queue,              \* the stages whose queues spill
  Record,             \* the batches that may be spilled
  StageOf,            \* the queue each batch is written for
  Span,               \* the page-aligned length of each batch's record
  SegmentBytes,       \* cfg.segment_bytes
  MaxBudget,          \* the largest disk budget ever set, in segments
  CheckpointModes,    \* the values of cfg.checkpoint_enabled that a run may start with
  MaxSegment          \* bound: the highest segment number a behaviour uses

ASSUME StagingAssumption ==
  /\ IsFiniteSet(Record)
  /\ IsFiniteSet(Queue)
  /\ StageOf \in [Record -> Queue]
  /\ Span \in [Record -> Nat]
  /\ SegmentBytes \in Nat
  /\ MaxBudget \in Nat
  /\ CheckpointModes \subseteq BOOLEAN
  /\ MaxSegment \in Nat

Segment == 0 .. MaxSegment
NoSegment == -1

VARIABLES
  pc,            \* [Record -> Step]: where each batch's spill has got to
  at,            \* [Record -> segment]: the segment of its DiskRef or its move
  attempt,       \* [Record -> 0..1]: the failed attempts of its write
  inMemory,      \* the landed batches whose payload is resident as well
  segments,      \* the numbers in Staging.segments
  bytesWritten,  \* [Segment -> Nat]
  recordsTotal,  \* [Segment -> Nat]
  recordsReleased, \* [Segment -> Nat]
  active,        \* [Queue -> segment]: Staging.active and Segment.active
  closed,        \* the queues close() was called on
  nextSegment,   \* next_segment
  diskSegments,  \* disk_bytes, in segments
  diskBudget,    \* disk_budget, in segments
  files,         \* the segment files open_segment created, not yet removed
  strays,        \* files a late write re-created under an unlinked path
  content,       \* [Segment -> records]: what can be read back by its path
  lost,          \* the writes in flight whose open file was unlinked
  unlinking,     \* [Segment -> UnlinkStep]: the progress of unlink_segments
  manifest,      \* the manifest on disk
  writer,        \* the checkpoint thread inside write_manifest
  checkpointEnabled  \* cfg.checkpoint_enabled, fixed for the run

recordVars  == <<pc, at, attempt, inMemory>>
segmentVars == <<segments, bytesWritten, recordsTotal, recordsReleased, active>>
diskVars    == <<diskSegments, diskBudget, nextSegment>>
fileVars    == <<files, strays, content, lost>>
manifestVars == <<manifest, writer, checkpointEnabled>>
vars == <<recordVars, segmentVars, closed, diskVars, fileVars, unlinking,
          manifestVars>>

\* memory: only in memory; lay, roll, open, install: inside reserve_record;
\* laid: has a span; writing: its write is in flight; disk: a disk copy;
\* taken: its last consumer has it, the record is to be released; gone.
Step == {"memory", "lay", "roll", "open", "install", "laid", "writing",
         "disk", "taken", "gone"}

\* listed: on the list of a call of unlink_segments; cut: out of the map;
\* removed: unregistered and unlinked, its charge still to be returned.
UnlinkStep == {"none", "listed", "cut", "removed"}

Row == Record \X Segment     \* a lineage row's DiskRef
NoManifest == [file |-> "absent", rows |-> {}, segs |-> {}]
IdleWriter == [step |-> "idle", rows |-> {}, segs |-> {}]

RecordsOK ==
  /\ pc \in [Record -> Step]
  /\ at \in [Record -> Segment \cup {NoSegment}]
  /\ attempt \in [Record -> 0..1]
  /\ inMemory \in SUBSET Record

SegmentsOK ==
  /\ segments \in SUBSET Segment
  /\ bytesWritten \in [Segment -> Nat]
  /\ recordsTotal \in [Segment -> Nat]
  /\ recordsReleased \in [Segment -> Nat]
  /\ active \in [Queue -> Segment \cup {NoSegment}]
  /\ unlinking \in [Segment -> UnlinkStep]

DiskOK ==
  /\ closed \in SUBSET Queue
  /\ nextSegment \in Nat
  /\ diskSegments \in Nat
  /\ diskBudget \in Nat
  /\ files \in SUBSET Segment
  /\ strays \in SUBSET Segment
  /\ content \in [Segment -> SUBSET Record]
  /\ lost \in SUBSET Record

ManifestOK ==
  /\ manifest \in [file : {"absent", "present"}, rows : SUBSET Row, segs : SUBSET Segment]
  /\ writer \in [step : {"idle", "rows", "segs", "reclaim"},
                 rows : SUBSET Row, segs : SUBSET Segment]
  /\ checkpointEnabled \in BOOLEAN

TypeOK == RecordsOK /\ SegmentsOK /\ DiskOK /\ ManifestOK

Init ==
  /\ pc = [r \in Record |-> "memory"]
  /\ at = [r \in Record |-> NoSegment]
  /\ attempt = [r \in Record |-> 0]
  /\ inMemory = {}
  /\ segments = {}
  /\ bytesWritten = [s \in Segment |-> 0]
  /\ recordsTotal = [s \in Segment |-> 0]
  /\ recordsReleased = [s \in Segment |-> 0]
  /\ active = [q \in Queue |-> NoSegment]
  /\ closed = {}
  /\ nextSegment = 0
  /\ diskSegments = 0
  /\ diskBudget = MaxBudget
  /\ files = {}
  /\ strays = {}
  /\ content = [s \in Segment |-> {}]
  /\ lost = {}
  /\ unlinking = [s \in Segment |-> "none"]
  /\ manifest = NoManifest
  /\ writer = IdleWriter
  /\ checkpointEnabled \in CheckpointModes
-----------------------------------------------------------------------------
(***************************************************************************)
(* Segments and records.                                                   *)
(***************************************************************************)

\* Segment.active of the code: a segment is active for at most one queue.
IsActive(s) == \E q \in Queue : active[q] = s

\* Mutant: the last record of the segment is forgotten.
ReclaimableOneEarly(s) == ~IsActive(s) /\ recordsReleased[s] + 1 >= recordsTotal[s]

\* Segment::reclaimable.
Reclaimable(s) == ~IsActive(s) /\ recordsReleased[s] >= recordsTotal[s]

\* The active segment of the batch's queue has room for its record.
Fits(r) ==
  LET s == active[StageOf[r]]
  IN  s \in segments /\ bytesWritten[s] + Span[r] <= SegmentBytes

\* The batch's bytes can be read back from its disk copy.
Readable(r) == r \in content[at[r]]

RollHeld == \E r \in Record : pc[r] \in {"open", "install"}

Goto(r, step) == pc' = [pc EXCEPT ![r] = step]

\* The batch ends where it began, without a disk copy: abandon() after a refusal or a failure.
BackToMemory(r) ==
  /\ Goto(r, "memory")
  /\ at' = [at EXCEPT ![r] = NoSegment]
  /\ attempt' = [attempt EXCEPT ![r] = 0]

(***************************************************************************)
(* reserve_record and open_segment, one action per lock region.            *)
(***************************************************************************)

\* A demotion to disk is issued for the batch: issue_write enters reserve_record.
Spill(r) ==
  /\ pc[r] = "memory"
  /\ Goto(r, "lay")
  /\ UNCHANGED <<at, attempt, inMemory, segmentVars, closed, diskVars, fileVars,
                 unlinking, manifestVars>>

\* One turn of reserve_record's loop: take the span, refuse an oversized record, or go and roll.
Lay(r) ==
  /\ pc[r] = "lay"
  /\ \/ /\ Fits(r)
        /\ LET s == active[StageOf[r]]
           IN  /\ bytesWritten' = [bytesWritten EXCEPT ![s] = @ + Span[r]]
               /\ at' = [at EXCEPT ![r] = s]
        /\ Goto(r, "laid")
        /\ UNCHANGED attempt
     \/ /\ ~Fits(r) /\ Span[r] > SegmentBytes
        /\ BackToMemory(r)
        /\ UNCHANGED bytesWritten
     \/ /\ ~Fits(r) /\ Span[r] <= SegmentBytes
        /\ Goto(r, "roll")
        /\ UNCHANGED <<at, attempt, bytesWritten>>
  /\ UNCHANGED <<inMemory, segments, recordsTotal, recordsReleased, active, closed,
                 diskVars, fileVars, unlinking, manifestVars>>

\* Mutant: the roll lock is not taken.
RollUnlocked(r) ==
  /\ pc[r] = "roll"
  /\ Goto(r, IF Fits(r) THEN "lay" ELSE "open")
  /\ UNCHANGED <<at, attempt, inMemory, segmentVars, closed, diskVars, fileVars,
                 unlinking, manifestVars>>

\* The roll lock is taken; another thread may have opened a segment meanwhile.
Roll(r) ==
  /\ pc[r] = "roll"
  /\ ~RollHeld
  /\ Goto(r, IF Fits(r) THEN "lay" ELSE "open")
  /\ UNCHANGED <<at, attempt, inMemory, segmentVars, closed, diskVars, fileVars,
                 unlinking, manifestVars>>

\* Mutant: a refused spill waits for room instead of giving up.
DiskBoundWaits(r) ==
  /\ pc[r] = "open"
  /\ diskSegments + 1 > diskBudget
  /\ Goto(r, "roll")
  /\ UNCHANGED <<at, attempt, inMemory, segmentVars, closed, diskVars, fileVars, unlinking,
                 manifestVars>>

\* The disk bound refuses the segment: the batch is not spilled.
DiskBound(r) ==
  /\ pc[r] = "open"
  /\ diskSegments + 1 > diskBudget
  /\ BackToMemory(r)
  /\ UNCHANGED <<inMemory, segmentVars, closed, diskVars, fileVars, unlinking,
                 manifestVars>>

\* Mutant: the number is read and not advanced.
CreateFileSameNumber(r) ==
  /\ pc[r] = "open"
  /\ diskSegments + 1 <= diskBudget
  /\ files' = files \cup {nextSegment}
  /\ strays' = strays \ {nextSegment}
  /\ content' = [content EXCEPT ![nextSegment] = {}]
  /\ at' = [at EXCEPT ![r] = nextSegment]
  /\ Goto(r, "install")
  /\ UNCHANGED <<attempt, inMemory, segmentVars, closed, diskVars, lost, unlinking,
                 manifestVars>>

\* The number is taken and the file is created at its full size.  Either call may fail: a failed
\* set_len removes the file and lowers the budget to what is held.  At the bound on segment numbers
\* only the failures are left.
CreateFile(r) ==
  /\ pc[r] = "open"
  /\ diskSegments + 1 <= diskBudget
  /\ nextSegment' = IF nextSegment <= MaxSegment THEN nextSegment + 1 ELSE nextSegment
  /\ \/ /\ nextSegment <= MaxSegment
        /\ files' = files \cup {nextSegment}
        /\ strays' = strays \ {nextSegment}
        /\ content' = [content EXCEPT ![nextSegment] = {}]
        /\ at' = [at EXCEPT ![r] = nextSegment]
        /\ Goto(r, "install")
        /\ UNCHANGED <<attempt, diskBudget>>
     \/ /\ BackToMemory(r)
        /\ UNCHANGED <<files, strays, content, diskBudget>>
     \/ /\ BackToMemory(r)
        /\ diskBudget' = diskSegments
        /\ strays' = strays \ {nextSegment}
        /\ content' = [s \in Segment |-> IF s = nextSegment THEN {} ELSE content[s]]
        /\ UNCHANGED files
  /\ UNCHANGED <<inMemory, segmentVars, closed, diskSegments, lost, unlinking,
                 manifestVars>>

\* The segment is charged, registered with the reactor and made the active one; the previous
\* active one stops being active.  A failed registration leaves the charge and the file.
InstallSegment(r) ==
  /\ pc[r] = "install"
  /\ diskSegments' = diskSegments + 1
  /\ \/ LET s == at[r]
        IN  /\ segments' = segments \cup {s}
            /\ bytesWritten' = [bytesWritten EXCEPT ![s] = 0]
            /\ recordsTotal' = [recordsTotal EXCEPT ![s] = 0]
            /\ recordsReleased' = [recordsReleased EXCEPT ![s] = 0]
            /\ active' = [active EXCEPT ![StageOf[r]] = s]
            /\ at' = [at EXCEPT ![r] = NoSegment]
            /\ Goto(r, "lay")
            /\ UNCHANGED attempt
     \/ BackToMemory(r) /\ UNCHANGED segmentVars
  /\ UNCHANGED <<inMemory, closed, diskBudget, nextSegment, fileVars, unlinking,
                 manifestVars>>

(***************************************************************************)
(* The write: issue_write after reserve_record, and its completion.        *)
(***************************************************************************)

\* write_file reaches the reactor.  A registered segment's own descriptor is used; the path of an
\* unlinked one is opened for writing, which creates the file again.
OpenForWrite(r) ==
  LET s == at[r]
  IN  /\ strays' = IF s \in files THEN strays ELSE strays \cup {s}
      /\ lost' = lost \ {r}
      /\ UNCHANGED <<files, content>>

\* The header is allocated and the write submitted, or the allocation is refused.
Submit(r) ==
  /\ pc[r] = "laid"
  /\ \/ Goto(r, "writing") /\ OpenForWrite(r) /\ UNCHANGED <<at, attempt>>
     \/ BackToMemory(r) /\ UNCHANGED fileVars
  /\ UNCHANGED <<inMemory, segmentVars, closed, diskVars, unlinking, manifestVars>>

\* on_piece: the write succeeded, the record is counted and the batch has a disk copy; its payload
\* is kept when its head is hot.  A write to an unlinked file succeeds as well.
Land(r) ==
  /\ pc[r] = "writing"
  /\ LET s == at[r]
     IN  /\ content' = IF r \in lost THEN content ELSE [content EXCEPT ![s] = @ \cup {r}]
         /\ recordsTotal' = IF s \in segments THEN [recordsTotal EXCEPT ![s] = @ + 1]
                                              ELSE recordsTotal
  /\ \/ inMemory' = inMemory \cup {r}
     \/ inMemory' = inMemory \ {r}
  /\ lost' = lost \ {r}
  /\ attempt' = [attempt EXCEPT ![r] = 0]
  /\ Goto(r, "disk")
  /\ UNCHANGED <<at, segments, bytesWritten, recordsReleased, active, closed, diskVars,
                 files, strays, unlinking, manifestVars>>

\* Mutant: every failure submits the piece again.
WriteFailsRetried(r) ==
  /\ pc[r] = "writing"
  /\ attempt' = [attempt EXCEPT ![r] = @ + 1]
  /\ OpenForWrite(r)
  /\ UNCHANGED <<pc, at, inMemory, segmentVars, closed, diskVars, unlinking, manifestVars>>

\* Mutant: a write that is given up is counted as written.
WriteFailsCounted(r) ==
  /\ pc[r] = "writing"
  /\ \/ /\ attempt[r] = 0
        /\ attempt' = [attempt EXCEPT ![r] = 1]
        /\ OpenForWrite(r)
        /\ UNCHANGED <<pc, at, recordsTotal>>
     \/ /\ attempt[r] = 1
        /\ BackToMemory(r)
        /\ recordsTotal' = [recordsTotal EXCEPT ![at[r]] = @ + 1]
        /\ lost' = lost \ {r}
        /\ UNCHANGED <<files, strays, content>>
  /\ UNCHANGED <<inMemory, segments, bytesWritten, recordsReleased, active, closed, diskVars,
                 unlinking, manifestVars>>

\* after_failure: the first failure submits the same piece again, the second gives the batch up.
WriteFails(r) ==
  /\ pc[r] = "writing"
  /\ \/ /\ attempt[r] = 0
        /\ attempt' = [attempt EXCEPT ![r] = 1]
        /\ OpenForWrite(r)
        /\ UNCHANGED <<pc, at>>
     \/ /\ attempt[r] = 1
        /\ BackToMemory(r)
        /\ lost' = lost \ {r}
        /\ UNCHANGED <<files, strays, content>>
  /\ UNCHANGED <<inMemory, segmentVars, closed, diskVars, unlinking, manifestVars>>

\* shed: a batch that is in both places gives up its memory copy.
DropCopy(r) ==
  /\ pc[r] = "disk"
  /\ r \in inMemory
  /\ inMemory' = inMemory \ {r}
  /\ UNCHANGED <<pc, at, attempt, segmentVars, closed, diskVars, fileVars, unlinking,
                 manifestVars>>

\* A read of the record brings the payload back: issue_read, on_read, land_promotion.
Promote(r) ==
  /\ pc[r] = "disk"
  /\ r \notin inMemory
  /\ Readable(r)
  /\ inMemory' = inMemory \cup {r}
  /\ UNCHANGED <<pc, at, attempt, segmentVars, closed, diskVars, fileVars, unlinking,
                 manifestVars>>

\* pop_entry: the last consumer takes the batch, so the catalog gives its record up.
Take(r) ==
  /\ pc[r] = "disk"
  /\ r \in inMemory
  /\ inMemory' = inMemory \ {r}
  /\ Goto(r, "taken")
  /\ UNCHANGED <<at, attempt, segmentVars, closed, diskVars, fileVars, unlinking,
                 manifestVars>>

\* The segments that a call lists for unlink_segments.
ListForUnlink(ss) ==
  unlinking' = [s \in Segment |-> IF s \in ss /\ unlinking[s] = "none" THEN "listed"
                                                                       ELSE unlinking[s]]

\* release_record: the count, and the unlink at once when the run keeps no manifest.
Release(r) ==
  /\ pc[r] = "taken"
  /\ LET s == at[r]
     IN  IF s \in segments
           THEN /\ recordsReleased' = [recordsReleased EXCEPT ![s] = @ + 1]
                /\ ListForUnlink({t \in {s} : /\ ~checkpointEnabled /\ ~IsActive(t)
                                         /\ recordsReleased'[t] >= recordsTotal[t]})
           ELSE UNCHANGED <<recordsReleased, unlinking>>
  /\ Goto(r, "gone")
  /\ at' = [at EXCEPT ![r] = NoSegment]
  /\ UNCHANGED <<attempt, inMemory, segments, bytesWritten, recordsTotal, active,
                 closed, diskVars, fileVars, manifestVars>>

\* close: the queue takes no more pushes and its active segment is retired.  The scheduler closes
\* a queue once.
Close(q) ==
  /\ q \notin closed
  /\ closed' = closed \cup {q}
  /\ active' = [active EXCEPT ![q] = NoSegment]
  /\ ListForUnlink({s \in segments : /\ ~checkpointEnabled /\ active[q] = s
                                    /\ recordsReleased[s] >= recordsTotal[s]})
  /\ UNCHANGED <<recordVars, segments, bytesWritten, recordsTotal, recordsReleased,
                 diskVars, fileVars, manifestVars>>

(***************************************************************************)
(* unlink_segments: the map entry, then the descriptor and the file, then  *)
(* the disk charge.  The segments of a list are independent of each other, *)
(* so each has its own progress.                                           *)
(***************************************************************************)

\* Under the segments lock the segment must still be reclaimable; otherwise it is passed over.
UnlinkEntry(s) ==
  /\ unlinking[s] = "listed"
  /\ IF s \in segments /\ Reclaimable(s)
       THEN /\ segments' = segments \ {s}
            /\ unlinking' = [unlinking EXCEPT ![s] = "cut"]
       ELSE /\ unlinking' = [unlinking EXCEPT ![s] = "none"]
            /\ UNCHANGED segments
  /\ UNCHANGED <<recordVars, bytesWritten, recordsTotal, recordsReleased, active, closed,
                 diskVars, fileVars, manifestVars>>

\* unregister_segment, then remove_file.  A write in flight keeps the open file and loses its name.
UnlinkFile(s) ==
  /\ unlinking[s] = "cut"
  /\ unlinking' = [unlinking EXCEPT ![s] = "removed"]
  /\ files' = files \ {s}
  /\ content' = [content EXCEPT ![s] = {}]
  /\ lost' = lost \cup {r \in Record : pc[r] = "writing" /\ at[r] = s}
  /\ UNCHANGED <<recordVars, segmentVars, closed, diskVars, strays, manifestVars>>

Discharge(s) ==
  /\ unlinking[s] = "removed"
  /\ unlinking' = [unlinking EXCEPT ![s] = "none"]
  /\ diskSegments' = IF diskSegments = 0 THEN 0 ELSE diskSegments - 1
  /\ UNCHANGED <<recordVars, segmentVars, closed, diskBudget, nextSegment, fileVars,
                 manifestVars>>

\* set_budgets: the controller applies a new disk budget.
SetBudgets ==
  /\ diskBudget' \in 0 .. MaxBudget
  /\ UNCHANGED <<recordVars, segmentVars, closed, diskSegments, nextSegment, fileVars,
                 unlinking, manifestVars>>

(***************************************************************************)
(* write_manifest on the checkpoint thread.                                *)
(***************************************************************************)

Unlinking == {s \in Segment : unlinking[s] # "none"}

\* Under the catalog lock: a row for every batch with a disk copy.
SnapshotRows ==
  /\ checkpointEnabled
  /\ writer.step = "idle"
  /\ Unlinking = {}
  /\ writer' = [step |-> "rows", segs |-> {},
                rows |-> {p \in Row : pc[p[1]] = "disk" /\ at[p[1]] = p[2]}]
  /\ UNCHANGED <<recordVars, segmentVars, closed, diskVars, fileVars, unlinking, manifest,
                 checkpointEnabled>>

\* Under the segments lock: a segment row for every segment the rows reference.
SnapshotSegments ==
  /\ writer.step = "rows"
  /\ writer' = [writer EXCEPT !.step = "segs",
                              !.segs = {s \in segments : \E p \in writer.rows : p[2] = s}]
  /\ UNCHANGED <<recordVars, segmentVars, closed, diskVars, fileVars, unlinking, manifest,
                 checkpointEnabled>>

\* The temporary file is renamed over the manifest, or writing it failed and the old one stays.
RenameManifest ==
  /\ writer.step = "segs"
  /\ \/ /\ manifest' = [file |-> "present", rows |-> writer.rows, segs |-> writer.segs]
        /\ writer' = [writer EXCEPT !.step = "reclaim"]
     \/ /\ writer' = IdleWriter
        /\ UNCHANGED manifest
  /\ UNCHANGED <<recordVars, segmentVars, closed, diskVars, fileVars, unlinking,
                 checkpointEnabled>>

\* Mutant: what the new manifest references is unlinked as well.
ReclaimReferenced ==
  /\ writer.step = "reclaim"
  /\ ListForUnlink({s \in segments : Reclaimable(s)})
  /\ writer' = IdleWriter
  /\ UNCHANGED <<recordVars, segmentVars, closed, diskVars, fileVars, manifest,
                 checkpointEnabled>>

\* What the new manifest does not reference and is reclaimable is unlinked.
ReclaimSegments ==
  /\ writer.step = "reclaim"
  /\ ListForUnlink({s \in segments : Reclaimable(s) /\ ~\E p \in writer.rows : p[2] = s})
  /\ writer' = IdleWriter
  /\ UNCHANGED <<recordVars, segmentVars, closed, diskVars, fileVars, manifest,
                 checkpointEnabled>>
-----------------------------------------------------------------------------
Progress(r) ==
  \/ Lay(r) \/ Roll(r) \/ DiskBound(r) \/ CreateFile(r) \/ InstallSegment(r)
  \/ Submit(r) \/ Land(r) \/ WriteFails(r) \/ Release(r)

Unlink(s) == UnlinkEntry(s) \/ UnlinkFile(s) \/ Discharge(s)

Checkpoint == SnapshotRows \/ SnapshotSegments \/ RenameManifest \/ ReclaimSegments

Next ==
  \/ \E r \in Record : \/ Spill(r) \/ Progress(r)
                       \/ DropCopy(r) \/ Promote(r) \/ Take(r)
  \/ \E q \in Queue : Close(q)
  \/ \E s \in Segment : Unlink(s)
  \/ SetBudgets
  \/ Checkpoint

Spec == Init /\ [][Next]_vars

(***************************************************************************)
(* Fairness: a thread inside a call keeps running, every reactor operation *)
(* resolves, a thread that waits for the roll lock gets it at last, and a  *)
(* listed segment is unlinked by the call that listed it.  Nothing makes a *)
(* spill start, a consumer take, a queue close, the budget change or a     *)
(* checkpoint begin.                                                       *)
(***************************************************************************)
Fairness ==
  /\ \A r \in Record : WF_vars(Progress(r)) /\ SF_vars(Roll(r))
  /\ \A s \in Segment : WF_vars(Unlink(s))

FairSpec == Spec /\ Fairness
-----------------------------------------------------------------------------
(***************************************************************************)
(* What holds.                                                             *)
(***************************************************************************)

\* The records a segment's counters stand for: landed, and not yet released.
Counted(s) == {r \in Record : at[r] = s /\ pc[r] \in {"disk", "taken"}}

\* A segment in the map counts its records exactly: what was counted in by record_written and not
\* yet out by release_record is one record per landed batch, whatever the order of landings, failed
\* writes, releases, rolls and closes.  A drift either way would unlink a live segment or leak it.
CountsFollowRecords ==
  \A s \in segments : recordsTotal[s] = recordsReleased[s] + Cardinality(Counted(s))

\* The disk copy of a batch whose segment is in the map can be read back, whoever opens, closes,
\* rolls or unlinks segments meanwhile: unlink_segments takes no segment with a counted record.
CountedRecordReadable ==
  \A r \in Record : pc[r] = "disk" /\ at[r] \in segments => at[r] \in files /\ Readable(r)

\* A batch's disk copy never leaves the map before the batch is taken: a step that unlinks a
\* segment's entry finds no batch that still has its copy there.
CopyKeptUntilTaken ==
  [][\A r \in Record :
       pc[r] = "disk" /\ at[r] \in segments /\ pc'[r] = "disk" => at[r] \in segments']_vars

\* PL-I7: the preallocated segment files on disk never take more than the largest budget that was
\* set, although the budget is checked, the file created and the charge made in separate steps.
FilesWithinBudget == Cardinality(files) <= MaxBudget

\* PL-I12: what the manifest's segment table covers can be resumed from at any instant: each of its
\* segments exists, and each row in one of them reads back.
ManifestReadable ==
  \A p \in manifest.rows : p[2] \in manifest.segs => p[2] \in files /\ p[1] \in content[p[2]]

\* A spill that was begun ends, with a disk copy or back in memory, although the segment a thread
\* opened in reserve_record's loop may be filled by others before the thread gets back to it.
SpillSettles ==
  \A r \in Record : pc[r] \notin {"memory", "disk", "taken", "gone"} ~> pc[r] \in {"memory", "disk"}

(***************************************************************************)
(* What the documentation says and the code does not do.                   *)
(***************************************************************************)

\* PL-I8: no live entry references a deleted segment.
LiveRecordHasSegment == \A r \in Record : pc[r] = "disk" => at[r] \in files

\* f.7: with no manifest kept, a segment whose records are all released and that is not active is
\* unlinked (at once, so eventually), unless a write still in flight there lands first.
ReclaimableIsUnlinked ==
  \A s \in Segment : s \in segments /\ Reclaimable(s) /\ recordsTotal[s] > 0
                        ~> s \notin segments \/ ~Reclaimable(s)
=============================================================================
