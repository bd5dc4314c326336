-------------------------- MODULE StagingRecovery --------------------------
(***************************************************************************)
(* The disk tier across a crash and a resume: what restore_from            *)
(* (crates/moruna-placement/src/manifest.rs) rebuilds from the manifest    *)
(* and the segment files a crashed run left in its run directory.          *)
(*                                                                         *)
(* A crash loses everything in memory.  The segment files, what was        *)
(* written to them and the manifest stay.  Batches the manifest has no row *)
(* for are recomputed, so they are in memory again some time after.        *)
(***************************************************************************)
EXTENDS Staging

CONSTANT MaxCrashes   \* bound: the crashes of a behaviour

ASSUME CrashAssumption == MaxCrashes \in Nat

VARIABLES
  up,       \* the process is running
  crashes   \* the crashes so far

recoveryVars == <<vars, up, crashes>>

RecoveryTypeOK == TypeOK /\ up \in BOOLEAN /\ crashes \in 0 .. MaxCrashes

RecoveryInit == Init /\ up = TRUE /\ crashes = 0

\* Nothing of this is kept across a crash.
ForgetMemory ==
  /\ attempt' = [r \in Record |-> 0]
  /\ inMemory' = {}
  /\ bytesWritten' = [s \in Segment |-> 0]
  /\ recordsReleased' = [s \in Segment |-> 0]
  /\ active' = [q \in Queue |-> NoSegment]
  /\ closed' = {}
  /\ diskBudget' = MaxBudget
  /\ lost' = {}
  /\ unlinking' = [s \in Segment |-> "none"]
  /\ writer' = IdleWriter

\* The process dies at any point of any call.
Crash ==
  /\ up
  /\ crashes < MaxCrashes
  /\ up' = FALSE
  /\ crashes' = crashes + 1
  /\ ForgetMemory
  /\ pc' = [r \in Record |-> "memory"]
  /\ at' = [r \in Record |-> NoSegment]
  /\ segments' = {}
  /\ recordsTotal' = [s \in Segment |-> 0]
  /\ nextSegment' = 0
  /\ diskSegments' = 0
  /\ UNCHANGED <<files, strays, content, manifest, checkpointEnabled>>

RowOf(r) == {p \in manifest.rows : p[1] = r}

\* restore_from: each segment of the manifest's table must exist; the batches with a row come back
\* on disk, the table becomes the map and the charge, and numbering goes on after its highest.
\* A file the table does not name is left where it is.
Restore ==
  /\ ~up
  /\ manifest.file = "present"
  /\ manifest.segs \subseteq files \cup strays
  /\ up' = TRUE
  /\ ForgetMemory
  /\ pc' = [r \in Record |-> IF RowOf(r) = {} THEN "memory" ELSE "disk"]
  /\ at' = [r \in Record |-> IF RowOf(r) = {} THEN NoSegment
                                              ELSE (CHOOSE p \in RowOf(r) : TRUE)[2]]
  /\ segments' = manifest.segs
  /\ recordsTotal' = [s \in Segment |-> Cardinality({p \in manifest.rows : p[2] = s})]
  /\ nextSegment' = IF manifest.segs = {} THEN 0
                    ELSE 1 + CHOOSE s \in manifest.segs : \A t \in manifest.segs : t <= s
  /\ diskSegments' = Cardinality(manifest.segs)
  /\ UNCHANGED <<files, strays, content, manifest, checkpointEnabled, crashes>>

RecoveryNext ==
  \/ up /\ Next /\ UNCHANGED <<up, crashes>>
  \/ Crash
  \/ Restore

RecoverySpec == RecoveryInit /\ [][RecoveryNext]_recoveryVars
-----------------------------------------------------------------------------
\* A crash at any instant, also in the middle of unlink_segments or of write_manifest, leaves a
\* manifest whose every segment is on disk, so restore_from never refuses it as missing.  It holds
\* because a segment the current manifest references waits for the next manifest to be unlinked.
ResumeNotRefused == manifest.segs \subseteq files \cup strays

\* PL-I12 in the run that wrote the manifest: what its segment table covers reads back at any instant
\* of a spill, a pop, an unlink or the next manifest.  A crash may then come at any of them.
FirstLifeReadable == crashes = 0 => ManifestReadable

\* restore_from takes over only what it has checked to exist: a batch that a resume brought back on
\* disk, and whose segment the running engine has, reads back its own record.
ResumedCopyIsOwn == up /\ crashes > 0 => CountedRecordReadable
=============================================================================
