----------------------------- MODULE RunResume -----------------------------
(***************************************************************************)
(* A run of one source, one stage and one file sink, its manifests and its *)
(* resumption: crates/moruna-scheduler/src/source_drive.rs (the cursor and *)
(* the reads), checkpoint.rs (checkpoint_now), lifecycle.rs                *)
(* (apply_resume_point), crates/moruna-placement/src/lineage.rs and        *)
(* manifest.rs (write_manifest, restore_from).                             *)
(*                                                                         *)
(* A morsel is a number and the rows it was read from.  From the moment    *)
(* the cursor passes it, it is a read in flight, an entry of a queue, in a *)
(* worker, in the sink or in a committed file, and a manifest names it as  *)
(* an issued read, a lineage row or a committed file; a row no read has    *)
(* reached is named by the cursor.  The manifest is put together from      *)
(* snapshots taken one after the other while the run goes on, except       *)
(* behind the barrier of a portable checkpoint.                            *)
(***************************************************************************)
EXTENDS FileSink

CONSTANTS
  NRows,         \* the source holds the rows 0 .. NRows-1
  SplitEnds,     \* where a split ends: a subset of 1 .. NRows with NRows
  Sizes,         \* the morsel sizes the target may ask for
  MayFail,       \* the rows the kernel may fail on, with the skip policy
  Portable,      \* the kinds of checkpoint taken: a subset of BOOLEAN
  MaxManifests   \* bound: how many manifests a behaviour writes

Rows == 0 .. NRows - 1

ASSUME RunResumeAssumption ==
  /\ NRows \in Nat \ {0} /\ N = NRows
  /\ SplitEnds \subseteq 1 .. NRows /\ NRows \in SplitEnds
  /\ Sizes \subseteq Nat \ {0} /\ Sizes # {}
  /\ MayFail \subseteq Rows
  /\ Portable \subseteq BOOLEAN
  /\ MaxManifests \in Nat
  /\ Item = [seq : Seq0, rows : SUBSET Rows, read : {"cursor", "again"}]
  /\ SeqOf = [i \in Item |-> i.seq]

VARIABLES
  cursor,     \* Cursor: [row, seq], the next row to read and the next number
  issued,     \* Cursor.issued: the reads taken and not yet forgotten
  again,      \* to_recompute: reads a resume has still to do
  landed,     \* the read the drive has pushed and not yet forgotten
  q,          \* [0 .. 1 -> the morsels waiting there]
  work,       \* morsels a worker holds
  pushing,    \* pushes in their queue and not yet in the lineage: [item, stage]
  lineage,    \* the engine's records: [item, at, committed]
  dropped,    \* morsels the skip policy dropped, of those below the watermark
  reached,    \* Watermark.reached, -1 for None
  engine,     \* the engine's sink_watermarks
  floor,      \* SinkEnd.floor
  ended,      \* the run was terminated by a refused push
  ckpt,       \* where checkpoint_now is
  extras,     \* what it has gathered
  manifest,   \* the manifest on disk, or None
  manifests,
  resumes,
  sound       \* every resume so far started from a complete manifest

sourceVars == <<cursor, issued, again, landed>>
markVars == <<reached, engine>>
ckptVars == <<ckpt, extras, manifest, manifests>>
lifeVars == <<floor, ended, resumes, sound>>
rrVars == <<sinkVars, sourceVars, q, work, pushing, lineage, dropped, markVars, ckptVars, lifeVars>>

Least(S) == CHOOSE n \in S : \A k \in S : n <= k
WithSeq(S, n) == {i \in S : i.seq = n}

RRInit ==
  /\ SinkInit
  /\ cursor = [row |-> 0, seq |-> 0]
  /\ issued = {} /\ again = {} /\ landed = {}
  /\ q = [s \in 0 .. 1 |-> {}]
  /\ work = {}
  /\ pushing = {}
  /\ lineage = {}
  /\ dropped = {}
  /\ reached = -1 /\ engine = -1 /\ floor = -1
  /\ ended = FALSE
  /\ ckpt = "idle"
  /\ extras = None
  /\ manifest = None
  /\ manifests = 0
  /\ resumes = 0
  /\ sound = TRUE

\* Mutant: the barrier stops nothing.
BarrierOpen == FALSE

\* Behind the barrier of a portable checkpoint only the checkpoint moves.
Barrier == extras # None /\ extras.portable
Running == ~ended /\ ~Barrier /\ phase = "open"

-----------------------------------------------------------------------------
(* The lineage index *)

RecordOf(i) == CHOOSE r \in lineage : r.item.seq = i.seq
HasRecord(i) == \E r \in lineage : r.item.seq = i.seq

\* lineage_push: the position the morsel was taken from is gone, one at queue s is
\* there.  It may come after the morsel was popped from s, or even from the next queue.
LineagePush(i, s) ==
  LET old == IF HasRecord(i) THEN RecordOf(i)
             ELSE [item |-> i, at |-> {}, committed |-> FALSE]
      new == [old EXCEPT !.at = (@ \ {s - 1}) \cup {s}]
  IN lineage' = {r \in lineage : r.item.seq # i.seq} \cup {new}

\* commit_to: with checkpoints the records stay, marked, until a manifest prunes.
LineageCommit(w) ==
  lineage' = {IF r.item.seq <= w THEN [r EXCEPT !.committed = TRUE] ELSE r : r \in lineage}

-----------------------------------------------------------------------------
(* The source drive *)

\* Mutant: a read is not cut at the end of its split.
IssuePastEnd(size) ==
  /\ Running
  /\ landed = {} /\ again = {} /\ cursor.row < NRows
  /\ LET end == cursor.row + size
         i == [seq |-> cursor.seq, rows |-> cursor.row .. end - 1, read |-> "cursor"]
     IN /\ cursor' = [row |-> end, seq |-> cursor.seq + 1]
        /\ issued' = (issued \ WithSeq(issued, i.seq)) \cup {i}
  /\ UNCHANGED <<sinkVars, again, landed, q, work, pushing, lineage, dropped, markVars, ckptVars, lifeVars>>

\* take_next_range: a read never crosses the end of its split.  A resume's reads
\* are done before any new one.
Issue(size) ==
  /\ Running
  /\ landed = {} /\ again = {} /\ cursor.row < NRows
  /\ LET end == Least({cursor.row + size} \cup {e \in SplitEnds : e > cursor.row})
         i == [seq |-> cursor.seq, rows |-> cursor.row .. end - 1, read |-> "cursor"]
     IN /\ cursor' = [row |-> end, seq |-> cursor.seq + 1]
        /\ issued' = (issued \ WithSeq(issued, i.seq)) \cup {i}
  /\ UNCHANGED <<sinkVars, again, landed, q, work, pushing, lineage, dropped, markVars, ckptVars, lifeVars>>

\* A number already on the queue is refused by the catalog, and the run ends.
OnQueue(i, s) == WithSeq(q[s], i.seq) # {}

\* push_into puts the entry in its queue, ...
Enter(i, s) ==
  IF OnQueue(i, s)
    THEN ended' = TRUE /\ UNCHANGED <<q, pushing>>
    ELSE /\ q' = [q EXCEPT ![s] = @ \cup {i}]
         /\ pushing' = pushing \cup {[item |-> i, stage |-> s]}
         /\ UNCHANGED ended

\* ... where it can be popped, and then in the lineage.
Record(p) ==
  /\ p \in pushing
  /\ pushing' = pushing \ {p}
  /\ LineagePush(p.item, p.stage)
  /\ UNCHANGED <<sinkVars, sourceVars, q, work, dropped, markVars, ckptVars, lifeVars>>

\* A read resolves and is pushed; the resume's reads come in their order.  The drive
\* is one thread, and has forgotten the last read before it pushes or issues another.
PushRead(i) ==
  /\ Running
  /\ landed = {} /\ i \in issued
  /\ again # {} => i \in again /\ \A j \in again : i.seq <= j.seq
  /\ Enter(i, 0)
  /\ landed' = IF ended' THEN {} ELSE {i}
  /\ again' = again \ landed'
  /\ UNCHANGED <<sinkVars, cursor, issued, work, lineage, dropped, markVars, ckptVars, floor, resumes, sound>>

\* pushed: the read is forgotten once the lineage has it.
Forget(i) ==
  /\ ~ended /\ ~Barrier
  /\ i \in landed /\ [item |-> i, stage |-> 0] \notin pushing
  /\ landed' = landed \ {i}
  /\ issued' = issued \ WithSeq(issued, i.seq)
  /\ UNCHANGED <<sinkVars, cursor, again, q, work, pushing, lineage, dropped, markVars, ckptVars, lifeVars>>

-----------------------------------------------------------------------------
(* The workers and the sink drive *)

TakeWork(i) ==
  /\ Running
  /\ i \in q[0]
  /\ q' = [q EXCEPT ![0] = @ \ {i}]
  /\ work' = work \cup {i}
  /\ UNCHANGED <<sinkVars, sourceVars, pushing, lineage, dropped, markVars, ckptVars, lifeVars>>

\* The kernel's output is pushed to the sink's queue.
Apply(i) ==
  /\ Running
  /\ i \in work
  /\ work' = work \ {i}
  /\ Enter(i, 1)
  /\ UNCHANGED <<sinkVars, sourceVars, lineage, dropped, markVars, ckptVars, floor, resumes, sound>>

\* apply_policy with Skip: the sink is told of the number.
ApplyFails(i) ==
  /\ Running
  /\ i \in work /\ i.rows \cap MayFail # {}
  /\ work' = work \ {i}
  /\ SinkSkip(i.seq)
  /\ dropped' = dropped \cup {i}
  /\ UNCHANGED <<sourceVars, q, pushing, lineage, markVars, ckptVars, lifeVars>>

\* The drive pops a morsel and polls its write; below the floor it drops it.
WriteMorsel(i, roll) ==
  /\ Running
  /\ i \in q[1]
  /\ IF i.seq <= floor THEN UNCHANGED sinkVars ELSE Encode(i, roll)
  /\ q' = [q EXCEPT ![1] = @ \ {i}]
  /\ UNCHANGED <<sourceVars, work, pushing, lineage, dropped, markVars, ckptVars, lifeVars>>

\* A rolled file lands and is committed.
RollSettles ==
  /\ \E p \in puts : PutLands(p) \/ Commit(p)
  /\ UNCHANGED <<sourceVars, q, work, pushing, lineage, dropped, markVars, ckptVars, lifeVars>>

\* publish: the watermark is claimed, ...
Claim ==
  /\ ~Barrier
  /\ reached < CommittedSeq
  /\ reached' = CommittedSeq
  /\ UNCHANGED <<sinkVars, sourceVars, q, work, pushing, lineage, dropped, engine, ckptVars, lifeVars>>

\* ... and given to the engine.
SetCommitted ==
  /\ engine < reached
  /\ engine' = reached
  /\ LineageCommit(reached)
  /\ UNCHANGED <<sinkVars, sourceVars, q, work, pushing, dropped, reached, ckptVars, lifeVars>>

\* finish, once everything upstream is closed and drained.
FinishSink ==
  /\ Running
  /\ cursor.row = NRows /\ issued = {} /\ again = {}
  /\ q = [s \in 0 .. 1 |-> {}] /\ work = {} /\ pushing = {}
  /\ \/ puts = {} /\ (FinishRoll \/ FinishClosed(TRUE))
     \/ \E p \in puts : FinishCommit(p, TRUE)
  /\ UNCHANGED <<sourceVars, q, work, pushing, lineage, dropped, markVars, ckptVars, lifeVars>>

-----------------------------------------------------------------------------
(* The checkpoint *)

CkptStep(from, to) ==
  /\ ckpt = from /\ ckpt' = to
  /\ UNCHANGED <<sourceVars, q, work, pushing, dropped, lifeVars>>

Gathering(portable) ==
  [portable |-> portable, committed |-> -1, doc |-> None, cursor |-> None, issued |-> {}]

\* Barrier::enter returns when the source drive, the workers and the sink drive
\* have nothing in flight; a drive that has not begun a resume's reads is idle.
Quiescent == issued = again /\ landed = {} /\ work = {} /\ pushing = {} /\ puts = {}

\* The thread has found the run live: finish has not begun.
StartCheckpoint(portable) ==
  /\ Running /\ manifests < MaxManifests
  /\ \A p \in puts : p.by # "finish"
  /\ portable => Quiescent
  /\ CkptStep("idle", IF portable THEN "flush" ELSE "watermark")
  /\ extras' = Gathering(portable)
  /\ manifests' = manifests + 1
  /\ UNCHANGED <<sinkVars, lineage, markVars, manifest>>

\* checkpoint_flush, ...
FlushSink ==
  /\ CkptStep("flush", "flushed")
  /\ Flush \/ (current = None /\ UNCHANGED sinkVars)
  /\ UNCHANGED <<lineage, markVars, extras, manifest, manifests>>

\* ... and, when it has returned, update_watermark.
UpdateWatermark ==
  /\ CkptStep("flushed", "watermark")
  /\ puts = {}
  /\ reached' = Max2(reached, CommittedSeq)
  /\ engine' = reached'
  /\ LineageCommit(reached')
  /\ UNCHANGED <<sinkVars, extras, manifest, manifests>>

\* Each watermark is read before its sink's state, ...
ReadReached ==
  /\ CkptStep("watermark", "state")
  /\ extras' = [extras EXCEPT !.committed = reached]
  /\ UNCHANGED <<sinkVars, lineage, markVars, manifest, manifests>>

ReadSinkState ==
  /\ \A p \in puts : p.by # "finish"
  /\ CkptStep("state", "cursor")
  /\ extras' = [extras EXCEPT !.doc = Document]
  /\ UNCHANGED <<sinkVars, lineage, markVars, manifest, manifests>>

\* Mutant: the watermark is read after the sink's state.
ReadCursorAndReached ==
  /\ CkptStep("cursor", "manifest")
  /\ extras' = [extras EXCEPT !.committed = reached, !.cursor = cursor, !.issued = issued]
  /\ UNCHANGED <<sinkVars, lineage, markVars, manifest, manifests>>

\* ... and the cursor with the reads behind it, under the cursor's lock.
ReadCursor ==
  /\ CkptStep("cursor", "manifest")
  /\ extras' = [extras EXCEPT !.cursor = cursor, !.issued = issued]
  /\ UNCHANGED <<sinkVars, lineage, markVars, manifest, manifests>>

\* write_manifest.  A sink that had no watermark gets the engine's.  The rows are
\* the records above the watermark; one whose every position is a waiting entry may
\* have a disk copy of each.
WriteManifest ==
  LET w == IF extras.committed = -1 THEN engine ELSE extras.committed
      above == {r \in lineage : r.item.seq > w}
  IN /\ CkptStep("manifest", "idle")
     /\ \E onDisk \in SUBSET {r \in above : \A s \in r.at : OnQueue(r.item, s)} :
          manifest' = [portable |-> extras.portable,
                       fellBack |-> w # extras.committed,
                       committed |-> w,
                       doc |-> extras.doc,
                       cursor |-> extras.cursor,
                       issued |-> {i \in extras.issued : i.seq > w},
                       rows |-> {[item |-> r.item, at |-> r.at, disk |-> r \in onDisk] : r \in above}]
     /\ lineage' = {r \in lineage : ~(r.committed /\ r.item.seq <= w)}
     /\ extras' = None
     /\ UNCHANGED <<sinkVars, markVars, manifests>>

\* The document cannot be written, synced or renamed: lineage_snapshot has pruned the
\* index already, the manifest of before stays, and the run goes on.
ManifestFails ==
  LET w == IF extras.committed = -1 THEN engine ELSE extras.committed
  IN /\ CkptStep("manifest", "idle")
     /\ lineage' = {r \in lineage : ~(r.committed /\ r.item.seq <= w)}
     /\ extras' = None
     /\ UNCHANGED <<sinkVars, markVars, manifest, manifests>>

-----------------------------------------------------------------------------
(* The resume *)

\* restore_from: a morsel with a disk copy comes back where it waited; any other,
\* and a read the lineage did not catch, is read again.
Restored(m) == {r \in m.rows : r.disk}

\* Mutant: a morsel that was restored is read again too.
RecomputeAll(m) ==
  {r.item : r \in m.rows} \cup
    {i \in m.issued : \A r \in m.rows : r.item.seq # i.seq}

Recompute(m) ==
  {r.item : r \in m.rows \ Restored(m)} \cup
    {i \in m.issued : \A r \in m.rows : r.item.seq # i.seq}
ReadAgain(i) == [i EXCEPT !.read = "again"]

\* The copies of row r in a set of files.
InFiles(files, r) ==
  {c \in UNION {{<<d.name, i>> : i \in d.data} : d \in files} : r \in c[2].rows}
Holding(items, r) == {i \in items : r \in i.rows}

\* How often manifest m names row r: in a file it keeps or a morsel dropped below
\* its watermark, in a morsel it restores or reads again, or beyond its cursor.
Names(m, r) ==
  LET kept == {d \in dest : \E k \in Kept(m.doc, m.committed) : k.name = d.name}
  IN Cardinality(InFiles(kept, r))
     + Cardinality(Holding({i \in dropped : i.seq <= m.committed}, r))
     + Cardinality(Holding({x.item : x \in Restored(m)}, r))
     + Cardinality(Holding(Recompute(m), r))
     + (IF r >= m.cursor.row THEN 1 ELSE 0)

\* A resume from m brings every row to the sink once: m names it once, and the
\* numbers the cursor goes on with are above the watermark the sink starts from.
Complete(m) ==
  /\ m.committed < m.cursor.seq
  /\ \A r \in Rows : Names(m, r) = 1

\* The process dies at any moment; restore_from and apply_resume_point.  The
\* manifest stays on disk; past the bound on resumes nothing reads it.
CrashAndResume ==
  /\ manifest # None
  /\ resumes < MaxResumes
  /\ resumes' = resumes + 1
  /\ sound' = (sound /\ Complete(manifest))
  /\ SinkResume(manifest.doc, manifest.committed)
  /\ cursor' = manifest.cursor
  /\ again' = {ReadAgain(i) : i \in Recompute(manifest)}
  /\ issued' = again'
  /\ landed' = {}
  /\ q' = [s \in 0 .. 1 |-> {ReadAgain(x.item) : x \in {x \in Restored(manifest) : s \in x.at}}]
  /\ work' = {}
  /\ pushing' = {}
  /\ lineage' = {[item |-> ReadAgain(x.item), at |-> x.at, committed |-> FALSE] :
                   x \in Restored(manifest)}
  /\ dropped' = {i \in dropped : i.seq <= manifest.committed}
  /\ reached' = manifest.committed
  /\ engine' = manifest.committed
  /\ floor' = manifest.committed
  /\ ended' = FALSE
  /\ ckpt' = "idle"
  /\ extras' = None
  /\ manifest' = IF resumes' < MaxResumes THEN manifest ELSE None
  /\ UNCHANGED manifests

RRNext ==
  \/ \E size \in Sizes : Issue(size)
  \/ \E i \in issued : PushRead(i)
  \/ \E p \in pushing : Record(p)
  \/ \E i \in landed : Forget(i)
  \/ \E i \in q[0] : TakeWork(i)
  \/ \E i \in work : Apply(i) \/ ApplyFails(i)
  \/ \E i \in q[1] : WriteMorsel(i, TRUE) \/ WriteMorsel(i, FALSE)
  \/ RollSettles
  \/ Claim
  \/ SetCommitted
  \/ FinishSink
  \/ \E portable \in Portable : StartCheckpoint(portable)
  \/ FlushSink
  \/ UpdateWatermark
  \/ ReadReached
  \/ ReadSinkState
  \/ ReadCursor
  \/ WriteManifest
  \/ ManifestFails
  \/ CrashAndResume

RRSpec == RRInit /\ [][RRNext]_rrVars

-----------------------------------------------------------------------------
RRTypeOK ==
  /\ cursor \in [row : 0 .. NRows, seq : 0 .. N]
  /\ issued \subseteq Item /\ again \subseteq issued /\ landed \subseteq Item
  /\ q \in [0 .. 1 -> SUBSET Item]
  /\ work \subseteq Item /\ dropped \subseteq Item
  /\ \A r \in lineage : r.item \in Item /\ r.at \subseteq 0 .. 1 /\ r.committed \in BOOLEAN
  /\ pushing \subseteq [item : Item, stage : 0 .. 1]
  /\ reached \in -1 .. N - 1 /\ engine \in -1 .. N - 1 /\ floor \in -1 .. N - 1
  /\ ended \in BOOLEAN /\ sound \in BOOLEAN
  /\ ckpt \in {"idle", "flush", "flushed", "watermark", "state", "cursor", "manifest"}
  /\ manifests \in 0 .. MaxManifests /\ resumes \in 0 .. MaxResumes

Times(r) == Cardinality(InFiles(dest, r)) + Cardinality(Holding(dropped, r))
Over == phase = "finished"

\* The output of a run whose resumes were all sound.
Output == INSTANCE ExactlyOnce WITH
            times <- [r \in Rows |-> IF sound THEN Times(r) ELSE 0],
            over <- sound /\ Over

(* The run delivers every row exactly once, however often it is killed and   *)
(* resumed, as long as every manifest it resumes from is complete.           *)
DeliversExactlyOnce == Output!Spec

\* There is a manifest, and the run it is of had only sound resumes.
Written == sound /\ manifest # None

(* A manifest written behind the barrier is complete, and stays so whatever  *)
(* the run does until it is resumed from or replaced.                        *)
PortableComplete == Written /\ manifest.portable => Complete(manifest)

(* A manifest written while the run goes on forgets no row unless its        *)
(* watermark came from the engine, ...                                       *)
RunningForgetsNone ==
  Written /\ ~manifest.fellBack =>
    manifest.committed < manifest.cursor.seq /\ \A r \in Rows : Names(manifest, r) >= 1

(* ... and names none twice unless a read issued after its cursor was taken  *)
(* is already a lineage row or below its watermark.                          *)
RunningNamesOnce ==
  /\ Written
  /\ manifest.committed < manifest.cursor.seq
  /\ \A x \in manifest.rows : x.item.seq < manifest.cursor.seq
  =>
    \A r \in Rows : Names(manifest, r) <= 1

\* The morsels the run still has to bring to the store.
Coming == issued \cup q[0] \cup q[1] \cup work \cup (IF current = None THEN {} ELSE current.data)
            \cup UNION {p.data : p \in puts}

(* Every row is in the output, was dropped by the policy, or is on its way   *)
(* (H5, scheduler f.13): a resume loses none.                                *)
NoRowLost ==
  \A r \in Rows : Times(r) >= 1 \/ Holding(Coming, r) # {} \/ r >= cursor.row

(* No row is in the output twice.                                            *)
NoRowTwice == \A r \in Rows : Times(r) <= 1
=============================================================================
