--------------------------- MODULE SinkCheckpoint ---------------------------
(***************************************************************************)
(* A file sink with the three that call it: the drive that writes to it,   *)
(* the error policy that skips numbers, and the checkpoint thread, which   *)
(* reads the watermark and then the state (checkpoint_now of               *)
(* crates/moruna-scheduler/src/checkpoint.rs); and the resume that starts  *)
(* again from the pair (apply_resume_point of lifecycle.rs).               *)
(*                                                                         *)
(* The drive may be any that gives the sink each number at most once and   *)
(* none it has skipped, in whatever order and with any number of writes    *)
(* open.  SinkDrive is the one of the scheduler.                           *)
(***************************************************************************)
EXTENDS FileSink

CONSTANT MaxManifests  \* bound: how often a behaviour writes a manifest

ASSUME SinkCheckpointAssumption == MaxManifests \in Nat

VARIABLES
  given,     \* the numbers written or skipped in this life, or settled before it
  skipped,   \* the numbers skipped, of those the sink will not see again
  marks,     \* every value committed_seq has had in this life
  seen,      \* the watermark the checkpoint has read, or None
  saved,     \* what the last manifest holds of the sink: [watermark, doc], or None
  manifests, \* how many manifests have been written
  resumes    \* how often the run has been resumed

checkpointVars == <<given, skipped, seen, saved, manifests, resumes>>
scVars == <<sinkVars, checkpointVars, marks>>

Init ==
  /\ SinkInit
  /\ given = {}
  /\ skipped = {}
  /\ marks = {CommittedSeq}
  /\ seen = None
  /\ saved = None
  /\ manifests = 0
  /\ resumes = 0

\* finish has the sink to itself: it takes the guard every other call shares,
\* once every write has resolved.
Finishing == \E p \in puts : p.by = "finish"

Write(i, roll) ==
  /\ ~Finishing
  /\ SeqOf[i] \notin given
  /\ given' = given \cup {SeqOf[i]}
  /\ Encode(i, roll)
  /\ UNCHANGED <<skipped, seen, saved, manifests, resumes>>

WriteFails ==
  /\ EncodeFails
  /\ UNCHANGED checkpointVars

\* apply_policy tells the sink of a morsel it drops.
Skip(n) ==
  /\ ~Finishing
  /\ n \notin given
  /\ given' = given \cup {n}
  /\ skipped' = skipped \cup {n}
  /\ SinkSkip(n)
  /\ UNCHANGED <<seen, saved, manifests, resumes>>

StoreStep ==
  /\ \E p \in puts : PutLands(p) \/ PutFails(p) \/ Commit(p) \/ PutRefused(p)
  /\ UNCHANGED checkpointVars

FlushStep ==
  /\ ~Finishing
  /\ Flush \/ FlushFails
  /\ UNCHANGED checkpointVars

FinishStep ==
  /\ \/ puts = {} /\ (FinishRoll \/ FinishFails)
     \/ \E marked \in BOOLEAN : \/ puts = {} /\ FinishClosed(marked)
                                \/ \E p \in puts : FinishCommit(p, marked)
  /\ UNCHANGED checkpointVars

\* Mutant: the number is taken before it is held back.
ReadWatermarkAhead ==
  /\ seen = None
  /\ manifests < MaxManifests
  /\ seen' = [watermark |-> contiguousNext - 1]
  /\ UNCHANGED <<sinkVars, given, skipped, saved, manifests, resumes>>

\* checkpoint_now reads committed.reached: a committed_seq that some thread has
\* read after a write or a skip of this life, ...
ReadWatermark ==
  /\ seen = None
  /\ manifests < MaxManifests
  /\ \E w \in marks : seen' = [watermark |-> w]
  /\ UNCHANGED <<sinkVars, given, skipped, saved, manifests, resumes>>

\* ... and then the sink's state; the pair goes into the manifest.
ReadState ==
  /\ ~Finishing
  /\ seen # None
  /\ saved' = [watermark |-> seen.watermark, doc |-> Document]
  /\ seen' = None
  /\ manifests' = manifests + 1
  /\ UNCHANGED <<sinkVars, given, skipped, resumes>>

\* The process is gone at any moment, and the run is resumed from the manifest.
Resume ==
  /\ saved # None
  /\ resumes < MaxResumes
  /\ resumes' = resumes + 1
  /\ SinkResume(saved.doc, saved.watermark)
  /\ given' = 0 .. saved.watermark
  /\ skipped' = skipped \cap (0 .. saved.watermark)
  /\ marks' = {saved.watermark}
  /\ seen' = None
  /\ UNCHANGED <<saved, manifests>>

\* A step of one life of the run.
LifeStep ==
  \/ \E i \in Item : Write(i, TRUE) \/ Write(i, FALSE)
  \/ WriteFails
  \/ \E n \in Seq0 : Skip(n)
  \/ StoreStep
  \/ FlushStep
  \/ FinishStep
  \/ ReadWatermark
  \/ ReadState

Next ==
  \/ LifeStep /\ marks' = marks \cup {watermarkNext' - 1}
  \/ Resume

Spec == Init /\ [][Next]_scVars
-----------------------------------------------------------------------------
TypeOK ==
  /\ phase \in {"open", "failed", "finished"}
  /\ committed \in SUBSET [name : Nat, seqs : SUBSET Seq0]
  /\ nextIndex \in Nat
  /\ done \subseteq Seq0
  /\ contiguousNext \in 0 .. N
  /\ openRanges \subseteq committed
  /\ watermarkNext \in 0 .. N
  /\ current \in [name : Nat, data : SUBSET Item] \cup {None}
  /\ puts \in SUBSET [name : Nat, data : SUBSET Item,
                      by : {"write", "flush", "finish", "nobody"},
                      put : {"sent", "stored", "refused"}]
  /\ dest \in SUBSET [name : Nat, data : SUBSET Item]
  /\ given \subseteq Seq0
  /\ skipped \subseteq given
  /\ marks \subseteq -1 .. N - 1
  /\ seen \in [watermark : -1 .. N - 1] \cup {None}
  /\ saved \in [watermark : -1 .. N - 1,
                doc : [committed : SUBSET [name : Nat, seqs : SUBSET Seq0], nextIndex : Nat]]
               \cup {None}
  /\ manifests \in Nat
  /\ resumes \in Nat

\* Number n is in the store in a file of the set, or the sink was told to skip it.
Settled(n, files) ==
  \/ n \in skipped
  \/ \E f \in files : n \in f.seqs /\ \E d \in dest : d.name = f.name /\ n \in Seqs(d.data)

(* committed_seq never overstates: everything at or below it is in a        *)
(* committed file that is in the store, or was skipped (SI-I8).             *)
NeverOverstates == \A n \in 0 .. CommittedSeq : Settled(n, committed)

(* No committed file holds numbers on both sides of the watermark, however  *)
(* late a number arrives (the second half of SI-I8).                        *)
NoFileStraddles == \A f \in committed : ~Straddles(f, watermarkNext)

(* The manifest a resume starts from is one restore accepts, and everything *)
(* at or below its watermark is in a file it keeps.                         *)
ManifestKeepsOutput ==
  saved # None =>
    /\ Accepts(saved.doc, saved.watermark)
    /\ \A n \in 0 .. saved.watermark : Settled(n, Kept(saved.doc, saved.watermark))

(* No number is in two files of the store at once, across resumes.          *)
WrittenOnce ==
  \A d, e \in dest : \A i \in d.data, j \in e.data : SeqOf[i] = SeqOf[j] => d = e

(* advance's debug_assert: the watermark is always the greatest number that *)
(* no open file straddles, so taking the maximum with the last one never    *)
(* changes it, whatever was committed or skipped in between.                *)
NeverClamped == watermarkNext = HeldBack(contiguousNext, openRanges)
=============================================================================
