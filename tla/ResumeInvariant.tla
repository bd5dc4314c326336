-------------------------- MODULE ResumeInvariant ---------------------------
(***************************************************************************)
(* The inductive invariant of RunResume: its types, which hold whatever a  *)
(* run was resumed from, and what holds when every resume started from a   *)
(* complete manifest.                                                      *)
(***************************************************************************)
EXTENDS RunResume, LedgerProofs

-----------------------------------------------------------------------------
(* The state of the sink, of the run and of the checkpoint: types, and the *)
(* numbers that are given once whatever a run was resumed from.            *)

Cursors == [row : 0 .. NRows, seq : 0 .. N]
Files == [name : Nat, seqs : SUBSET Seq0]
OpenFiles == [name : Nat, data : SUBSET Item]
PutFiles == [name : Nat, data : SUBSET Item, by : {"write", "flush", "finish"}, put : {"sent", "stored"}]
Documents == [committed : SUBSET Files, nextIndex : Nat]
Records == [item : Item, at : SUBSET (0 .. 1), committed : BOOLEAN]
Pushes == [item : Item, stage : 0 .. 1]
ManifestRows == [item : Item, at : SUBSET (0 .. 1), disk : BOOLEAN]
Gathered == [portable : BOOLEAN, committed : -1 .. N - 1, doc : Documents \cup {None},
             cursor : Cursors \cup {None}, issued : SUBSET Item]
Manifests == [portable : BOOLEAN, fellBack : BOOLEAN, committed : -1 .. N - 1, doc : Documents,
              cursor : Cursors, issued : SUBSET Item, rows : SUBSET ManifestRows]

\* How far the checkpoint is.
HasMark == ckpt \in {"state", "cursor", "manifest"}
HasDoc == ckpt \in {"cursor", "manifest"}
HasCursor == ckpt = "manifest"

One(S) == \A i, j \in S : i.seq = j.seq => i = j
OneEach(S) == \A x, y \in S : x.item.seq = y.item.seq => x = y

SinkOK ==
  /\ phase \in {"open", "finished"}
  /\ committed \in SUBSET Files /\ nextIndex \in Nat
  /\ done \in SUBSET Seq0 /\ contiguousNext \in 0 .. N
  /\ openRanges \subseteq committed /\ watermarkNext \in 0 .. contiguousNext
  /\ current = None \/ current \in OpenFiles
  /\ puts \in SUBSET PutFiles
  /\ dest \in SUBSET OpenFiles

PipeOK ==
  /\ cursor \in Cursors /\ cursor.seq <= cursor.row
  /\ issued \in SUBSET Item /\ One(issued)
  /\ again \subseteq issued /\ landed \subseteq issued /\ landed \cap again = {}
  /\ q \in [0 .. 1 -> SUBSET Item]
  /\ work \in SUBSET Item /\ dropped \in SUBSET Item
  /\ pushing \in SUBSET Pushes
  /\ ended \in BOOLEAN

IndexOK ==
  /\ lineage \in SUBSET Records /\ OneEach(lineage)
  /\ engine \in -1 .. N - 1 /\ reached \in -1 .. N - 1
  /\ engine <= reached /\ reached < watermarkNext

CkptOK ==
  /\ ckpt \in {"idle", "flush", "flushed", "watermark", "state", "cursor", "manifest"}
  /\ manifests \in 0 .. MaxManifests
  /\ (extras = None) <=> (ckpt = "idle")
  /\ extras # None => extras \in Gathered /\ One(extras.issued)
  /\ HasDoc => extras.doc \in Documents
  /\ HasCursor => extras.cursor \in Cursors /\ extras.cursor.seq <= extras.cursor.row

LifeOK ==
  /\ floor \in -1 .. N - 1
  /\ resumes \in 0 .. MaxResumes
  /\ sound \in BOOLEAN
  /\ manifest # None =>
       /\ manifest \in Manifests /\ manifest.cursor.seq <= manifest.cursor.row
       /\ One(manifest.issued) /\ OneEach(manifest.rows)

TypeInv == SinkOK /\ PipeOK /\ IndexOK /\ CkptOK /\ LifeOK

-----------------------------------------------------------------------------
(* Where a morsel is *)

Opened == IF current = None THEN {} ELSE current.data
Rolled == UNION {p.data : p \in puts}
Stored == UNION {d.data : d \in dest}
Moving == q[0] \cup q[1] \cup work
Sunk == Opened \cup Rolled \cup Stored \cup dropped
Known == issued \cup Moving \cup Sunk

\* The morsels the ledger has not counted.
Aloft == (issued \ landed) \cup Moving \cup Opened \cup Rolled

Distinct(S) == \A i, j \in S : i # j => i.seq # j.seq /\ i.rows \cap j.rows = {}

\* The morsels of S with a number below c's are of rows below it, the others of rows from it on.
Divides(c, S) == \A i \in S : IF i.seq < c.seq THEN i.rows \subseteq 0 .. c.row - 1
                                               ELSE i.rows \cap (0 .. c.row - 1) = {}

\* Every row before the cursor is of one morsel, and the morsels are numbered in turn.
ItemsOK ==
  /\ Distinct(Known)
  /\ \A i \in Known : i.rows # {}
  /\ \A i \in Known : i.seq < cursor.seq /\ i.rows \subseteq 0 .. cursor.row - 1
  /\ \A r \in 0 .. cursor.row - 1 : \E i \in Known : r \in i.rows

\* A morsel is in one place; a read that was pushed is kept until it is forgotten.
PlacesOK ==
  /\ q[0] \cap q[1] = {} /\ work \cap (q[0] \cup q[1]) = {}
  /\ Moving \cap Sunk = {}
  /\ (issued \ landed) \cap (Moving \cup Sunk) = {}
  /\ landed \subseteq Moving \cup Sunk
  /\ Opened \cap (Rolled \cup Stored) = {}
  /\ dropped \cap (Opened \cup Rolled \cup Stored) = {}

\* A name is used for one file, and a file that is recorded is in the store.
FilesOK ==
  /\ \A d, e \in dest : d.name = e.name => d = e
  /\ \A p, o \in puts : p.name = o.name => p = o
  /\ \A p \in puts : IF p.put = "stored" THEN [name |-> p.name, data |-> p.data] \in dest
                                         ELSE \A d \in dest : d.name # p.name
  /\ \A x \in committed \cup puts \cup dest : x.name < nextIndex
  /\ current # None =>
       current.name < nextIndex /\ \A x \in committed \cup puts \cup dest : x.name # current.name
  /\ \A f \in committed : /\ \A p \in puts : p.name # f.name
                          /\ \E d \in dest : d.name = f.name /\ Seqs(d.data) = f.seqs
  /\ \A d \in dest : \/ \E f \in committed : f.name = d.name
                     \/ \E p \in puts : p.name = d.name

\* No morsel is in two files.
ContentsOK ==
  /\ \A d, e \in dest : d # e => d.data \cap e.data = {}
  /\ \A p, o \in puts : p # o => p.data \cap o.data = {}
  /\ \A p \in puts, d \in dest : p.name # d.name => p.data \cap d.data = {}

\* The ledger has counted no morsel that is still to be written or recorded.
CountsOK ==
  /\ contiguousNext <= cursor.seq /\ \A n \in done : n < cursor.seq
  /\ \A i \in Aloft : i.seq \notin Counted
  /\ floor < contiguousNext

\* No recorded file lies on both sides of a watermark that someone may have read.
MarksOK ==
  /\ \A f \in committed \ openRanges : \A b \in f.seqs : b < watermarkNext
  /\ \A f \in committed : ~Straddles(f, watermarkNext) /\ ~Straddles(f, reached + 1)
                          /\ ~Straddles(f, engine + 1)

\* Morsel i has a record, or is at or below watermark w.
Traced(i, w) == HasRecord(i) \/ i.seq <= w

\* The push of read i is not in the lineage yet.
Unrecorded(i) == [item |-> i, stage |-> 0] \in pushing

\* Above w, what is no longer a read has a record.
AllTraced(w) ==
  /\ \A i \in Known \ issued : Traced(i, w)
  /\ \A i \in landed : Unrecorded(i) \/ Traced(i, w)

\* A read is forgotten only when the lineage has the morsel, and that keeps it until it is committed.
LineageOK ==
  /\ \A x \in lineage : x.item \in Known /\ x.at # {} /\ (x.committed => x.item.seq <= engine)
  /\ \A p \in pushing : p.item \in Known
  /\ AllTraced(engine)

-----------------------------------------------------------------------------
(* The checkpoint under way *)

\* With the watermark: what is above it and no longer a read has a record.
MarkRead ==
  /\ extras.committed <= reached
  /\ \A f \in committed : ~Straddles(f, extras.committed + 1)
  /\ AllTraced(extras.committed)

\* With the sink's state: a file with a morsel at or below the watermark is in it.
DocRead ==
  /\ extras.doc.committed \subseteq committed
  /\ extras.doc.nextIndex <= nextIndex
  /\ \A f \in extras.doc.committed : f.name < extras.doc.nextIndex
  /\ \A d \in dest : (\E i \in d.data : i.seq <= extras.committed) =>
                        \E f \in extras.doc.committed : f.name = d.name

\* With the cursor: a read behind it that was not issued any more has a record.
CursorRead ==
  /\ extras.cursor.seq <= cursor.seq /\ extras.cursor.row <= cursor.row
  /\ extras.committed < extras.cursor.seq
  /\ extras.issued \subseteq Known
  /\ \A i \in extras.issued : i.seq < extras.cursor.seq
  /\ Divides(extras.cursor, Known)
  /\ \A i \in Known \ extras.issued : i.seq < extras.cursor.seq => Traced(i, extras.committed)

GatheredOK == (HasMark => MarkRead) /\ (HasDoc => DocRead) /\ (HasCursor => CursorRead)

\* Behind the barrier nothing moves but the file the checkpoint flushes.
BarrierOK ==
  Barrier =>
    /\ landed = {} /\ work = {} /\ pushing = {}
    /\ ckpt # "flushed" => puts = {}
    /\ ckpt \notin {"flush", "flushed"} => engine = reached
    /\ HasMark => extras.committed = reached
    /\ HasCursor => extras.cursor = cursor /\ extras.issued = issued

-----------------------------------------------------------------------------
(* The end of the run, and the manifest *)

Drained == current = None /\ issued = {} /\ Moving = {} /\ cursor.row = NRows

FinishOK ==
  /\ \A p \in puts : p.by = "finish" => puts = {p} /\ Drained
  /\ phase = "finished" => puts = {} /\ Drained

\* The files a resume from m keeps, the morsels it finds settled, and those it brings back.
KeptFiles(m) == {d \in dest : \E k \in Kept(m.doc, m.committed) : k.name = d.name}
SkippedBy(m) == {i \in dropped : i.seq <= m.committed}
SettledBy(m) == (UNION {d.data : d \in KeptFiles(m)}) \cup SkippedBy(m)
Listed(m) == {x.item : x \in m.rows} \cup m.issued

\* What a manifest says of the morsels, whoever wrote it.
ListsOK(m) ==
  /\ \A i \in Listed(m) : i.seq > m.committed /\ i.rows # {}
  /\ \A i \in SettledBy(m) : i.seq <= m.committed
  /\ Distinct(Listed(m) \cup SettledBy(m))
  /\ Divides(m.cursor, Listed(m) \cup SettledBy(m))
  /\ \A i \in m.issued : i.seq < m.cursor.seq
  /\ \A x \in m.rows : x.disk => \E s \in 0 .. 1 : x.at = {s}
  /\ ~m.fellBack =>
       /\ m.committed < m.cursor.seq
       /\ \A r \in 0 .. m.cursor.row - 1 : \E i \in Listed(m) \cup SettledBy(m) : r \in i.rows
  /\ m.portable => ~m.fellBack /\ \A x \in m.rows : x.item.seq < m.cursor.seq

\* The files of a manifest are not written again.
KeepsOK(m) ==
  /\ m.committed < watermarkNext
  /\ m.doc.nextIndex <= nextIndex
  /\ \A f \in m.doc.committed :
       /\ f.name < m.doc.nextIndex
       /\ current # None => current.name # f.name
       /\ \A p \in puts : p.name # f.name
       /\ \A d \in dest : d.name = f.name => Seqs(d.data) = f.seqs
  /\ \A f \in Kept(m.doc, m.committed) : \E d \in dest : d.name = f.name

ManifestOK == manifest # None => ListsOK(manifest) /\ KeepsOK(manifest)

SoundInv ==
  /\ ItemsOK /\ PlacesOK /\ FilesOK /\ ContentsOK /\ CountsOK /\ MarksOK /\ LineageOK
  /\ GatheredOK /\ BarrierOK /\ FinishOK /\ ManifestOK

RunInv == TypeInv /\ (sound => SoundInv)
=============================================================================
