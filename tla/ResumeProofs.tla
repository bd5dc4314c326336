---------------------------- MODULE ResumeProofs ----------------------------
(***************************************************************************)
(* Proofs about RunResume, for any source, any cutting of it into morsels, *)
(* any number of checkpoints of both kinds and any number of crashes: what *)
(* a manifest names, and that a run whose resumes start from complete      *)
(* manifests delivers every row exactly once.                              *)
(***************************************************************************)
EXTENDS ResumeSteps

USE ZenonT(3), SMTT(30)

-----------------------------------------------------------------------------
(* The manifest *)

\* What a manifest keeps of the output, morsel by morsel.
LEMMA SettledIs ==
  ASSUME NEW m, NEW i
  PROVE  i \in SettledBy(m) <=> i \in SkippedBy(m) \/ \E d \in KeptFiles(m) : i \in d.data
<1> DEFINE held == UNION {d.data : d \in KeptFiles(m)}
<1>1. i \in held <=> \E d \in KeptFiles(m) : i \in d.data
  OBVIOUS
<1>2. SettledBy(m) = held \cup SkippedBy(m)
  BY DEF SettledBy
<1> HIDE DEF held
<1> QED BY <1>1, <1>2

\* The run goes on beside a manifest: what it keeps stays in the store, under its name.
LEMMA ManifestKept ==
  ASSUME TypeInv, TypeInv', SoundInv, Carries, NEW m \in Manifests, ListsOK(m), KeepsOK(m)
  PROVE  ListsOK(m)' /\ KeepsOK(m)'
<1>1. /\ m.committed \in Int /\ m.doc.nextIndex \in Nat /\ m.doc.committed \in SUBSET Files
  BY FileSinkAssumption DEF Manifests, Documents
<1>2. /\ nextIndex <= nextIndex' /\ watermarkNext <= watermarkNext'
      /\ dest \subseteq dest' /\ dropped \subseteq dropped'
      /\ \A d \in dest' \ dest : \E p \in puts : d.name = p.name /\ d.data = p.data
      /\ \A i \in dropped' \ dropped : i \in Aloft
      /\ \A p \in puts' : \/ \E o \in puts : p.name = o.name
                          \/ current # None /\ p.name = current.name
                          \/ p.name >= nextIndex
      /\ current' # None => \/ current # None /\ current'.name = current.name
                            \/ current'.name >= nextIndex
  BY DEF Carries, Grow
<1>3. /\ nextIndex \in Nat /\ nextIndex' \in Nat /\ watermarkNext \in Nat /\ watermarkNext' \in Nat
      /\ \A p \in puts' : p.name \in Nat
      /\ current' # None => current'.name \in Nat
  BY DEF TypeInv, SinkOK, PutFiles, OpenFiles
<1>4. /\ m.committed < watermarkNext /\ m.doc.nextIndex <= nextIndex
      /\ \A f \in m.doc.committed :
           /\ f.name < m.doc.nextIndex
           /\ current # None => current.name # f.name
           /\ \A p \in puts : p.name # f.name
           /\ \A d \in dest : d.name = f.name => Seqs(d.data) = f.seqs
      /\ \A f \in Kept(m.doc, m.committed) : \E d \in dest : d.name = f.name
  BY DEF KeepsOK
<1>5. Kept(m.doc, m.committed) \subseteq m.doc.committed
  BY DEF Kept
<1>6. KeptFiles(m)' = KeptFiles(m)
  <2>1. \A d \in dest' \ dest : \A f \in m.doc.committed : d.name # f.name
    BY <1>2, <1>4
  <2> QED BY <1>2, <1>5, <2>1 DEF KeptFiles
<1>7. SkippedBy(m)' = SkippedBy(m)
  <2>1. \A i \in Aloft : ~(i.seq <= m.committed)
    BY <1>1, <1>3, <1>4, PutsAbove
  <2> QED BY <1>2, <2>1 DEF SkippedBy
<1>8. SettledBy(m)' = SettledBy(m)
  BY <1>6, <1>7 DEF SettledBy
<1>9. ListsOK(m)'
  BY <1>8 DEF ListsOK, Listed, Distinct, Divides
<1>10. m.committed < watermarkNext' /\ m.doc.nextIndex <= nextIndex'
  BY <1>1, <1>2, <1>3, <1>4
<1>11. ASSUME NEW f \in m.doc.committed
       PROVE  /\ f.name < m.doc.nextIndex
              /\ current' # None => current'.name # f.name
              /\ \A p \in puts' : p.name # f.name
              /\ \A d \in dest' : d.name = f.name => Seqs(d.data) = f.seqs
  <2>1. f.name \in Nat /\ f.name < m.doc.nextIndex /\ m.doc.nextIndex <= nextIndex
    BY <1>1, <1>4 DEF Files
  <2>2. \A n \in Nat : n >= nextIndex => n # f.name
    BY <1>1, <1>3, <2>1
  <2>3. /\ current # None => current.name # f.name
        /\ \A p \in puts : p.name # f.name
        /\ \A d \in dest : d.name = f.name => Seqs(d.data) = f.seqs
    BY <1>4
  <2>4. current' # None => current'.name # f.name
    BY <1>2, <1>3, <2>2, <2>3
  <2>5. \A p \in puts' : p.name # f.name
    BY <1>2, <1>3, <2>2, <2>3
  <2>6. \A d \in dest' : d.name = f.name => Seqs(d.data) = f.seqs
    BY <1>2, <2>3
  <2> QED BY <2>1, <2>4, <2>5, <2>6
<1>12. \A f \in Kept(m.doc, m.committed) : \E d \in dest' : d.name = f.name
  BY <1>2, <1>4
<1>13. KeepsOK(m)'
  BY <1>10, <1>11, <1>12 DEF KeepsOK
<1> QED BY <1>9, <1>13

\* What checkpoint_now has read when it writes the manifest, by the watermark it goes by.
LEMMA MarkFacts ==
  ASSUME TypeInv, SoundInv, WriteManifest
  PROVE  /\ extras \in Gathered /\ extras.doc \in Documents /\ extras.cursor \in Cursors
         /\ MarkRead /\ DocRead /\ CursorRead
         /\ Mark \in Int /\ Mark <= reached /\ Mark < watermarkNext
         /\ \A f \in committed : ~Straddles(f, Mark + 1)
         /\ extras.portable => Mark = extras.committed /\ extras.cursor = cursor
<1>1. ckpt = "manifest" /\ CkptOK /\ GatheredOK /\ BarrierOK
  BY DEF WriteManifest, CkptStep, TypeInv, SoundInv
<1>2. extras # None /\ extras \in Gathered /\ extras.doc \in Documents /\ extras.cursor \in Cursors
  BY <1>1 DEF CkptOK, HasDoc, HasCursor
<1>3. MarkRead /\ DocRead /\ CursorRead
  BY <1>1 DEF GatheredOK, HasMark, HasDoc, HasCursor
<1>4. /\ extras.committed \in Int /\ engine \in Int /\ reached \in Int /\ watermarkNext \in Nat
      /\ engine <= reached /\ reached < watermarkNext
  BY <1>2, FileSinkAssumption DEF Gathered, TypeInv, IndexOK, SinkOK
<1>5. Mark \in Int /\ Mark <= reached /\ Mark < watermarkNext
  BY <1>3, <1>4 DEF Mark, MarkRead
<1>6. \A f \in committed : ~Straddles(f, Mark + 1)
  BY <1>3 DEF Mark, MarkRead, SoundInv, MarksOK
<1>7. extras.portable => engine = reached /\ extras.committed = reached /\ extras.cursor = cursor
  BY <1>1, <1>2 DEF BarrierOK, Barrier, HasMark, HasCursor
<1>8. extras.portable => Mark = extras.committed /\ extras.cursor = cursor
  BY <1>7 DEF Mark
<1> QED BY <1>2, <1>3, <1>5, <1>6, <1>8

\* The files the manifest keeps are the recorded ones at or below its watermark.
LEMMA WrittenKeeps ==
  ASSUME TypeInv, SoundInv, WriteManifest, NEW m \in Manifests, m.committed = Mark, m.doc = extras.doc
  PROVE  /\ KeepsOK(m)
         /\ \A i \in SettledBy(m) : i.seq <= m.committed
         /\ SettledBy(m) \subseteq Known
<1>1. DocRead /\ FilesOK /\ Mark < watermarkNext
  BY MarkFacts DEF SoundInv
<1>2. /\ m.doc.committed \subseteq committed /\ m.doc.nextIndex <= nextIndex
      /\ \A f \in m.doc.committed : f.name < m.doc.nextIndex
  BY <1>1 DEF DocRead
<1>3. ASSUME NEW f \in committed
      PROVE  /\ current # None => current.name # f.name
             /\ \A p \in puts : p.name # f.name
             /\ \A d \in dest : d.name = f.name => Seqs(d.data) = f.seqs
             /\ \E d \in dest : d.name = f.name
  <2>1. PICK e \in dest : e.name = f.name /\ Seqs(e.data) = f.seqs
    BY <1>1 DEF FilesOK
  <2>2. \A d \in dest : d.name = f.name => d = e
    BY <1>1, <2>1 DEF FilesOK
  <2>3. (current # None => current.name # f.name) /\ \A p \in puts : p.name # f.name
    BY <1>1 DEF FilesOK
  <2> QED BY <2>1, <2>2, <2>3
<1>4. Kept(m.doc, m.committed) \subseteq m.doc.committed
  BY DEF Kept
<1>5. KeepsOK(m)
  BY <1>1, <1>2, <1>3, <1>4 DEF KeepsOK
<1>6. ASSUME NEW d \in KeptFiles(m), NEW i \in d.data PROVE i.seq <= m.committed /\ i \in Known
  <2>1. PICK k \in Kept(m.doc, m.committed) : k.name = d.name
    BY DEF KeptFiles
  <2>2. d \in dest /\ k \in committed /\ \A n \in k.seqs : n <= m.committed
    BY <1>2, <2>1 DEF KeptFiles, Kept
  <2>3. Seqs(d.data) = k.seqs
    BY <1>3, <2>1, <2>2
  <2>4. i \in Known
    BY <2>2 DEF Known, Sunk, Stored
  <2>5. i \in Item /\ SeqOf[i] = i.seq
    BY <2>4, AloftAbove, ItemFacts
  <2>6. i.seq \in Seqs(d.data)
    BY <2>5 DEF Seqs
  <2> QED BY <2>2, <2>3, <2>4, <2>6
<1>7. \A i \in SkippedBy(m) : i.seq <= m.committed /\ i \in Known
  BY DEF SkippedBy, Known, Sunk
<1>8. \A i \in SettledBy(m) : i.seq <= m.committed /\ i \in Known
  <2>1. \A i \in SettledBy(m) : i \in SkippedBy(m) \/ \E d \in KeptFiles(m) : i \in d.data
    BY SettledIs
  <2> QED BY <1>6, <1>7, <2>1
<1> QED BY <1>5, <1>8

\* A morsel at or below the watermark that was read first is in a kept file or was dropped.
LEMMA WrittenSettles ==
  ASSUME TypeInv, SoundInv, WriteManifest, Mark = extras.committed,
         NEW m \in Manifests, m.committed = Mark, m.doc = extras.doc,
         NEW i \in Known, i.seq <= Mark
  PROVE  i \in SettledBy(m)
<1>1. /\ DocRead /\ FilesOK /\ PlacesOK /\ Mark \in Int /\ Mark <= reached
      /\ \A f \in committed : ~Straddles(f, Mark + 1)
  BY MarkFacts DEF SoundInv
<1>2. i \in Item /\ i.seq \in Nat /\ SeqOf[i] = i.seq
  BY AloftAbove, ItemFacts
<1>3. i \notin Aloft
  BY <1>1, <1>2, PutsAbove
<1>4. i \in Stored \cup dropped
  BY <1>1, <1>3 DEF Known, Sunk, Aloft, PlacesOK
<1>5. CASE i \in dropped
  <2>1. i \in SkippedBy(m)
    BY <1>5 DEF SkippedBy
  <2> QED BY <2>1, SettledIs
<1>6. CASE i \in Stored
  <2>1. PICK d \in dest : i \in d.data
    BY <1>6 DEF Stored
  <2>2. PICK f \in m.doc.committed : f.name = d.name
    BY <1>1, <2>1 DEF DocRead
  <2>3. f \in committed
    BY <1>1, <2>2 DEF DocRead
  <2>4. Seqs(d.data) = f.seqs /\ f.seqs \subseteq Nat
    <3>1. PICK e \in dest : e.name = f.name /\ Seqs(e.data) = f.seqs
      BY <1>1, <2>3 DEF FilesOK
    <3>2. e = d
      BY <1>1, <2>2, <3>1 DEF FilesOK
    <3>3. f \in Files
      BY <2>3 DEF TypeInv, SinkOK
    <3>4. f.seqs \subseteq Nat
      BY <3>3 DEF Files, Seq0
    <3> QED BY <3>1, <3>2, <3>4
  <2>5. i.seq \in f.seqs
    BY <1>2, <2>1, <2>4 DEF Seqs
  <2>6. i.seq < Mark + 1 /\ ~Straddles(f, Mark + 1)
    BY <1>1, <1>2, <2>3
  <2>7. \A n \in f.seqs : ~(Mark + 1 <= n)
    BY <2>5, <2>6 DEF Straddles
  <2>8. \A n \in f.seqs : n <= Mark
    BY <1>1, <2>4, <2>7
  <2>9. Mark # -1
    BY <1>1, <1>2
  <2>10. f \in Kept(m.doc, m.committed)
    BY <2>2, <2>8, <2>9 DEF Kept
  <2> QED BY <2>1, <2>2, <2>10, SettledIs DEF KeptFiles
<1> QED BY <1>4, <1>5, <1>6

\* A record whose every position is a waiting entry has one position.
LEMMA OnDiskOnce ==
  ASSUME TypeInv, SoundInv, NEW r \in lineage, \A s \in r.at : OnQueue(r.item, s)
  PROVE  \E s \in 0 .. 1 : r.at = {s}
<1>1. r.at \in SUBSET (0 .. 1) /\ r.at # {}
  BY DEF TypeInv, IndexOK, Records, SoundInv, LineageOK
<1>2. ASSUME 0 \in r.at, 1 \in r.at PROVE FALSE
  <2>1. OnQueue(r.item, 0) /\ OnQueue(r.item, 1)
    BY <1>2
  <2>2. PICK j \in q[0] : j.seq = r.item.seq
    BY <2>1 DEF OnQueue, WithSeq
  <2>3. PICK k \in q[1] : k.seq = r.item.seq
    BY <2>1 DEF OnQueue, WithSeq
  <2>4. j \in Known /\ k \in Known
    BY DEF Known, Moving
  <2>5. j = k
    BY <2>2, <2>3, <2>4 DEF SoundInv, ItemsOK, Distinct
  <2> QED BY <2>5 DEF SoundInv, PlacesOK
<1>3. r.at \subseteq {0, 1}
  BY <1>1
<1>4. r.at = {0} \/ r.at = {1}
  BY <1>1, <1>2, <1>3
<1> QED BY <1>4, Stages

\* What write_manifest writes.
LEMMA WrittenLists ==
  ASSUME TypeInv, SoundInv, WriteManifest, NEW m, m = manifest'
  PROVE  ListsOK(m)
<1> DEFINE w == Mark
           c == extras.cursor
<1>1. /\ m \in Manifests
      /\ m.portable = extras.portable
      /\ m.fellBack = (Mark # extras.committed) /\ m.committed = Mark
      /\ m.doc = extras.doc /\ m.cursor = extras.cursor
      /\ m.issued = {i \in extras.issued : i.seq > Mark}
      /\ \A x \in m.rows : \E r \in lineage :
           /\ r.item.seq > Mark /\ x.item = r.item /\ x.at = r.at
           /\ x.disk => \A s \in r.at : OnQueue(r.item, s)
      /\ \A r \in lineage : r.item.seq > Mark => \E x \in m.rows : x.item = r.item
  BY ManifestFacts
<1>2. /\ c \in Cursors /\ MarkRead /\ CursorRead /\ Mark \in Int
      /\ extras.portable => Mark = extras.committed /\ c = cursor
  BY MarkFacts
<1>3. /\ Distinct(Known) /\ \A i \in Known : i.rows # {} /\ i.seq < cursor.seq
      /\ \A r \in 0 .. cursor.row - 1 : \E i \in Known : r \in i.rows
  BY DEF SoundInv, ItemsOK
<1>4. \A r \in lineage : r.item \in Known
  BY DEF SoundInv, LineageOK
<1>5. /\ extras.issued \subseteq Known /\ Divides(c, Known)
      /\ \A i \in extras.issued : i.seq < c.seq
      /\ c.row <= cursor.row /\ extras.committed < c.seq
      /\ \A i \in Known \ extras.issued : i.seq < c.seq => Traced(i, extras.committed)
  BY <1>2 DEF CursorRead
<1>6. Listed(m) \subseteq Known /\ \A i \in Listed(m) : i.seq > m.committed
  BY <1>1, <1>4, <1>5 DEF Listed
<1>7. SettledBy(m) \subseteq Known /\ \A i \in SettledBy(m) : i.seq <= m.committed
  BY <1>1, WrittenKeeps
<1>8. \A i \in Listed(m) : i.seq > m.committed /\ i.rows # {}
  BY <1>3, <1>6
<1>9. Distinct(Listed(m) \cup SettledBy(m)) /\ Divides(m.cursor, Listed(m) \cup SettledBy(m))
  <2>1. Listed(m) \cup SettledBy(m) \subseteq Known
    BY <1>6, <1>7
  <2> QED BY <1>1, <1>3, <1>5, <2>1 DEF Distinct, Divides
<1>10. \A i \in m.issued : i.seq < m.cursor.seq
  BY <1>1, <1>5
<1>11. ASSUME NEW x \in m.rows, x.disk PROVE \E s \in 0 .. 1 : x.at = {s}
  <2>1. PICK r \in lineage : x.at = r.at /\ \A s \in r.at : OnQueue(r.item, s)
    BY <1>1, <1>11
  <2>2. \E s \in 0 .. 1 : r.at = {s}
    BY <2>1, OnDiskOnce
  <2> QED BY <2>1, <2>2
<1>12. ASSUME ~m.fellBack
       PROVE  /\ m.committed < m.cursor.seq
              /\ \A r \in 0 .. m.cursor.row - 1 : \E i \in Listed(m) \cup SettledBy(m) : r \in i.rows
  <2>1. Mark = extras.committed
    BY <1>1, <1>12
  <2>2. m.committed < m.cursor.seq
    BY <1>1, <1>5, <2>1
  <2>3. ASSUME NEW r \in 0 .. c.row - 1 PROVE \E i \in Listed(m) \cup SettledBy(m) : r \in i.rows
    <3>1. r \in 0 .. cursor.row - 1
      BY <1>2, <1>5 DEF Cursors, TypeInv, PipeOK
    <3>2. PICK i \in Known : r \in i.rows
      BY <1>3, <3>1
    <3>3. i.seq < c.seq
      BY <1>5, <3>2 DEF Divides
    <3>4. CASE i.seq <= Mark
      BY <1>1, <2>1, <3>2, <3>4, WrittenSettles
    <3>5. CASE ~(i.seq <= Mark)
      <4>1. i.seq \in Nat
        BY AloftAbove
      <4>2. i.seq > Mark
        BY <1>2, <3>5, <4>1
      <4>3. CASE i \in extras.issued
        BY <1>1, <3>2, <4>2, <4>3 DEF Listed
      <4>4. CASE i \notin extras.issued
        <5>1. PICK x \in lineage : x.item.seq = i.seq
          BY <1>5, <2>1, <3>3, <3>5, <4>4 DEF Traced, HasRecord
        <5>2. x.item = i
          BY <1>3, <1>4, <5>1 DEF Distinct
        <5>3. \E y \in m.rows : y.item = i
          BY <1>1, <4>2, <5>2
        <5> QED BY <3>2, <5>3 DEF Listed
      <4> QED BY <4>3, <4>4
    <3> QED BY <3>4, <3>5
  <2> QED BY <1>1, <2>2, <2>3
<1>13. ASSUME m.portable PROVE ~m.fellBack /\ \A x \in m.rows : x.item.seq < m.cursor.seq
  <2>1. Mark = extras.committed /\ m.cursor = cursor
    BY <1>1, <1>2, <1>13
  <2>2. ~m.fellBack
    BY <1>1, <2>1
  <2>3. \A x \in m.rows : x.item \in Known
    BY <1>1, <1>4
  <2> QED BY <1>3, <2>1, <2>2, <2>3
<1> QED BY <1>7, <1>8, <1>9, <1>10, <1>11, <1>12, <1>13 DEF ListsOK

\* Every step of a working run keeps the manifest.
LEMMA ManifestStep ==
  ASSUME TypeInv, TypeInv', SoundInv, Working, Carries
  PROVE  ManifestOK'
<1>1. ManifestOK /\ LifeOK
  BY DEF SoundInv, TypeInv
<1>2. CASE manifest' = manifest
  <2>1. CASE manifest = None
    BY <1>2, <2>1 DEF ManifestOK
  <2>2. CASE manifest # None
    <3>1. PICK m \in Manifests : m = manifest
      BY <1>1, <2>2 DEF LifeOK
    <3>2. ListsOK(m) /\ KeepsOK(m)
      BY <1>1, <2>2, <3>1 DEF ManifestOK
    <3>3. ListsOK(m)' /\ KeepsOK(m)'
      BY <3>2, ManifestKept
    <3>4. manifest' = m
      BY <1>2, <3>1
    <3> QED BY <3>3, <3>4 DEF ManifestOK
  <2> QED BY <2>1, <2>2
<1>3. CASE WriteManifest
  <2>1. PICK m : m = manifest'
    OBVIOUS
  <2>2. m \in Manifests /\ m.committed = Mark /\ m.doc = extras.doc
    BY <1>3, <2>1, ManifestFacts
  <2>3. ListsOK(m) /\ KeepsOK(m)
    BY <1>3, <2>1, <2>2, WrittenLists, WrittenKeeps
  <2>4. ListsOK(m)' /\ KeepsOK(m)'
    BY <2>2, <2>3, ManifestKept
  <2> QED BY <2>1, <2>4 DEF ManifestOK
<1>4. manifest' = manifest \/ WriteManifest
  <2>1. ASSUME \/ \E portable \in Portable : StartCheckpoint(portable)
               \/ FlushSink \/ UpdateWatermark \/ ReadReached \/ ReadSinkState \/ ReadCursor \/ ManifestFails
        PROVE  manifest' = manifest
    BY <2>1, Zenon DEF StartCheckpoint, FlushSink, UpdateWatermark, ReadReached, ReadSinkState, ReadCursor,
                       ManifestFails
  <2> QED BY <2>1, CkptMoves, Zenon
<1> QED BY <1>2, <1>3, <1>4

-----------------------------------------------------------------------------
(* How often a manifest names a row *)

\* Counting a set of at most one element.
LEMMA AtMostOne ==
  ASSUME NEW S, \A x, y \in S : x = y
  PROVE  Cardinality(S) = IF S = {} THEN 0 ELSE 1
<1>1. CASE S = {}
  BY <1>1, FS_EmptySet
<1>2. CASE S # {}
  <2>1. PICK x \in S : TRUE
    BY <1>2
  <2>2. S = {x}
    BY <2>1
  <2>3. Cardinality({x}) = 1
    BY FS_Singleton
  <2> QED BY <1>2, <2>2, <2>3
<1> QED BY <1>1, <1>2

\* The copies of row r in the files m keeps, and the morsels with it that m finds dropped,
\* brings back to their queues and has read again.
HeldIn(m, r) == InFiles(KeptFiles(m), r)
SkippedIn(m, r) == Holding(SkippedBy(m), r)
RestoredIn(m, r) == Holding({x.item : x \in Restored(m)}, r)
ReadIn(m, r) == Holding(Recompute(m), r)

\* Names is the sum over the places a manifest can name a row in.
LEMMA NamesSum ==
  ASSUME NEW m, NEW r
  PROVE  Names(m, r) = Cardinality(HeldIn(m, r)) + Cardinality(SkippedIn(m, r))
                       + Cardinality(RestoredIn(m, r)) + Cardinality(ReadIn(m, r))
                       + (IF r >= m.cursor.row THEN 1 ELSE 0)
BY DEF Names, HeldIn, SkippedIn, RestoredIn, ReadIn, KeptFiles, SkippedBy

\* A copy is of a morsel of a file.
LEMMA CopyIs ==
  ASSUME NEW files, NEW r, NEW c
  PROVE  c \in InFiles(files, r) <=> \E d \in files : \E i \in d.data : c = <<d.name, i>> /\ r \in i.rows
<1>1. c \in UNION {{<<d.name, i>> : i \in d.data} : d \in files}
        <=> \E d \in files : \E i \in d.data : c = <<d.name, i>>
  OBVIOUS
<1>2. ASSUME NEW d, NEW i, c = <<d.name, i>> PROVE c[2] = i
  BY <1>2
<1> QED BY <1>1, <1>2 DEF InFiles

\* Every row that is in a settled morsel is in a kept file or was dropped.
LEMMA SettledIn ==
  ASSUME NEW m, NEW r
  PROVE  (HeldIn(m, r) # {} \/ SkippedIn(m, r) # {}) <=> \E i \in SettledBy(m) : r \in i.rows
<1>1. HeldIn(m, r) # {} <=> \E d \in KeptFiles(m) : \E i \in d.data : r \in i.rows
  <2>1. ASSUME HeldIn(m, r) # {} PROVE \E d \in KeptFiles(m) : \E i \in d.data : r \in i.rows
    <3>1. PICK c : c \in InFiles(KeptFiles(m), r)
      BY <2>1 DEF HeldIn
    <3> QED BY <3>1, CopyIs
  <2>2. ASSUME NEW d \in KeptFiles(m), NEW i \in d.data, r \in i.rows PROVE HeldIn(m, r) # {}
    <3>1. <<d.name, i>> \in InFiles(KeptFiles(m), r)
      BY <2>2, CopyIs
    <3> QED BY <3>1 DEF HeldIn
  <2> QED BY <2>1, <2>2
<1>2. SkippedIn(m, r) # {} <=> \E i \in SkippedBy(m) : r \in i.rows
  BY DEF SkippedIn, Holding
<1> QED BY <1>1, <1>2, SettledIs

\* Every listed morsel is brought back or read again, and nothing else is.
LEMMA ListedIs ==
  ASSUME NEW m \in Manifests, ListsOK(m)
  PROVE  Listed(m) = {x.item : x \in Restored(m)} \cup Recompute(m)
<1>1. {x.item : x \in Restored(m)} \subseteq Listed(m) /\ Recompute(m) \subseteq Listed(m)
  BY DEF Restored, Recompute, Listed
<1>2. ASSUME NEW i \in Listed(m) PROVE i \in {x.item : x \in Restored(m)} \cup Recompute(m)
  <2>1. CASE \E x \in m.rows : x.item.seq = i.seq
    <3>1. PICK x \in m.rows : x.item.seq = i.seq
      BY <2>1
    <3>2. x.item \in Listed(m)
      BY DEF Listed
    <3>3. x.item = i
      BY <3>1, <3>2 DEF ListsOK, Distinct
    <3> QED BY <3>3 DEF Restored, Recompute
  <2>2. CASE \A x \in m.rows : x.item.seq # i.seq
    <3>1. i \in m.issued
      BY <2>2 DEF Listed
    <3> QED BY <2>2, <3>1 DEF Recompute
  <2> QED BY <2>1, <2>2
<1> QED BY <1>1, <1>2

\* A listed morsel is restored or read again.
LEMMA ListedIn ==
  ASSUME NEW m \in Manifests, ListsOK(m), NEW r
  PROVE  /\ (RestoredIn(m, r) # {} \/ ReadIn(m, r) # {}) <=> \E i \in Listed(m) : r \in i.rows
         /\ Recompute(m) \subseteq Listed(m)
         /\ {x.item : x \in Restored(m)} \subseteq Listed(m)
<1>1. Listed(m) = {x.item : x \in Restored(m)} \cup Recompute(m)
  BY ListedIs
<1> QED BY <1>1 DEF RestoredIn, ReadIn, Holding

\* Two morsels of which at most one is in each set hold a row at most once.
LEMMA HoldingOne ==
  ASSUME NEW S, NEW T, Distinct(T), S \subseteq T, NEW r
  PROVE  \A i, j \in Holding(S, r) : i = j
BY DEF Distinct, Holding

\* Each place names a row at most once.
LEMMA NamesEach ==
  ASSUME TypeInv, SoundInv, NEW m \in Manifests, ListsOK(m), NEW r
  PROVE  /\ Cardinality(HeldIn(m, r)) = IF HeldIn(m, r) = {} THEN 0 ELSE 1
         /\ Cardinality(SkippedIn(m, r)) = IF SkippedIn(m, r) = {} THEN 0 ELSE 1
         /\ Cardinality(RestoredIn(m, r)) = IF RestoredIn(m, r) = {} THEN 0 ELSE 1
         /\ Cardinality(ReadIn(m, r)) = IF ReadIn(m, r) = {} THEN 0 ELSE 1
<1> DEFINE All == Listed(m) \cup SettledBy(m)
<1>1. Distinct(All)
  BY DEF ListsOK
<1>2. Recompute(m) \subseteq All /\ {x.item : x \in Restored(m)} \subseteq All /\ SkippedBy(m) \subseteq All
  BY ListedIn, SettledIs
<1>3. ASSUME NEW b \in HeldIn(m, r), NEW c \in HeldIn(m, r) PROVE b = c
  <2>8. PICK d \in KeptFiles(m) : \E i \in d.data : b = <<d.name, i>> /\ r \in i.rows
    BY CopyIs DEF HeldIn
  <2>9. PICK e \in KeptFiles(m) : \E j \in e.data : c = <<e.name, j>> /\ r \in j.rows
    BY CopyIs DEF HeldIn
  <2>1. PICK i \in d.data : b = <<d.name, i>> /\ r \in i.rows
    BY <2>8
  <2>2. PICK j \in e.data : c = <<e.name, j>> /\ r \in j.rows
    BY <2>9
  <2>3. i \in All /\ j \in All
    BY SettledIs
  <2>4. i = j
    BY <1>1, <2>1, <2>2, <2>3 DEF Distinct
  <2>5. d \in dest /\ e \in dest
    BY DEF KeptFiles
  <2>6. d = e
    BY <2>4, <2>5 DEF SoundInv, ContentsOK
  <2> QED BY <2>1, <2>2, <2>4, <2>6
<1> HIDE DEF All
<1>4. Cardinality(HeldIn(m, r)) = IF HeldIn(m, r) = {} THEN 0 ELSE 1
  BY <1>3, AtMostOne
<1>5. Cardinality(SkippedIn(m, r)) = IF SkippedIn(m, r) = {} THEN 0 ELSE 1
  <2>1. \A i, j \in SkippedIn(m, r) : i = j
    BY <1>1, <1>2, HoldingOne DEF SkippedIn
  <2> QED BY <2>1, AtMostOne
<1>6. Cardinality(RestoredIn(m, r)) = IF RestoredIn(m, r) = {} THEN 0 ELSE 1
  <2>1. \A i, j \in RestoredIn(m, r) : i = j
    BY <1>1, <1>2, HoldingOne DEF RestoredIn
  <2> QED BY <2>1, AtMostOne
<1>7. Cardinality(ReadIn(m, r)) = IF ReadIn(m, r) = {} THEN 0 ELSE 1
  <2>1. \A i, j \in ReadIn(m, r) : i = j
    BY <1>1, <1>2, HoldingOne DEF ReadIn
  <2> QED BY <2>1, AtMostOne
<1> QED BY <1>4, <1>5, <1>6, <1>7

\* No row is named in two of the four ways.
LEMMA NamesApart ==
  ASSUME TypeInv, SoundInv, NEW m \in Manifests, One(m.issued), OneEach(m.rows), ListsOK(m), NEW r
  PROVE  /\ HeldIn(m, r) = {} \/ SkippedIn(m, r) = {}
         /\ RestoredIn(m, r) = {} \/ ReadIn(m, r) = {}
         /\ (HeldIn(m, r) = {} /\ SkippedIn(m, r) = {}) \/ (RestoredIn(m, r) = {} /\ ReadIn(m, r) = {})
<1>1. /\ Distinct(Listed(m) \cup SettledBy(m))
      /\ \A i \in Listed(m) : i.seq > m.committed
      /\ \A i \in SettledBy(m) : i.seq <= m.committed
  BY DEF ListsOK
<1>2. ASSUME HeldIn(m, r) # {}, SkippedIn(m, r) # {} PROVE FALSE
  <2>1. PICK b : b \in HeldIn(m, r)
    BY <1>2
  <2>8. PICK d \in KeptFiles(m) : \E i \in d.data : r \in i.rows
    BY <2>1, CopyIs DEF HeldIn
  <2>2. PICK i \in d.data : r \in i.rows
    BY <2>8
  <2>3. PICK j \in SkippedBy(m) : r \in j.rows
    BY <1>2 DEF SkippedIn, Holding
  <2>4. i \in SettledBy(m) /\ j \in SettledBy(m)
    BY SettledIs
  <2>5. i = j
    BY <1>1, <2>2, <2>3, <2>4 DEF Distinct
  <2>6. i \in Stored /\ j \in dropped
    BY DEF KeptFiles, SkippedBy, Stored
  <2> QED BY <2>5, <2>6 DEF SoundInv, PlacesOK
<1>3. ASSUME RestoredIn(m, r) # {}, ReadIn(m, r) # {} PROVE FALSE
  <2>1. PICK x \in Restored(m) : r \in x.item.rows
    BY <1>3 DEF RestoredIn, Holding
  <2>2. PICK i \in Recompute(m) : r \in i.rows
    BY <1>3 DEF ReadIn, Holding
  <2>3. i.seq # x.item.seq
    BY RecomputeFacts
  <2>4. i \in Listed(m) /\ x.item \in Listed(m)
    BY ListedIn
  <2> QED BY <1>1, <2>1, <2>2, <2>3, <2>4 DEF Distinct
<1>4. ASSUME NEW i \in Listed(m), NEW j \in SettledBy(m), r \in i.rows, r \in j.rows PROVE FALSE
  <2>1. i # j
    <3>1. SUFFICES ASSUME i = j PROVE FALSE
      OBVIOUS
    <3>2. i \in Item
      <4>1. m.rows \in SUBSET ManifestRows /\ m.issued \in SUBSET Item
        BY DEF Manifests
      <4> QED BY <4>1 DEF Listed, ManifestRows
    <3>3. i.seq \in Nat /\ m.committed \in Int
      BY <3>2, ItemFacts, FileSinkAssumption DEF Manifests
    <3> QED BY <1>1, <3>1, <3>3
  <2> QED BY <1>1, <1>4, <2>1 DEF Distinct
<1>5. ~((\E i \in Listed(m) : r \in i.rows) /\ (\E j \in SettledBy(m) : r \in j.rows))
  BY <1>4
<1>6. (HeldIn(m, r) = {} /\ SkippedIn(m, r) = {}) \/ (RestoredIn(m, r) = {} /\ ReadIn(m, r) = {})
  BY <1>5, SettledIn, ListedIn
<1> QED BY <1>2, <1>3, <1>6

\* A manifest that gives every row once names it in one way, or leaves it beyond its cursor.
LEMMA NamesAre ==
  ASSUME TypeInv, SoundInv, NEW m \in Manifests, One(m.issued), OneEach(m.rows), ListsOK(m), NEW r \in Rows
  PROVE  /\ Names(m, r) \in Nat
         /\ Names(m, r) >= 1 <=> (\E i \in Listed(m) \cup SettledBy(m) : r \in i.rows) \/ r >= m.cursor.row
         /\ Names(m, r) <= 1 <=> ~((\E i \in Listed(m) \cup SettledBy(m) : r \in i.rows) /\ r >= m.cursor.row)
<1> DEFINE a == IF HeldIn(m, r) = {} THEN 0 ELSE 1
           b == IF SkippedIn(m, r) = {} THEN 0 ELSE 1
           c == IF RestoredIn(m, r) = {} THEN 0 ELSE 1
           d == IF ReadIn(m, r) = {} THEN 0 ELSE 1
           e == IF r >= m.cursor.row THEN 1 ELSE 0
           Named == \E i \in Listed(m) \cup SettledBy(m) : r \in i.rows
<1>1. Names(m, r) = a + b + c + d + e
  BY NamesSum, NamesEach
<1>2. a \in {0, 1} /\ b \in {0, 1} /\ c \in {0, 1} /\ d \in {0, 1} /\ e \in {0, 1}
  OBVIOUS
<1>3. (a = 0 \/ b = 0) /\ (c = 0 \/ d = 0) /\ ((a = 0 /\ b = 0) \/ (c = 0 /\ d = 0))
  BY NamesApart
<1>4. Named <=> (\E i \in Listed(m) : r \in i.rows) \/ (\E i \in SettledBy(m) : r \in i.rows)
  OBVIOUS
<1>5. Named <=> ~(a = 0 /\ b = 0 /\ c = 0 /\ d = 0)
  BY <1>4, SettledIn, ListedIn
<1>6. r >= m.cursor.row <=> e = 1
  OBVIOUS
<1> HIDE DEF a, b, c, d, e, Named
<1>7. /\ Names(m, r) \in Nat
      /\ Names(m, r) >= 1 <=> Named \/ e = 1
      /\ Names(m, r) <= 1 <=> ~(Named /\ e = 1)
  BY <1>1, <1>2, <1>3, <1>5
<1> QED BY <1>6, <1>7 DEF Named

\* A complete manifest lists no morsel beyond its cursor, and every row before it.
LEMMA CompleteFacts ==
  ASSUME TypeInv, SoundInv, NEW m \in Manifests, One(m.issued), OneEach(m.rows), ListsOK(m), Complete(m)
  PROVE  /\ m.committed < m.cursor.seq
         /\ \A i \in Listed(m) : i.seq < m.cursor.seq
         /\ \A r \in 0 .. m.cursor.row - 1 : \E i \in Listed(m) \cup SettledBy(m) : r \in i.rows
<1>1. m.committed < m.cursor.seq /\ \A r \in Rows : Names(m, r) = 1
  BY DEF Complete
<1>2. m.cursor.row \in 0 .. NRows /\ NRows \in Nat
  BY RunResumeAssumption DEF Manifests, Cursors
<1>3. ASSUME NEW i \in Listed(m), ~(i.seq < m.cursor.seq) PROVE FALSE
  <2>1. i \in Item
    <3>1. m.rows \in SUBSET ManifestRows /\ m.issued \in SUBSET Item
      BY DEF Manifests
    <3> QED BY <3>1 DEF Listed, ManifestRows
  <2>2. i.rows # {} /\ i.rows \cap (0 .. m.cursor.row - 1) = {} /\ i.rows \subseteq Rows
    BY <1>3, <2>1, ItemFacts DEF ListsOK, Divides
  <2>3. PICK r \in Rows : r \in i.rows /\ r \notin 0 .. m.cursor.row - 1
    BY <2>2
  <2>4. r >= m.cursor.row
    BY <1>2, <2>3 DEF Rows
  <2>5. Names(m, r) <= 1
    BY <1>1
  <2> QED BY <2>3, <2>4, <2>5, NamesAre
<1>4. ASSUME NEW r \in 0 .. m.cursor.row - 1 PROVE \E i \in Listed(m) \cup SettledBy(m) : r \in i.rows
  <2>1. r \in Rows /\ ~(r >= m.cursor.row)
    BY <1>2 DEF Rows
  <2>2. Names(m, r) >= 1
    BY <1>1, <2>1
  <2> QED BY <2>1, <2>2, NamesAre
<1> QED BY <1>1, <1>3, <1>4

-----------------------------------------------------------------------------
(* The resume *)

\* What apply_resume_point and the sink's resume set.
LEMMA ResumeSets ==
  ASSUME TypeInv, SoundInv, CrashAndResume, NEW m, m = manifest
  PROVE  /\ m \in Manifests /\ One(m.issued) /\ OneEach(m.rows) /\ ListsOK(m) /\ KeepsOK(m)
         /\ m.committed \in Int /\ m.committed >= -1 /\ m.cursor \in Cursors
         /\ phase' = "open" /\ committed' = Kept(m.doc, m.committed) /\ nextIndex' = m.doc.nextIndex
         /\ done' = {} /\ contiguousNext' = m.committed + 1 /\ openRanges' = {}
         /\ watermarkNext' = m.committed + 1 /\ current' = None /\ puts' = {}
         /\ dest' = KeptFiles(m) /\ dropped' = SkippedBy(m)
         /\ cursor' = m.cursor /\ landed' = {} /\ work' = {} /\ pushing' = {}
         /\ reached' = m.committed /\ engine' = m.committed /\ floor' = m.committed
         /\ ckpt' = "idle" /\ extras' = None
<1>1. manifest # None /\ LifeOK /\ ManifestOK
  BY DEF CrashAndResume, TypeInv, SoundInv
<1>2. m \in Manifests /\ One(m.issued) /\ OneEach(m.rows) /\ ListsOK(m) /\ KeepsOK(m)
  BY <1>1 DEF LifeOK, ManifestOK
<1>3. m.committed \in Int /\ m.committed >= -1 /\ m.cursor \in Cursors
  BY <1>2, FileSinkAssumption DEF Manifests
<1>4. SinkResume(m.doc, m.committed)
  BY DEF CrashAndResume
<1>5. /\ phase' = "open" /\ committed' = Kept(m.doc, m.committed) /\ nextIndex' = m.doc.nextIndex
      /\ done' = {} /\ contiguousNext' = m.committed + 1 /\ openRanges' = {}
      /\ watermarkNext' = m.committed + 1 /\ current' = None /\ puts' = {}
      /\ dest' = KeptFiles(m)
  BY <1>4 DEF SinkResume, NextOf, KeptFiles
<1>6. /\ dropped' = SkippedBy(m)
      /\ cursor' = m.cursor /\ landed' = {} /\ work' = {} /\ pushing' = {}
      /\ reached' = m.committed /\ engine' = m.committed /\ floor' = m.committed
      /\ ckpt' = "idle" /\ extras' = None
  BY DEF CrashAndResume, SkippedBy
<1> QED BY <1>2, <1>3, <1>5, <1>6

\* Where the morsels are then.
LEMMA ResumePlaces ==
  ASSUME TypeInv, TypeInv', SoundInv, CrashAndResume, NEW m, m = manifest
  PROVE  /\ issued' = {ReadAgain(i) : i \in Recompute(m)}
         /\ Moving' = {ReadAgain(x.item) : x \in Restored(m)}
         /\ q'[0] \cap q'[1] = {}
         /\ Opened' = {} /\ Rolled' = {} /\ Sunk' = SettledBy(m)
         /\ Aloft' = issued' \cup Moving' /\ Known' = issued' \cup Moving' \cup SettledBy(m)
         /\ issued' \cup Moving' = {ReadAgain(i) : i \in Listed(m)}
<1>1. /\ m \in Manifests /\ One(m.issued) /\ OneEach(m.rows) /\ ListsOK(m)
      /\ current' = None /\ puts' = {} /\ dest' = KeptFiles(m) /\ dropped' = SkippedBy(m)
      /\ landed' = {} /\ work' = {}
  BY ResumeSets
<1>2. Restored(m) \in SUBSET ManifestRows /\ OneEach(Restored(m))
  BY <1>1, RecomputeFacts
<1>3. issued' = {ReadAgain(i) : i \in Recompute(m)}
  BY DEF CrashAndResume
<1>4. q' = [s \in 0 .. 1 |-> {ReadAgain(x.item) : x \in {x \in Restored(m) : s \in x.at}}]
  BY DEF CrashAndResume
<1>5. /\ q'[0] = {ReadAgain(x.item) : x \in {x \in Restored(m) : 0 \in x.at}}
      /\ q'[1] = {ReadAgain(x.item) : x \in {x \in Restored(m) : 1 \in x.at}}
  BY <1>4, Stages
<1>6. \A x \in Restored(m) : x.item \in Item /\ (x.at = {0} \/ x.at = {1})
  <2>1. \A x \in Restored(m) : \E s \in 0 .. 1 : x.at = {s}
    BY <1>1 DEF ListsOK, Restored
  <2>2. \A s \in 0 .. 1 : s = 0 \/ s = 1
    OBVIOUS
  <2> QED BY <1>2, <2>1, <2>2 DEF ManifestRows
<1>7. Moving' = {ReadAgain(x.item) : x \in Restored(m)}
  <2>1. Moving' = q'[0] \cup q'[1]
    BY <1>1 DEF Moving
  <2>2. \A x \in Restored(m) : 0 \in x.at \/ 1 \in x.at
    BY <1>6
  <2> QED BY <1>5, <2>1, <2>2
<1>8. q'[0] \cap q'[1] = {}
  <2>1. SUFFICES ASSUME NEW i \in q'[0], i \in q'[1] PROVE FALSE
    OBVIOUS
  <2>2. PICK x \in Restored(m) : 0 \in x.at /\ i = ReadAgain(x.item)
    BY <1>5
  <2>3. PICK y \in Restored(m) : 1 \in y.at /\ i = ReadAgain(y.item)
    BY <1>5, <2>1
  <2>4. x.item.seq = y.item.seq
    <3>1. x.item \in Item /\ y.item \in Item
      BY <1>6
    <3>2. ReadAgain(x.item).seq = x.item.seq /\ ReadAgain(y.item).seq = y.item.seq
      BY <3>1, ItemFacts
    <3> QED BY <2>2, <2>3, <3>2
  <2>5. x = y
    BY <1>2, <2>4 DEF OneEach
  <2> QED BY <1>6, <2>2, <2>3, <2>5
<1>9. Opened' = {} /\ Rolled' = {}
  BY <1>1 DEF Opened, Rolled
<1>10. Sunk' = SettledBy(m)
  <2>1. Stored' = UNION {d.data : d \in KeptFiles(m)}
    BY <1>1 DEF Stored
  <2>2. Sunk' = Stored' \cup dropped'
    BY <1>9 DEF Sunk
  <2> QED BY <1>1, <2>1, <2>2 DEF SettledBy
<1>11. Aloft' = issued' \cup Moving' /\ Known' = issued' \cup Moving' \cup SettledBy(m)
  BY <1>1, <1>9, <1>10 DEF Aloft, Known
<1>12. issued' \cup Moving' = {ReadAgain(i) : i \in Listed(m)}
  <2>1. Listed(m) = {x.item : x \in Restored(m)} \cup Recompute(m)
    BY <1>1, ListedIs
  <2> QED BY <1>3, <1>7, <2>1
<1> QED BY <1>3, <1>7, <1>8, <1>9, <1>10, <1>11, <1>12

\* A morsel of the resumed run is one the manifest lists, read again or restored, or one it found settled.
LEMMA ResumeOrigin ==
  ASSUME TypeInv, TypeInv', SoundInv, CrashAndResume, NEW m, m = manifest
  PROVE  /\ Listed(m) \subseteq Item /\ SettledBy(m) \subseteq Item /\ SettledBy(m) \subseteq Known
         /\ \A i \in issued' \cup Moving' : \E j \in Listed(m) :
              i = ReadAgain(j) /\ i.seq = j.seq /\ i.rows = j.rows /\ i.seq \in Nat /\ i.seq > m.committed
         /\ \A j \in Listed(m) : ReadAgain(j) \in Known' /\ ReadAgain(j).rows = j.rows
         /\ \A i \in SettledBy(m) : i.seq \in Nat /\ i.seq <= m.committed
<1>1. m \in Manifests /\ ListsOK(m)
  BY ResumeSets
<1>2. Listed(m) \subseteq Item
  <2>1. m.rows \in SUBSET ManifestRows /\ m.issued \in SUBSET Item
    BY <1>1 DEF Manifests
  <2> QED BY <2>1 DEF Listed, ManifestRows
<1>3. SettledBy(m) \subseteq Known
  <2>1. KeptFiles(m) \subseteq dest /\ SkippedBy(m) \subseteq dropped
    BY DEF KeptFiles, SkippedBy
  <2>2. \A d \in dest : d.data \subseteq Stored
    BY DEF Stored
  <2> QED BY <2>1, <2>2, SettledIs DEF Known, Sunk
<1>4. SettledBy(m) \subseteq Item
  BY <1>3, AloftAbove
<1>5. issued' \cup Moving' = {ReadAgain(i) : i \in Listed(m)} /\ Known' = issued' \cup Moving' \cup SettledBy(m)
  BY ResumePlaces
<1>6. \A j \in Listed(m) : /\ ReadAgain(j).seq = j.seq /\ ReadAgain(j).rows = j.rows
                           /\ j.seq \in Nat /\ j.seq > m.committed
  BY <1>1, <1>2, ItemFacts DEF ListsOK
<1>7. \A i \in SettledBy(m) : i.seq \in Nat /\ i.seq <= m.committed
  BY <1>1, <1>4, ItemFacts DEF ListsOK
<1>8. ASSUME NEW i \in issued' \cup Moving'
      PROVE  \E j \in Listed(m) : i = ReadAgain(j) /\ i.seq = j.seq /\ i.rows = j.rows
                                  /\ i.seq \in Nat /\ i.seq > m.committed
  BY <1>5, <1>6
<1>9. \A j \in Listed(m) : ReadAgain(j) \in Known' /\ ReadAgain(j).rows = j.rows
  BY <1>5, <1>6
<1> QED BY <1>2, <1>3, <1>4, <1>7, <1>8, <1>9

\* After a resume every row before the cursor is of one morsel.
LEMMA ResumeItems ==
  ASSUME TypeInv, TypeInv', SoundInv, CrashAndResume, NEW m, m = manifest, Complete(m)
  PROVE  ItemsOK'
<1> DEFINE All == Listed(m) \cup SettledBy(m)
<1>1. /\ m \in Manifests /\ One(m.issued) /\ OneEach(m.rows) /\ ListsOK(m) /\ m.committed \in Int
      /\ m.cursor \in Cursors /\ cursor' = m.cursor
  BY ResumeSets
<1>2. Known' = issued' \cup Moving' \cup SettledBy(m)
  BY ResumePlaces
<1>3. /\ SettledBy(m) \subseteq Known
      /\ \A i \in issued' \cup Moving' : \E j \in Listed(m) :
           i = ReadAgain(j) /\ i.seq = j.seq /\ i.rows = j.rows /\ i.seq \in Nat /\ i.seq > m.committed
      /\ \A j \in Listed(m) : ReadAgain(j) \in Known' /\ ReadAgain(j).rows = j.rows
      /\ \A i \in SettledBy(m) : i.seq \in Nat /\ i.seq <= m.committed
  BY ResumeOrigin
<1>4. /\ m.committed < m.cursor.seq
      /\ \A i \in Listed(m) : i.seq < m.cursor.seq
      /\ \A r \in 0 .. m.cursor.row - 1 : \E i \in All : r \in i.rows
  BY <1>1, CompleteFacts
<1>5. /\ Distinct(All) /\ Divides(m.cursor, All)
      /\ \A i \in Listed(m) : i.rows # {}
  BY <1>1 DEF ListsOK
<1>6. \A i \in SettledBy(m) : i.rows # {}
  BY <1>3 DEF SoundInv, ItemsOK
<1>7. m.cursor.seq \in Nat
  BY <1>1 DEF Cursors
<1>8. \A i \in All : i.seq < m.cursor.seq /\ i.rows # {}
  BY <1>1, <1>3, <1>4, <1>5, <1>6, <1>7
<1>9. \A i \in All : i.rows \subseteq 0 .. m.cursor.row - 1
  BY <1>5, <1>8 DEF Divides
<1>10. \A i \in Known' : \E j \in All : i.seq = j.seq /\ i.rows = j.rows
  BY <1>2, <1>3
<1>11. ASSUME NEW i \in Known', NEW j \in Known', i # j PROVE i.seq # j.seq /\ i.rows \cap j.rows = {}
  <2>1. \A a, b \in All : a # b => a.seq # b.seq /\ a.rows \cap b.rows = {}
    BY <1>5 DEF Distinct
  <2>2. CASE i \in issued' \cup Moving' /\ j \in issued' \cup Moving'
    BY <1>3, <1>11, <2>1, <2>2
  <2>3. CASE i \in SettledBy(m) /\ j \in SettledBy(m)
    BY <1>11, <2>1, <2>3
  <2>4. ASSUME NEW a \in issued' \cup Moving', NEW b \in SettledBy(m)
        PROVE  a.seq # b.seq /\ a.rows \cap b.rows = {}
    <3>1. PICK x \in Listed(m) : a.seq = x.seq /\ a.rows = x.rows /\ a.seq \in Nat /\ a.seq > m.committed
      BY <1>3
    <3>2. b.seq \in Nat /\ b.seq <= m.committed
      BY <1>3
    <3>3. a.seq # b.seq
      BY <1>1, <3>1, <3>2
    <3> QED BY <2>1, <3>1, <3>3
  <2> QED BY <1>2, <2>2, <2>3, <2>4
<1>12. ASSUME NEW r \in 0 .. m.cursor.row - 1 PROVE \E i \in Known' : r \in i.rows
  BY <1>2, <1>3, <1>4
<1> HIDE DEF All
<1>13. Distinct(Known)'
  BY <1>11 DEF Distinct
<1>14. \A i \in Known' : i.rows # {} /\ i.seq < cursor'.seq /\ i.rows \subseteq 0 .. cursor'.row - 1
  BY <1>1, <1>8, <1>9, <1>10
<1>15. \A r \in 0 .. cursor'.row - 1 : \E i \in Known' : r \in i.rows
  BY <1>1, <1>12
<1> QED BY <1>13, <1>14, <1>15 DEF ItemsOK

\* After a resume a morsel is in one place.
LEMMA ResumeApart ==
  ASSUME TypeInv, TypeInv', SoundInv, CrashAndResume, NEW m, m = manifest
  PROVE  PlacesOK'
<1>1. /\ m \in Manifests /\ One(m.issued) /\ OneEach(m.rows) /\ m.committed \in Int
      /\ work' = {} /\ landed' = {} /\ dest' = KeptFiles(m) /\ dropped' = SkippedBy(m)
  BY ResumeSets
<1>2. /\ issued' = {ReadAgain(i) : i \in Recompute(m)} /\ Moving' = {ReadAgain(x.item) : x \in Restored(m)}
      /\ q'[0] \cap q'[1] = {} /\ Opened' = {} /\ Rolled' = {} /\ Sunk' = SettledBy(m)
  BY ResumePlaces
<1>3. (issued' \cup Moving') \cap Sunk' = {}
  <2>1. \A i \in issued' \cup Moving' : i.seq \in Nat /\ i.seq > m.committed
    BY ResumeOrigin
  <2>2. \A i \in SettledBy(m) : i.seq \in Nat /\ i.seq <= m.committed
    BY ResumeOrigin
  <2>3. \A i \in issued' \cup Moving' : \A j \in SettledBy(m) : i # j
    BY <1>1, <2>1, <2>2
  <2> QED BY <1>2, <2>3
<1>4. issued' \cap Moving' = {}
  <2>1. SUFFICES ASSUME NEW i \in Recompute(m), NEW x \in Restored(m), ReadAgain(i) = ReadAgain(x.item)
                 PROVE  FALSE
    BY <1>2
  <2>2. i \in Item /\ x \in ManifestRows /\ i.seq # x.item.seq
    BY <1>1, RecomputeFacts
  <2>3. x.item \in Item
    BY <2>2 DEF ManifestRows
  <2> QED BY <2>1, <2>2, <2>3, ItemFacts
<1>5. dropped' \cap Stored' = {}
  <2>1. Stored' \subseteq Stored /\ dropped' \subseteq dropped
    BY <1>1 DEF Stored, KeptFiles, SkippedBy
  <2> QED BY <2>1 DEF SoundInv, PlacesOK
<1> QED BY <1>1, <1>2, <1>3, <1>4, <1>5 DEF PlacesOK

\* After a resume the files are those the manifest keeps.
LEMMA ResumeFiles ==
  ASSUME TypeInv, TypeInv', SoundInv, CrashAndResume, NEW m, m = manifest
  PROVE  FilesOK' /\ ContentsOK'
<1>1. /\ KeepsOK(m) /\ committed' = Kept(m.doc, m.committed) /\ nextIndex' = m.doc.nextIndex
      /\ current' = None /\ puts' = {} /\ dest' = KeptFiles(m)
  BY ResumeSets
<1>2. /\ \A d \in dest' : d \in dest /\ \E k \in committed' : k.name = d.name
      /\ \A d \in dest : (\E k \in committed' : k.name = d.name) => d \in dest'
  BY <1>1 DEF KeptFiles
<1>3. committed' \subseteq m.doc.committed
  BY <1>1 DEF Kept
<1>4. \A f \in committed' : /\ f.name < nextIndex'
                            /\ \A d \in dest : d.name = f.name => Seqs(d.data) = f.seqs
                            /\ \E d \in dest : d.name = f.name
  BY <1>1, <1>3 DEF KeepsOK
<1>5. \A f \in committed' : \E d \in dest' : d.name = f.name /\ Seqs(d.data) = f.seqs
  BY <1>2, <1>4
<1>6. \A x \in committed' \cup puts' \cup dest' : x.name < nextIndex'
  BY <1>1, <1>2, <1>4
<1>7. \A d, e \in dest' : d.name = e.name => d = e
  BY <1>2 DEF SoundInv, FilesOK
<1>8. FilesOK'
  BY <1>1, <1>2, <1>5, <1>6, <1>7 DEF FilesOK, Seqs
<1>9. ContentsOK'
  BY <1>1, <1>2 DEF SoundInv, ContentsOK
<1> QED BY <1>8, <1>9

\* After a resume the counts and watermarks are the manifest's.
LEMMA ResumeMarks ==
  ASSUME TypeInv, TypeInv', SoundInv, CrashAndResume, NEW m, m = manifest, m.committed < m.cursor.seq
  PROVE  CountsOK' /\ MarksOK'
<1>1. /\ m.committed \in Int /\ m.committed >= -1 /\ m.cursor \in Cursors /\ cursor' = m.cursor
      /\ done' = {} /\ contiguousNext' = m.committed + 1 /\ watermarkNext' = m.committed + 1
      /\ committed' = Kept(m.doc, m.committed)
      /\ reached' = m.committed /\ engine' = m.committed /\ floor' = m.committed
  BY ResumeSets
<1>2. Aloft' = issued' \cup Moving' /\ \A i \in issued' \cup Moving' : i.seq \in Nat /\ i.seq > m.committed
  BY ResumePlaces, ResumeOrigin
<1>3. Counted' = 0 .. m.committed
  BY <1>1 DEF Counted
<1>4. \A i \in Aloft' : i.seq \notin Counted'
  BY <1>1, <1>2, <1>3
<1>5. m.cursor.seq \in Nat
  BY <1>1 DEF Cursors
<1>6. m.committed + 1 <= m.cursor.seq /\ m.committed < m.committed + 1
  BY <1>1, <1>5
<1>7. CountsOK'
  BY <1>1, <1>4, <1>6 DEF CountsOK
<1>8. ASSUME NEW f \in committed'
      PROVE  /\ \A b \in f.seqs : b < m.committed + 1
             /\ ~Straddles(f, m.committed + 1)
  <2>1. f \in Files /\ \A n \in f.seqs : n <= m.committed
    BY <1>1 DEF Kept, TypeInv, SinkOK
  <2>2. f.seqs \subseteq Nat
    BY <2>1 DEF Files, Seq0
  <2>3. \A b \in f.seqs : b < m.committed + 1
    BY <1>1, <2>1, <2>2
  <2>4. m.committed + 1 \in Int
    BY <1>1
  <2> QED BY <2>2, <2>3, <2>4, BelowStraddlesNot
<1>9. MarksOK'
  BY <1>1, <1>8 DEF MarksOK, Straddles
<1> QED BY <1>7, <1>9

\* After a resume the lineage holds what is no longer a read.
LEMMA ResumeLineage ==
  ASSUME TypeInv, TypeInv', SoundInv, CrashAndResume, NEW m, m = manifest
  PROVE  LineageOK'
<1> DEFINE Rec(x) == [item |-> ReadAgain(x.item), at |-> x.at, committed |-> FALSE]
<1>1. /\ m \in Manifests /\ One(m.issued) /\ OneEach(m.rows) /\ ListsOK(m)
      /\ pushing' = {} /\ landed' = {} /\ engine' = m.committed
  BY ResumeSets
<1>2. Moving' = {ReadAgain(x.item) : x \in Restored(m)} /\ Known' = issued' \cup Moving' \cup SettledBy(m)
  BY ResumePlaces
<1>3. lineage' = {Rec(x) : x \in Restored(m)}
  BY DEF CrashAndResume
<1>4. \A x \in Restored(m) : Rec(x).item = ReadAgain(x.item) /\ Rec(x).at = x.at /\ Rec(x).committed = FALSE
  OBVIOUS
<1> HIDE DEF Rec
<1>5. \A x \in Restored(m) : x.at # {}
  BY <1>1 DEF ListsOK, Restored
<1>6. \A x \in lineage' : x.item \in Known' /\ x.at # {} /\ x.committed = FALSE
  BY <1>2, <1>3, <1>4, <1>5
<1>7. \A i \in Moving' : \E r \in lineage' : r.item.seq = i.seq
  BY <1>2, <1>3, <1>4
<1>8. \A i \in SettledBy(m) : i.seq <= m.committed
  BY <1>1 DEF ListsOK
<1>9. \A i \in Known' \ issued' : Traced(i, engine)'
  BY <1>1, <1>2, <1>7, <1>8 DEF Traced, HasRecord
<1>10. AllTraced(engine)'
  BY <1>1, <1>9 DEF AllTraced
<1> QED BY <1>1, <1>6, <1>10 DEF LineageOK

\* After a resume the manifest can be resumed from again.
LEMMA ResumeManifest ==
  ASSUME TypeInv, TypeInv', SoundInv, CrashAndResume, NEW m, m = manifest
  PROVE  ManifestOK'
<1>1. /\ m \in Manifests /\ ListsOK(m) /\ KeepsOK(m) /\ m.committed \in Int
      /\ committed' = Kept(m.doc, m.committed) /\ nextIndex' = m.doc.nextIndex
      /\ watermarkNext' = m.committed + 1 /\ current' = None /\ puts' = {}
      /\ dest' = KeptFiles(m) /\ dropped' = SkippedBy(m)
  BY ResumeSets
<1>2. manifest' = m \/ manifest' = None
  BY DEF CrashAndResume
<1>3. KeptFiles(m)' = KeptFiles(m)
  BY <1>1 DEF KeptFiles
<1>4. SkippedBy(m)' = SkippedBy(m)
  BY <1>1 DEF SkippedBy
<1>5. SettledBy(m)' = SettledBy(m)
  BY <1>3, <1>4 DEF SettledBy
<1>6. ListsOK(m)'
  BY <1>1, <1>5 DEF ListsOK, Listed, Distinct, Divides
<1>7. m.committed < watermarkNext'
  BY <1>1
<1>8. m.doc.nextIndex <= nextIndex'
  <2>1. m.doc.nextIndex \in Nat
    BY <1>1 DEF Manifests, Documents
  <2> QED BY <1>1, <2>1
<1>9. \A f \in m.doc.committed : /\ f.name < m.doc.nextIndex
                                 /\ \A d \in dest' : d.name = f.name => Seqs(d.data) = f.seqs
  BY <1>1 DEF KeepsOK, KeptFiles
<1>10. \A f \in Kept(m.doc, m.committed) : \E d \in dest' : d.name = f.name
  BY <1>1 DEF KeepsOK, KeptFiles
<1>11. KeepsOK(m)'
  BY <1>1, <1>7, <1>8, <1>9, <1>10 DEF KeepsOK
<1> QED BY <1>2, <1>6, <1>11 DEF ManifestOK

\* A run resumed from a complete manifest is as sound as one that was never killed.
LEMMA ResumeStep ==
  ASSUME TypeInv, TypeInv', SoundInv, CrashAndResume, Complete(manifest)
  PROVE  SoundInv'
<1>1. PICK m : m = manifest
  OBVIOUS
<1>2. Complete(m) /\ m.committed < m.cursor.seq
  BY <1>1 DEF Complete
<1>3. ItemsOK' /\ PlacesOK' /\ FilesOK' /\ ContentsOK' /\ CountsOK' /\ MarksOK' /\ LineageOK' /\ ManifestOK'
  BY <1>1, <1>2, ResumeItems, ResumeApart, ResumeFiles, ResumeMarks, ResumeLineage, ResumeManifest
<1>4. ckpt' = "idle" /\ extras' = None /\ puts' = {} /\ phase' = "open"
  BY <1>1, ResumeSets
<1>5. GatheredOK' /\ BarrierOK' /\ FinishOK'
  BY <1>4 DEF GatheredOK, HasMark, HasDoc, HasCursor, BarrierOK, Barrier, FinishOK
<1> QED BY <1>3, <1>5 DEF SoundInv

\* A run starts sound.
LEMMA SoundStart ==
  ASSUME RRInit
  PROVE  SoundInv
<1>1. /\ phase = "open" /\ committed = {} /\ nextIndex = 0 /\ done = {} /\ contiguousNext = 0
      /\ openRanges = {} /\ watermarkNext = 0 /\ current = None /\ puts = {} /\ dest = {}
  BY DEF RRInit, SinkInit
<1>2. /\ cursor.row = 0 /\ cursor.seq = 0 /\ issued = {} /\ landed = {} /\ work = {} /\ pushing = {}
      /\ lineage = {} /\ dropped = {} /\ floor = -1 /\ ckpt = "idle" /\ extras = None /\ manifest = None
  BY DEF RRInit
<1>3. q[0] = {} /\ q[1] = {}
  BY Stages DEF RRInit
<1>4. Opened = {} /\ Rolled = {} /\ Stored = {} /\ Moving = {}
  BY <1>1, <1>2, <1>3 DEF Opened, Rolled, Stored, Moving
<1>5. Known = {} /\ Aloft = {}
  BY <1>2, <1>4 DEF Known, Sunk, Aloft
<1>6. ItemsOK
  BY <1>2, <1>5 DEF ItemsOK, Distinct
<1>7. PlacesOK
  BY <1>2, <1>3, <1>4 DEF PlacesOK, Sunk
<1>8. FilesOK /\ ContentsOK /\ MarksOK
  BY <1>1 DEF FilesOK, ContentsOK, MarksOK
<1>9. CountsOK
  BY <1>1, <1>2, <1>5 DEF CountsOK
<1>10. LineageOK
  BY <1>2, <1>5 DEF LineageOK, AllTraced
<1>11. GatheredOK /\ BarrierOK /\ FinishOK /\ ManifestOK
  BY <1>1, <1>2 DEF GatheredOK, HasMark, HasDoc, HasCursor, BarrierOK, Barrier, FinishOK, ManifestOK
<1> QED BY <1>6, <1>7, <1>8, <1>9, <1>10, <1>11 DEF SoundInv

\* Every step of a working run keeps the invariant.
LEMMA WorkStep ==
  ASSUME TypeInv, TypeInv', SoundInv, Working
  PROVE  SoundInv'
<1>1. Carries
  BY WorkCarries
<1>2. ItemsOK' /\ PlacesOK' /\ FilesOK' /\ ContentsOK' /\ CountsOK' /\ MarksOK'
  BY <1>1 DEF Carries
<1>3. LineageOK'
  BY <1>1, LineageStep
<1>4. GatheredOK'
  BY <1>1, <1>3, GatheredStep
<1>5. BarrierOK'
  BY BarrierStep
<1>6. FinishOK' /\ ManifestOK'
  BY <1>1, FinishStep, ManifestStep
<1> QED BY <1>2, <1>3, <1>4, <1>5, <1>6 DEF SoundInv

\* Nothing happens.
LEMMA StutterSound ==
  ASSUME TypeInv, SoundInv, UNCHANGED rrVars
  PROVE  SoundInv'
<1>1. /\ UNCHANGED <<sinkVars, sourceVars, q, work, pushing, lineage, dropped, reached, engine, floor>>
      /\ UNCHANGED <<ckpt, extras, manifest>>
  BY DEF rrVars, markVars, ckptVars, lifeVars
<1>2. UNCHANGED <<phase, committed, nextIndex, done, contiguousNext, openRanges, watermarkNext, current, puts, dest>>
  BY <1>1 DEF sinkVars, ledgerVars
<1>3. UNCHANGED <<cursor, issued, again, landed>>
  BY <1>1 DEF sourceVars
<1>4. Moved
  BY <1>1, StillMoved
<1>5. FilesOK' /\ ContentsOK' /\ PlacesOK' /\ ItemsOK' /\ Known' = Known /\ Aloft' \subseteq Aloft
  BY <1>4 DEF Moved
<1>6. CountsOK' /\ MarksOK'
  BY <1>1, <1>2, <1>3, <1>5, CountsFrame, MarksFrame DEF SoundInv
<1>7. LineageOK'
  BY <1>1, <1>3, <1>5 DEF SoundInv, LineageOK, AllTraced, Traced, HasRecord, Unrecorded
<1>8. GatheredOK'
  <2>1. AllTraced(extras.committed)' <=> AllTraced(extras.committed)
    BY <1>1, <1>3, <1>5 DEF AllTraced, Traced, HasRecord, Unrecorded
  <2>2. MarkRead' <=> MarkRead
    BY <1>1, <1>2, <2>1 DEF MarkRead, Straddles
  <2>3. DocRead' <=> DocRead
    BY <1>1, <1>2 DEF DocRead
  <2>4. CursorRead' <=> CursorRead
    BY <1>1, <1>3, <1>5 DEF CursorRead, Divides, Traced, HasRecord
  <2>5. HasMark' <=> HasMark
    BY <1>1 DEF HasMark
  <2>6. HasDoc' <=> HasDoc
    BY <1>1 DEF HasDoc
  <2>7. HasCursor' <=> HasCursor
    BY <1>1 DEF HasCursor
  <2> QED BY <2>2, <2>3, <2>4, <2>5, <2>6, <2>7 DEF SoundInv, GatheredOK
<1>9. BarrierOK'
  BY <1>1, <1>2, <1>3 DEF SoundInv, BarrierOK, Barrier, HasMark, HasCursor
<1>10. FinishOK'
  BY <1>1, <1>2, <1>3 DEF SoundInv, FinishOK, Drained, Moving
<1>11. ManifestOK'
  BY <1>1, <1>2 DEF SoundInv, ManifestOK, ListsOK, KeepsOK, Listed, SettledBy, KeptFiles, SkippedBy,
                    Distinct, Divides, Seqs
<1> QED BY <1>5, <1>6, <1>7, <1>8, <1>9, <1>10, <1>11 DEF SoundInv

\* A step is one of a working run, or a resume.
LEMMA NextIs == RRNext <=> Working \/ CrashAndResume
BY Zenon DEF RRNext, Working

\* Only a resume changes whether the resumes were sound.
LEMMA SoundKept ==
  ASSUME Working
  PROVE  sound' = sound
<1>1. ASSUME NEW i, Issue(i) \/ Record(i) \/ Forget(i) \/ TakeWork(i)
      PROVE  UNCHANGED lifeVars
  BY <1>1, Zenon DEF Issue, Record, Forget, TakeWork
<1>2. ASSUME NEW i, ApplyFails(i) \/ WriteMorsel(i, TRUE) \/ WriteMorsel(i, FALSE) \/ StartCheckpoint(i)
      PROVE  UNCHANGED lifeVars
  BY <1>2, Zenon DEF ApplyFails, WriteMorsel, StartCheckpoint, CkptStep
<1>3. ASSUME RollSettles \/ Claim \/ SetCommitted \/ FinishSink PROVE UNCHANGED lifeVars
  BY <1>3, Zenon DEF RollSettles, Claim, SetCommitted, FinishSink
<1>4. ASSUME \/ FlushSink \/ UpdateWatermark \/ ReadReached \/ ReadSinkState \/ ReadCursor \/ WriteManifest
             \/ ManifestFails
      PROVE  UNCHANGED lifeVars
  BY <1>4, Zenon DEF FlushSink, UpdateWatermark, ReadReached, ReadSinkState, ReadCursor, WriteManifest,
                       ManifestFails, CkptStep
<1>5. ASSUME NEW i, PushRead(i) \/ Apply(i) PROVE sound' = sound
  BY <1>5, Zenon DEF PushRead, Apply
<1>6. UNCHANGED lifeVars => sound' = sound
  BY DEF lifeVars
<1> QED BY <1>1, <1>2, <1>3, <1>4, <1>5, <1>6, Zenon DEF Working

(* The invariant of a run: as long as every resume started from a complete   *)
(* manifest, every row before the cursor is of one morsel, which is in one   *)
(* place; the ledger counts no morsel that is not in a recorded file; above  *)
(* the engine's watermark what is no longer a read has a lineage record; and *)
(* what a checkpoint has read so far still describes the run.                *)
THEOREM RunInvariance == RRSpec => []RunInv
<1>1. RRInit => RunInv
  BY TypeStart, SoundStart DEF RunInv
<1>2. RunInv /\ [RRNext]_rrVars => RunInv'
  <2> SUFFICES ASSUME RunInv, [RRNext]_rrVars PROVE RunInv'
    OBVIOUS
  <2>1. TypeInv /\ TypeInv' /\ (sound => SoundInv)
    BY TypeStep DEF RunInv
  <2>2. CASE Working
    BY <2>1, <2>2, SoundKept, WorkStep DEF RunInv
  <2>3. CASE CrashAndResume
    <3>1. sound' = (sound /\ Complete(manifest))
      BY <2>3 DEF CrashAndResume
    <3>2. ASSUME sound' PROVE SoundInv'
      <4>1. sound /\ Complete(manifest)
        BY <3>1, <3>2, Zenon
      <4> QED BY <2>1, <2>3, <4>1, ResumeStep
    <3> QED BY <2>1, <3>2 DEF RunInv
  <2>4. CASE UNCHANGED rrVars
    <3>1. sound' = sound
      BY <2>4 DEF rrVars, lifeVars
    <3> QED BY <2>1, <2>4, <3>1, StutterSound DEF RunInv
  <2> QED BY <2>2, <2>3, <2>4, NextIs
<1> QED BY <1>1, <1>2, PTL DEF RRSpec

-----------------------------------------------------------------------------
(* What a manifest names *)

\* What the invariant says of a manifest.
LEMMA WrittenIs ==
  ASSUME RunInv, Written, NEW m, m = manifest
  PROVE  /\ TypeInv /\ SoundInv
         /\ m \in Manifests /\ One(m.issued) /\ OneEach(m.rows) /\ ListsOK(m)
         /\ m.cursor.row \in 0 .. NRows /\ NRows \in Nat
<1>1. TypeInv /\ SoundInv /\ m # None
  BY DEF RunInv, Written
<1>2. m \in Manifests /\ One(m.issued) /\ OneEach(m.rows) /\ ListsOK(m)
  BY <1>1 DEF TypeInv, LifeOK, SoundInv, ManifestOK
<1>3. m.cursor.row \in 0 .. NRows /\ NRows \in Nat
  BY <1>2, RunResumeAssumption DEF Manifests, Cursors
<1> QED BY <1>1, <1>2, <1>3

\* Without the fallback, every row before the cursor is listed or settled.
LEMMA ForgetsNone ==
  ASSUME RunInv, Written, NEW m, m = manifest, ~m.fellBack
  PROVE  m.committed < m.cursor.seq /\ \A r \in Rows : Names(m, r) >= 1
<1>1. /\ TypeInv /\ SoundInv /\ m \in Manifests /\ One(m.issued) /\ OneEach(m.rows) /\ ListsOK(m)
      /\ m.cursor.row \in 0 .. NRows /\ NRows \in Nat
  BY WrittenIs
<1>2. /\ m.committed < m.cursor.seq
      /\ \A r \in 0 .. m.cursor.row - 1 : \E i \in Listed(m) \cup SettledBy(m) : r \in i.rows
  BY <1>1 DEF ListsOK
<1>3. ASSUME NEW r \in Rows PROVE Names(m, r) >= 1
  <2>1. r \in 0 .. m.cursor.row - 1 \/ r >= m.cursor.row
    BY <1>1 DEF Rows
  <2> QED BY <1>1, <1>2, <2>1, NamesAre
<1> QED BY <1>2, <1>3

\* With no row of the lineage from beyond the cursor, nothing listed is beyond it.
LEMMA NamesOnce ==
  ASSUME RunInv, Written, NEW m, m = manifest, m.committed < m.cursor.seq,
         \A x \in m.rows : x.item.seq < m.cursor.seq
  PROVE  \A r \in Rows : Names(m, r) <= 1
<1>1. /\ TypeInv /\ SoundInv /\ m \in Manifests /\ One(m.issued) /\ OneEach(m.rows) /\ ListsOK(m)
      /\ m.cursor.row \in 0 .. NRows /\ NRows \in Nat
  BY WrittenIs
<1>2. /\ \A i \in m.issued : i.seq < m.cursor.seq
      /\ \A i \in SettledBy(m) : i.seq <= m.committed
      /\ Divides(m.cursor, Listed(m) \cup SettledBy(m))
  BY <1>1 DEF ListsOK
<1>3. SettledBy(m) \subseteq Known
  <2>1. KeptFiles(m) \subseteq dest /\ SkippedBy(m) \subseteq dropped
    BY DEF KeptFiles, SkippedBy
  <2>2. \A d \in dest : d.data \subseteq Stored
    BY DEF Stored
  <2> QED BY <2>1, <2>2, SettledIs DEF Known, Sunk
<1>4. \A i \in SettledBy(m) : i.seq < m.cursor.seq
  <2>1. \A i \in SettledBy(m) : i.seq \in Nat
    BY <1>1, <1>3, AloftAbove
  <2>2. m.committed \in Int /\ m.cursor.seq \in Int
    BY <1>1, FileSinkAssumption DEF Manifests, Cursors
  <2> QED BY <1>2, <2>1, <2>2
<1>5. \A i \in Listed(m) \cup SettledBy(m) : i.seq < m.cursor.seq
  BY <1>2, <1>4 DEF Listed
<1>6. \A i \in Listed(m) \cup SettledBy(m) : i.rows \subseteq 0 .. m.cursor.row - 1
  BY <1>2, <1>5 DEF Divides
<1>7. ASSUME NEW r \in Rows PROVE Names(m, r) <= 1
  <2>1. ~((\E i \in Listed(m) \cup SettledBy(m) : r \in i.rows) /\ r >= m.cursor.row)
    BY <1>1, <1>6
  <2> QED BY <1>1, <2>1, NamesAre
<1> QED BY <1>7

\* A portable manifest does not fall back, and lists nothing from beyond its cursor.
LEMMA PortableNames ==
  ASSUME RunInv, Written, NEW m, m = manifest, m.portable
  PROVE  Complete(m)
<1>1. /\ TypeInv /\ SoundInv /\ m \in Manifests /\ One(m.issued) /\ OneEach(m.rows) /\ ListsOK(m)
  BY WrittenIs
<1>2. ~m.fellBack /\ \A x \in m.rows : x.item.seq < m.cursor.seq
  BY <1>1 DEF ListsOK
<1>3. m.committed < m.cursor.seq /\ \A r \in Rows : Names(m, r) >= 1
  BY <1>2, ForgetsNone
<1>4. \A r \in Rows : Names(m, r) <= 1
  BY <1>2, <1>3, NamesOnce
<1>5. ASSUME NEW r \in Rows PROVE Names(m, r) = 1
  <2>1. Names(m, r) \in Nat
    BY <1>1, NamesAre
  <2> QED BY <1>3, <1>4, <2>1
<1> QED BY <1>3, <1>5 DEF Complete

(* A manifest that checkpoint_now writes behind its barrier names every row  *)
(* exactly once, and goes on doing so whatever the run does until it is      *)
(* resumed from or replaced.                                                 *)
THEOREM PortableManifest == RRSpec => []PortableComplete
<1>1. RunInv => PortableComplete
  <2> SUFFICES ASSUME RunInv, Written, manifest.portable PROVE Complete(manifest)
    BY DEF PortableComplete
  <2>1. PICK m : m = manifest
    OBVIOUS
  <2> QED BY <2>1, PortableNames
<1> QED BY <1>1, RunInvariance, PTL

(* A manifest that write_manifest puts together from snapshots of a running  *)
(* pipeline forgets no row, unless it takes the engine's watermark for a     *)
(* sink that had none when checkpoint_now asked.                             *)
THEOREM RunningManifestForgetsNone == RRSpec => []RunningForgetsNone
<1>1. RunInv => RunningForgetsNone
  <2> SUFFICES ASSUME RunInv, Written, ~manifest.fellBack
               PROVE  manifest.committed < manifest.cursor.seq /\ \A r \in Rows : Names(manifest, r) >= 1
    BY DEF RunningForgetsNone
  <2>1. PICK m : m = manifest
    OBVIOUS
  <2> QED BY <2>1, ForgetsNone
<1> QED BY <1>1, RunInvariance, PTL

(* Such a manifest names no row twice, unless a read issued after its cursor *)
(* was taken is already a lineage row or below its watermark.                *)
THEOREM RunningManifestNamesOnce == RRSpec => []RunningNamesOnce
<1>1. RunInv => RunningNamesOnce
  <2> SUFFICES ASSUME RunInv, Written, manifest.committed < manifest.cursor.seq,
                      \A x \in manifest.rows : x.item.seq < manifest.cursor.seq
               PROVE  \A r \in Rows : Names(manifest, r) <= 1
    BY DEF RunningNamesOnce
  <2>1. PICK m : m = manifest
    OBVIOUS
  <2> QED BY <2>1, NamesOnce
<1> QED BY <1>1, RunInvariance, PTL

-----------------------------------------------------------------------------
(* The run implements ExactlyOnce *)

OutTimes == [r \in Rows |-> IF sound THEN Times(r) ELSE 0]
OutOver == sound /\ Over

\* Row r is in the output.
Given(r) == \E i \in Stored \cup dropped : r \in i.rows
GivenTimes == [r \in Rows |-> IF Given(r) THEN 1 ELSE 0]
NoTimes == [r \in Rows |-> 0]

\* The output holds a row once or not at all.
LEMMA TimesAre ==
  ASSUME TypeInv, SoundInv, NEW r
  PROVE  Times(r) = IF Given(r) THEN 1 ELSE 0
<1>1. ItemsOK /\ PlacesOK /\ ContentsOK
  BY DEF SoundInv
<1>2. Stored \subseteq Known /\ dropped \subseteq Known /\ Distinct(Known) /\ Stored \cap dropped = {}
  BY <1>1 DEF Known, Sunk, ItemsOK, PlacesOK
<1>3. \A d \in dest : d.data \subseteq Stored
  BY DEF Stored
<1>4. ASSUME NEW b \in InFiles(dest, r), NEW c \in InFiles(dest, r) PROVE b = c
  <2>1. PICK d \in dest : \E i \in d.data : b = <<d.name, i>> /\ r \in i.rows
    BY CopyIs
  <2>2. PICK e \in dest : \E j \in e.data : c = <<e.name, j>> /\ r \in j.rows
    BY CopyIs
  <2>3. PICK i \in d.data : b = <<d.name, i>> /\ r \in i.rows
    BY <2>1
  <2>4. PICK j \in e.data : c = <<e.name, j>> /\ r \in j.rows
    BY <2>2
  <2>5. i \in Known /\ j \in Known
    BY <1>2, <1>3
  <2>6. i = j
    BY <1>2, <2>3, <2>4, <2>5 DEF Distinct
  <2>7. d = e
    BY <1>1, <2>6 DEF ContentsOK
  <2> QED BY <2>3, <2>4, <2>6, <2>7
<1>5. \A i, j \in Holding(dropped, r) : i = j
  BY <1>2, HoldingOne
<1>6. Cardinality(InFiles(dest, r)) = IF InFiles(dest, r) = {} THEN 0 ELSE 1
  BY <1>4, AtMostOne
<1>7. Cardinality(Holding(dropped, r)) = IF Holding(dropped, r) = {} THEN 0 ELSE 1
  BY <1>5, AtMostOne
<1>8. InFiles(dest, r) # {} <=> \E i \in Stored : r \in i.rows
  <2>1. ASSUME InFiles(dest, r) # {} PROVE \E i \in Stored : r \in i.rows
    <3>1. PICK c : c \in InFiles(dest, r)
      BY <2>1
    <3>2. PICK d \in dest : \E i \in d.data : r \in i.rows
      BY <3>1, CopyIs
    <3> QED BY <1>3, <3>2
  <2>2. ASSUME NEW i \in Stored, r \in i.rows PROVE InFiles(dest, r) # {}
    <3>1. PICK d \in dest : i \in d.data
      BY <2>2 DEF Stored
    <3>2. <<d.name, i>> \in InFiles(dest, r)
      BY <2>2, <3>1, CopyIs
    <3> QED BY <3>2
  <2> QED BY <2>1, <2>2
<1>9. Holding(dropped, r) # {} <=> \E i \in dropped : r \in i.rows
  BY DEF Holding
<1>10. ~(InFiles(dest, r) # {} /\ Holding(dropped, r) # {})
  <2>1. ASSUME NEW i \in Stored, NEW j \in dropped, r \in i.rows, r \in j.rows PROVE FALSE
    BY <1>2, <2>1 DEF Distinct
  <2> QED BY <1>8, <1>9, <2>1
<1>11. Given(r) <=> InFiles(dest, r) # {} \/ Holding(dropped, r) # {}
  BY <1>8, <1>9 DEF Given
<1> QED BY <1>6, <1>7, <1>10, <1>11 DEF Times

\* What the mapping is of the state.
OutputOK == OutTimes = IF sound THEN GivenTimes ELSE NoTimes

\* The output is what was given, in a run whose resumes were sound.
LEMMA OutputIs == RunInv => OutputOK
<1> SUFFICES ASSUME RunInv PROVE OutputOK
  OBVIOUS
<1>1. ASSUME sound PROVE OutTimes = GivenTimes
  <2>1. \A r \in Rows : Times(r) = IF Given(r) THEN 1 ELSE 0
    BY <1>1, TimesAre DEF RunInv
  <2> QED BY <1>1, <2>1 DEF OutTimes, GivenTimes
<1>2. ASSUME ~sound PROVE OutTimes = NoTimes
  BY <1>2 DEF OutTimes, NoTimes
<1> QED BY <1>1, <1>2 DEF OutputOK

\* Only finish, and only once, ends the output.
LEMMA PhaseStep ==
  ASSUME Working
  PROVE  phase' = phase \/ (FinishSink /\ phase = "open" /\ dest' = dest /\ dropped' = dropped)
<1>1. ASSUME UNCHANGED sinkVars PROVE phase' = phase
  BY <1>1 DEF sinkVars
<1>2. ASSUME NEW i, Issue(i) \/ PushRead(i) \/ Record(i) \/ Forget(i) \/ TakeWork(i) \/ Apply(i) \/ StartCheckpoint(i)
      PROVE  UNCHANGED sinkVars
  BY <1>2 DEF Issue, PushRead, Record, Forget, TakeWork, Apply, StartCheckpoint
<1>3. ASSUME \/ Claim \/ SetCommitted \/ UpdateWatermark \/ ReadReached \/ ReadSinkState \/ ReadCursor
             \/ WriteManifest \/ ManifestFails
      PROVE  UNCHANGED sinkVars
  BY <1>3 DEF Claim, SetCommitted, UpdateWatermark, ReadReached, ReadSinkState, ReadCursor, WriteManifest,
                 ManifestFails
<1>4. ASSUME NEW i, ApplyFails(i) \/ WriteMorsel(i, TRUE) \/ WriteMorsel(i, FALSE) PROVE phase' = phase
  BY <1>4 DEF ApplyFails, SinkSkip, WriteMorsel, Encode, sinkVars
<1>5. ASSUME RollSettles \/ FlushSink PROVE phase' = phase
  BY <1>5 DEF RollSettles, FlushSink, PutLands, Commit, Flush, sinkVars
<1>6. ASSUME FinishSink PROVE phase = "open" /\ dest' = dest /\ dropped' = dropped
  BY <1>6 DEF FinishSink, Running, FinishRoll, FinishClosed, FinishCommit
<1> QED BY <1>1, <1>2, <1>3, <1>4, <1>5, <1>6, Zenon DEF Working

\* What is in the store and what was skipped only grow.
LEMMA GivenGrows ==
  ASSUME dest \subseteq dest', dropped \subseteq dropped', NEW r, Given(r)
  PROVE  Given(r)'
BY DEF Given, Stored

\* They only shrink.
LEMMA GivenShrinks ==
  ASSUME dest' \subseteq dest, dropped' \subseteq dropped, NEW r, Given(r)'
  PROVE  Given(r)
BY DEF Given, Stored

\* What the output can be.
LEMMA GivenTypes ==
  /\ GivenTimes \in [Rows -> {0, 1}] /\ \A r \in Rows : GivenTimes[r] = IF Given(r) THEN 1 ELSE 0
  /\ NoTimes \in [Rows -> {0, 1}] /\ \A r \in Rows : NoTimes[r] = 0
BY DEF GivenTimes, NoTimes

\* A finished output does not change.
LEMMA FinishedStays ==
  ASSUME TypeInv, SoundInv, Carries, phase = "finished"
  PROVE  dest' = dest /\ dropped' = dropped
<1>1. puts = {} /\ Drained
  BY DEF SoundInv, FinishOK
<1>2. Aloft = {}
  BY <1>1 DEF Aloft, Drained, Opened, Rolled
<1>3. Grow
  BY DEF Carries
<1>4. dest' = dest
  BY <1>1, <1>3 DEF Grow
<1>5. dropped \subseteq dropped' /\ \A i \in dropped' \ dropped : i \in Aloft
  BY <1>3 DEF Grow
<1>6. dropped' = dropped
  BY <1>2, <1>5
<1> QED BY <1>4, <1>6

\* When finish has returned, every row is in the output.
LEMMA FinishedGives ==
  ASSUME TypeInv, SoundInv, phase = "finished", NEW r \in Rows
  PROVE  Given(r)
<1>1. puts = {} /\ Drained
  BY DEF SoundInv, FinishOK
<1>2. Known = Stored \cup dropped
  BY <1>1 DEF Known, Sunk, Drained, Opened, Rolled
<1>3. r \in 0 .. cursor.row - 1
  BY <1>1 DEF Drained, Rows
<1>4. \E i \in Known : r \in i.rows
  BY <1>3 DEF SoundInv, ItemsOK
<1> QED BY <1>2, <1>4 DEF Given

AllGiven == sound /\ phase = "finished" => \A r \in Rows : Given(r)

\* In a finished run every row was given.
LEMMA FinishedAll == RunInv => AllGiven
BY FinishedGives DEF RunInv, AllGiven

\* The actions of ExactlyOnce, on the output of the run.
OutDeliver ==
  /\ ~OutOver /\ UNCHANGED OutOver
  /\ OutTimes' \in [Rows -> {0, 1}]
  /\ \A r \in Rows : OutTimes'[r] >= OutTimes[r]
OutFinish ==
  /\ \A r \in Rows : OutTimes[r] = 1
  /\ OutOver' = TRUE
  /\ UNCHANGED OutTimes
OutTakeBack ==
  /\ OutOver' = FALSE
  /\ OutTimes' \in [Rows -> {0, 1}]
  /\ \A r \in Rows : OutTimes'[r] <= OutTimes[r]
OutStep == OutDeliver \/ OutFinish \/ OutTakeBack \/ UNCHANGED <<OutTimes, OutOver>>

\* A run that was resumed from an incomplete manifest stays one.
LEMMA UnsoundStays ==
  ASSUME [RRNext]_rrVars, ~sound
  PROVE  ~sound'
<1>1. CASE Working
  BY <1>1, SoundKept, Zenon
<1>2. CASE CrashAndResume
  <2>1. sound' = (sound /\ Complete(manifest))
    BY <1>2, Zenon DEF CrashAndResume
  <2> QED BY <2>1, Zenon
<1>3. CASE UNCHANGED rrVars
  <2>1. sound' = sound
    BY <1>3 DEF rrVars, lifeVars
  <2> QED BY <2>1, Zenon
<1> QED BY <1>1, <1>2, <1>3, NextIs

\* Whether the output is finished.
LEMMA OverIs ==
  /\ (~sound \/ phase # "finished") => OutOver = FALSE
  /\ (sound /\ phase = "finished") => OutOver = TRUE
BY DEF OutOver, Over

\* A step of a sound run.
LEMMA SoundOutput ==
  ASSUME RunInv, RunInv', [RRNext]_rrVars, sound, sound', OutTimes = GivenTimes, OutTimes' = GivenTimes'
  PROVE  OutStep
<1>1. TypeInv /\ TypeInv' /\ SoundInv /\ SoundInv'
  BY DEF RunInv
<1>2. GivenTimes \in [Rows -> {0, 1}] /\ \A r \in Rows : GivenTimes[r] = IF Given(r) THEN 1 ELSE 0
  BY GivenTypes
<1>3. GivenTimes' \in [Rows -> {0, 1}] /\ \A r \in Rows : GivenTimes'[r] = IF Given(r)' THEN 1 ELSE 0
  BY DEF GivenTimes
<1>4. /\ phase # "finished" => OutOver = FALSE
      /\ phase = "finished" => OutOver = TRUE
      /\ phase' # "finished" => OutOver' = FALSE
      /\ phase' = "finished" => OutOver' = TRUE
  BY DEF OutOver, Over
<1>5. ASSUME dest' = dest, dropped' = dropped PROVE OutTimes' = OutTimes
  BY <1>5 DEF GivenTimes, Given, Stored
<1>6. ASSUME dest' = dest, dropped' = dropped, phase' = phase PROVE OutStep
  <2>1. OutTimes' = OutTimes
    BY <1>5, <1>6
  <2>2. OutOver' = OutOver
    <3>1. CASE phase = "finished"
      <4>1. OutOver = TRUE /\ OutOver' = TRUE
        BY <1>4, <1>6, <3>1, Zenon
      <4> QED BY <4>1, Zenon
    <3>2. CASE phase # "finished"
      <4>1. OutOver = FALSE /\ OutOver' = FALSE
        BY <1>4, <1>6, <3>2, Zenon
      <4> QED BY <4>1, Zenon
    <3> QED BY <3>1, <3>2, Zenon
  <2> QED BY <2>1, <2>2, Zenon DEF OutStep
<1>7. CASE CrashAndResume
  <2>1. SinkResume(manifest.doc, manifest.committed) /\ dropped' = {i \in dropped : i.seq <= manifest.committed}
    BY <1>7, Zenon DEF CrashAndResume
  <2>2. dest' \subseteq dest /\ dropped' \subseteq dropped /\ phase' = "open"
    BY <2>1 DEF SinkResume
  <2>3. \A r \in Rows : Given(r)' => Given(r)
    BY <2>2, GivenShrinks
  <2>4. \A r \in Rows : OutTimes'[r] <= OutTimes[r]
    BY <1>2, <1>3, <2>3
  <2>5. OutOver' = FALSE
    BY <1>4, <2>2
  <2> QED BY <1>3, <2>4, <2>5, Zenon DEF OutStep, OutTakeBack
<1>8. CASE UNCHANGED rrVars
  BY <1>6, <1>8 DEF rrVars, sinkVars
<1>9. CASE Working /\ phase = "finished"
  <2>1. Carries
    BY <1>1, <1>9, WorkCarries
  <2>2. dest' = dest /\ dropped' = dropped
    BY <1>1, <1>9, <2>1, FinishedStays
  <2>3. phase' = phase
    BY <1>9, PhaseStep
  <2> QED BY <1>6, <2>2, <2>3
<1>10. CASE Working /\ phase # "finished" /\ phase' # "finished"
  <2>1. Carries
    BY <1>1, <1>10, WorkCarries
  <2>2. dest \subseteq dest' /\ dropped \subseteq dropped'
    BY <2>1 DEF Carries, Grow
  <2>3. \A r \in Rows : Given(r) => Given(r)'
    BY <2>2, GivenGrows
  <2>4. \A r \in Rows : OutTimes'[r] >= OutTimes[r]
    BY <1>2, <1>3, <2>3
  <2>5. OutOver = FALSE /\ OutOver' = FALSE
    BY <1>4, <1>10
  <2>6. OutDeliver
    BY <1>3, <2>4, <2>5, Zenon DEF OutDeliver
  <2> QED BY <2>6 DEF OutStep
<1>11. CASE Working /\ phase # "finished" /\ phase' = "finished"
  <2>1. dest' = dest /\ dropped' = dropped
    BY <1>11, PhaseStep
  <2>2. OutTimes' = OutTimes
    BY <1>5, <2>1
  <2>3. RunInv' => AllGiven'
    BY FinishedAll, PTL
  <2>4. \A r \in Rows : Given(r)'
    BY <1>11, <2>3 DEF AllGiven
  <2>5. \A r \in Rows : OutTimes'[r] = 1
    BY <1>3, <2>4
  <2>6. \A r \in Rows : OutTimes[r] = 1
    BY <2>2, <2>5
  <2>7. OutOver' = TRUE
    BY <1>4, <1>11
  <2> QED BY <2>2, <2>6, <2>7, Zenon DEF OutStep, OutFinish
<1> QED BY <1>7, <1>8, <1>9, <1>10, <1>11, NextIs

\* A step of the run is a step of the output, or changes nothing of it.
LEMMA OutputStep ==
  ASSUME RunInv, RunInv', [RRNext]_rrVars
  PROVE  OutStep
<1>1. OutputOK /\ OutputOK'
  <2>1. RunInv' => OutputOK'
    BY OutputIs, PTL
  <2> QED BY <2>1, OutputIs
<1>2. /\ sound => OutTimes = GivenTimes
      /\ ~sound => OutTimes = NoTimes
      /\ sound' => OutTimes' = GivenTimes'
      /\ ~sound' => OutTimes' = NoTimes'
  BY <1>1 DEF OutputOK
<1>3. NoTimes' = NoTimes
  BY DEF NoTimes
<1>4. ~sound' => OutOver' = FALSE
  BY DEF OutOver, Over
<1>5. CASE ~sound
  <2>1. ~sound'
    BY <1>5, UnsoundStays
  <2>2. OutTimes' = OutTimes
    BY <1>2, <1>3, <1>5, <2>1
  <2>3. OutOver = FALSE
    BY <1>5, OverIs
  <2>4. OutOver' = OutOver
    BY <1>4, <2>1, <2>3, Zenon
  <2> QED BY <2>2, <2>4, Zenon DEF OutStep
<1>6. CASE sound /\ ~sound'
  <2>1. OutOver' = FALSE /\ OutTimes' = NoTimes /\ OutTimes = GivenTimes
    BY <1>2, <1>3, <1>4, <1>6
  <2>2. OutTimes' \in [Rows -> {0, 1}]
    BY <2>1, GivenTypes
  <2>3. \A r \in Rows : OutTimes'[r] <= OutTimes[r]
    BY <2>1, GivenTypes
  <2> QED BY <2>1, <2>2, <2>3, Zenon DEF OutStep, OutTakeBack
<1>7. CASE sound /\ sound'
  BY <1>2, <1>7, SoundOutput
<1> QED BY <1>5, <1>6, <1>7

(* A run whose resumes all start from complete manifests implements          *)
(* ExactlyOnce: no row is ever in its output twice, rows leave the output    *)
(* only at a resume, and when the sink's finish has returned every row is    *)
(* there, in a file or dropped by the skip policy.                           *)
THEOREM RunDeliversExactlyOnce == RRSpec => DeliversExactlyOnce
<1>1. RRInit => Output!Init
  <2> SUFFICES ASSUME RRInit PROVE Output!Init
    OBVIOUS
  <2>1. dest = {} /\ dropped = {} /\ phase = "open"
    BY DEF RRInit, SinkInit
  <2>2. \A r \in Rows : Times(r) = 0
    <3>1. \A r : InFiles(dest, r) = {} /\ Holding(dropped, r) = {}
      BY <2>1 DEF InFiles, Holding
    <3>2. Cardinality({}) = 0
      BY FS_EmptySet
    <3> QED BY <3>1, <3>2 DEF Times
  <2>3. OutTimes = [r \in Rows |-> 0] /\ OutOver = FALSE
    BY <2>1, <2>2 DEF OutTimes, OutOver, Over
  <2> QED BY <2>3 DEF Output!Init, OutTimes, OutOver
<1>2. RunInv /\ RunInv' /\ [RRNext]_rrVars => [Output!Next]_<<OutTimes, OutOver>>
  <2> SUFFICES ASSUME RunInv, RunInv', [RRNext]_rrVars PROVE [Output!Next]_<<OutTimes, OutOver>>
    OBVIOUS
  <2>1. OutStep
    BY OutputStep
  <2>2. OutDeliver => Output!Deliver
    BY Zenon DEF OutDeliver, Output!Deliver, OutTimes, OutOver
  <2>3. OutFinish => Output!Finish
    BY Zenon DEF OutFinish, Output!Finish, OutTimes, OutOver
  <2>4. OutTakeBack => Output!TakeBack
    BY Zenon DEF OutTakeBack, Output!TakeBack, OutTimes, OutOver
  <2> QED BY <2>1, <2>2, <2>3, <2>4, Zenon DEF OutStep, Output!Next
<1>3. DeliversExactlyOnce <=> Output!Init /\ [][Output!Next]_<<OutTimes, OutOver>>
  BY DEF DeliversExactlyOnce, Output!Spec, OutTimes, OutOver
<1> QED BY <1>1, <1>2, <1>3, RunInvariance, PTL DEF RRSpec
=============================================================================
