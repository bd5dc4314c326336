---------------------------- MODULE ResumeSteps -----------------------------
(***************************************************************************)
(* A step of a working run, which is any but a resume: where the morsels,  *)
(* the files, the lineage and what the checkpoint has gathered are after it. *)
(***************************************************************************)
EXTENDS ResumeTypes

USE ZenonT(3), SMTT(30)

-----------------------------------------------------------------------------
(* A step of the run *)

\* Everything but a resume.
Working ==
  \/ \E size \in Sizes : Issue(size)
  \/ \E i \in issued : PushRead(i)
  \/ \E p \in pushing : Record(p)
  \/ \E i \in landed : Forget(i)
  \/ \E i \in q[0] : TakeWork(i)
  \/ \E i \in work : Apply(i) \/ ApplyFails(i)
  \/ \E i \in q[1] : WriteMorsel(i, TRUE) \/ WriteMorsel(i, FALSE)
  \/ RollSettles
  \/ Claim
  \/ SetCommitted
  \/ FinishSink
  \/ \E portable \in Portable : StartCheckpoint(portable)
  \/ FlushSink
  \/ UpdateWatermark
  \/ ReadReached
  \/ ReadSinkState
  \/ ReadCursor
  \/ WriteManifest
  \/ ManifestFails

\* What the sink and the ledger keep, and where the new comes from.
Grow ==
  /\ nextIndex <= nextIndex' /\ watermarkNext <= watermarkNext'
  /\ dest \subseteq dest' /\ dropped \subseteq dropped' /\ committed \subseteq committed'
  /\ \A d \in dest' \ dest : \E p \in puts : d.name = p.name /\ d.data = p.data
  /\ \A i \in dropped' \ dropped : i \in Aloft
  /\ \A f \in committed' \ committed : \E p \in puts : f.seqs = Seqs(p.data)
  /\ \A p \in puts' : \/ \E o \in puts : p.name = o.name
                      \/ current # None /\ p.name = current.name
                      \/ p.name >= nextIndex
  /\ current' # None => \/ current # None /\ current'.name = current.name
                        \/ current'.name >= nextIndex

\* The sink is left alone.
LEMMA GrowFrame ==
  ASSUME SinkOK, UNCHANGED <<committed, nextIndex, watermarkNext, current, puts, dest, dropped>>
  PROVE  Grow
<1>1. nextIndex <= nextIndex /\ watermarkNext <= watermarkNext
  BY DEF SinkOK
<1> QED BY <1>1 DEF Grow

\* Files are opened or handed to the reactor.
LEMMA GrowUp ==
  ASSUME SinkOK, FilesUp, dropped' = dropped
  PROVE  Grow
<1>1. nextIndex \in Nat /\ watermarkNext \in Nat
  BY DEF SinkOK
<1>2. nextIndex <= nextIndex' /\ watermarkNext <= watermarkNext'
  BY <1>1 DEF FilesUp
<1>3. \A n : NewName(n) => n >= nextIndex \/ (current # None /\ n = current.name)
  BY <1>1 DEF NewName
<1>4. \A p \in puts' : \/ \E o \in puts : p.name = o.name
                       \/ current # None /\ p.name = current.name
                       \/ p.name >= nextIndex
  BY <1>3 DEF FilesUp
<1>5. current' # None => \/ current # None /\ current'.name = current.name
                         \/ current'.name >= nextIndex
  BY <1>3 DEF FilesUp
<1> QED BY <1>2, <1>4, <1>5 DEF Grow, FilesUp

\* A put lands.
LEMMA GrowLand ==
  ASSUME SinkOK, FilesOK, ContentsOK, NEW p \in puts, PutLands(p), dropped' = dropped
  PROVE  Grow
<1>1. /\ UNCHANGED <<committed, nextIndex, watermarkNext, current>>
      /\ dest' = dest \cup {[name |-> p.name, data |-> p.data]}
  BY DEF PutLands, ledgerVars
<1>2. \A o \in puts' : \E x \in puts : o.name = x.name
  BY LandMoves
<1>3. nextIndex <= nextIndex /\ watermarkNext <= watermarkNext
  BY DEF SinkOK
<1>4. \A d \in dest' \ dest : d.name = p.name /\ d.data = p.data
  BY <1>1
<1> QED BY <1>1, <1>2, <1>3, <1>4 DEF Grow

\* A stored file is recorded.
LEMMA GrowRecord ==
  ASSUME SinkOK, NEW p \in puts, puts' = puts \ {p}, watermarkNext <= watermarkNext',
         committed' = committed \cup {[name |-> p.name, seqs |-> Seqs(p.data)]},
         UNCHANGED <<nextIndex, current, dest, dropped>>
  PROVE  Grow
<1>1. \A f \in committed' \ committed : f.seqs = Seqs(p.data)
  OBVIOUS
<1>2. nextIndex <= nextIndex
  BY DEF SinkOK
<1> QED BY <1>1, <1>2 DEF Grow

\* What a step must keep that moves morsels: where they are, and what they are.
Moved ==
  /\ Grow /\ FilesOK' /\ ContentsOK' /\ PlacesOK' /\ ItemsOK'
  /\ Known' = Known /\ cursor' = cursor /\ Aloft' \subseteq Aloft

\* The files are left alone.
LEMMA FilesFrame ==
  ASSUME FilesOK, ContentsOK, UNCHANGED <<committed, nextIndex, current, puts, dest>>
  PROVE  FilesOK' /\ ContentsOK' /\ Opened' = Opened /\ Rolled' = Rolled /\ Stored' = Stored
<1>1. FilesOK'
  BY DEF FilesOK, Seqs
<1>2. ContentsOK'
  BY DEF ContentsOK
<1>3. Opened' = Opened /\ Rolled' = Rolled /\ Stored' = Stored
  BY DEF Opened, Rolled, Stored
<1> QED BY <1>1, <1>2, <1>3

\* No morsel appears or goes.
LEMMA ItemsFrame ==
  ASSUME ItemsOK, Known' = Known, cursor' = cursor
  PROVE  ItemsOK'
BY DEF ItemsOK, Distinct

\* A step that leaves the sink, the source and the queues alone moves nothing.
LEMMA StillMoved ==
  ASSUME TypeInv, SoundInv, UNCHANGED <<sinkVars, sourceVars, q, work, dropped>>
  PROVE  Moved
<1>1. SinkOK /\ FilesOK /\ ContentsOK /\ PlacesOK /\ ItemsOK
  BY DEF TypeInv, SoundInv
<1>2. /\ UNCHANGED <<committed, nextIndex, watermarkNext, current, puts, dest, dropped>>
      /\ UNCHANGED <<cursor, issued, again, landed, q, work>>
  BY DEF sinkVars, ledgerVars, sourceVars
<1>3. FilesOK' /\ ContentsOK' /\ Opened' = Opened /\ Rolled' = Rolled /\ Stored' = Stored
  BY <1>1, <1>2, FilesFrame
<1>4. Known' = Known /\ Aloft' = Aloft
  BY <1>2, <1>3 DEF Known, Moving, Sunk, Aloft
<1>5. PlacesOK'
  BY <1>1, <1>2, <1>3 DEF PlacesOK, Moving, Sunk
<1>6. ItemsOK'
  BY <1>1, <1>2, <1>4, ItemsFrame
<1> QED BY <1>1, <1>2, <1>3, <1>4, <1>5, <1>6, GrowFrame DEF Moved

\* A read is done and its morsel enters the first queue.
LEMMA PushReadMoved ==
  ASSUME TypeInv, SoundInv, NEW i \in issued, PushRead(i)
  PROVE  Moved
<1>1. /\ SinkOK /\ PipeOK /\ FilesOK /\ ContentsOK /\ PlacesOK /\ ItemsOK /\ i \in Item
  BY DEF TypeInv, SoundInv, PipeOK
<1>2. /\ UNCHANGED <<committed, nextIndex, watermarkNext, current, puts, dest, dropped>>
      /\ UNCHANGED <<cursor, issued, work>> /\ landed = {} /\ ended = FALSE
      /\ Enter(i, 0) /\ landed' = (IF ended' THEN {} ELSE {i})
  BY <1>1 DEF PushRead, sinkVars, ledgerVars, Running, PipeOK
<1>3. FilesOK' /\ ContentsOK' /\ Opened' = Opened /\ Rolled' = Rolled /\ Stored' = Stored
  BY <1>1, <1>2, FilesFrame
<1>4. \/ ended' = TRUE /\ q' = q
      \/ ended' = FALSE /\ q'[0] = q[0] \cup {i} /\ q'[1] = q[1]
  BY <1>1, <1>2, EnterFacts, Stages, Zenon
<1>5. \/ landed' = landed /\ q'[0] = q[0] /\ q'[1] = q[1]
      \/ landed' = {i} /\ q'[0] = q[0] \cup {i} /\ q'[1] = q[1]
  BY <1>2, <1>4
<1>6. Known' = Known /\ Aloft' \subseteq Aloft
  BY <1>2, <1>3, <1>5 DEF Known, Moving, Sunk, Aloft
<1>7. PlacesOK'
  BY <1>1, <1>2, <1>3, <1>5 DEF PlacesOK, Moving, Sunk
<1>8. ItemsOK'
  BY <1>1, <1>2, <1>6, ItemsFrame
<1> QED BY <1>1, <1>2, <1>3, <1>6, <1>7, <1>8, GrowFrame DEF Moved

\* The source drive forgets a read.
LEMMA ForgetMoved ==
  ASSUME TypeInv, SoundInv, NEW i \in landed, Forget(i)
  PROVE  Moved /\ issued' = issued \ {i}
<1>1. /\ SinkOK /\ PipeOK /\ FilesOK /\ ContentsOK /\ PlacesOK /\ ItemsOK
  BY DEF TypeInv, SoundInv
<1>2. /\ UNCHANGED <<committed, nextIndex, watermarkNext, current, puts, dest, dropped>>
      /\ UNCHANGED <<cursor, q, work>>
      /\ landed' = landed \ {i} /\ issued' = issued \ WithSeq(issued, i.seq)
  BY <1>1 DEF Forget, sinkVars, ledgerVars
<1>3. FilesOK' /\ ContentsOK' /\ Opened' = Opened /\ Rolled' = Rolled /\ Stored' = Stored
  BY <1>1, <1>2, FilesFrame
<1>4. issued' = issued \ {i} /\ i \in issued
  BY <1>1, <1>2 DEF PipeOK, One, WithSeq
<1>5. Known' = Known /\ Aloft' \subseteq Aloft
  BY <1>1, <1>2, <1>3, <1>4 DEF Known, Moving, Sunk, Aloft, PlacesOK
<1>6. PlacesOK'
  BY <1>1, <1>2, <1>3, <1>4 DEF PlacesOK, Moving, Sunk
<1>7. ItemsOK'
  BY <1>1, <1>2, <1>5, ItemsFrame
<1> QED BY <1>1, <1>2, <1>3, <1>4, <1>5, <1>6, <1>7, GrowFrame DEF Moved

\* A worker pops a morsel.
LEMMA TakeWorkMoved ==
  ASSUME TypeInv, SoundInv, NEW i \in q[0], TakeWork(i)
  PROVE  Moved
<1>1. /\ SinkOK /\ PipeOK /\ FilesOK /\ ContentsOK /\ PlacesOK /\ ItemsOK
  BY DEF TypeInv, SoundInv
<1>2. /\ UNCHANGED <<committed, nextIndex, watermarkNext, current, puts, dest, dropped>>
      /\ UNCHANGED <<cursor, issued, landed>> /\ work' = work \cup {i}
      /\ q' = [q EXCEPT ![0] = @ \ {i}]
  BY <1>1 DEF TakeWork, sinkVars, ledgerVars, sourceVars
<1>3. FilesOK' /\ ContentsOK' /\ Opened' = Opened /\ Rolled' = Rolled /\ Stored' = Stored
  BY <1>1, <1>2, FilesFrame
<1>4. q'[0] = q[0] \ {i} /\ q'[1] = q[1]
  BY <1>1, <1>2 DEF PipeOK
<1>5. Known' = Known /\ Aloft' \subseteq Aloft
  BY <1>2, <1>3, <1>4 DEF Known, Moving, Sunk, Aloft
<1>6. PlacesOK'
  BY <1>1, <1>2, <1>3, <1>4 DEF PlacesOK, Moving, Sunk
<1>7. ItemsOK'
  BY <1>1, <1>2, <1>5, ItemsFrame
<1> QED BY <1>1, <1>2, <1>3, <1>5, <1>6, <1>7, GrowFrame DEF Moved

\* The catalog accepts the push: no other morsel has the number.
LEMMA ApplyMoved ==
  ASSUME TypeInv, SoundInv, NEW i \in work, Apply(i)
  PROVE  Moved /\ pushing' = pushing \cup {[item |-> i, stage |-> 1]}
<1>1. /\ SinkOK /\ PipeOK /\ FilesOK /\ ContentsOK /\ PlacesOK /\ ItemsOK /\ i \in Item
  BY DEF TypeInv, SoundInv, PipeOK
<1>2. /\ UNCHANGED <<committed, nextIndex, watermarkNext, current, puts, dest, dropped>>
      /\ UNCHANGED <<cursor, issued, landed>> /\ work' = work \ {i}
      /\ Enter(i, 1)
  BY <1>1 DEF Apply, sinkVars, ledgerVars, sourceVars
<1>3. FilesOK' /\ ContentsOK' /\ Opened' = Opened /\ Rolled' = Rolled /\ Stored' = Stored
  BY <1>1, <1>2, FilesFrame
<1>4. ~OnQueue(i, 1)
  <2>1. \A j \in q[1] : j.seq = i.seq => j = i
    BY <1>1 DEF ItemsOK, Distinct, Known, Moving
  <2> QED BY <1>1, <2>1 DEF OnQueue, WithSeq, PlacesOK
<1>5. q'[1] = q[1] \cup {i} /\ q'[0] = q[0] /\ pushing' = pushing \cup {[item |-> i, stage |-> 1]}
  BY <1>1, <1>2, <1>4, EnterFacts, Stages, Zenon
<1>6. Known' = Known /\ Aloft' \subseteq Aloft
  BY <1>2, <1>3, <1>5 DEF Known, Moving, Sunk, Aloft
<1>7. PlacesOK'
  BY <1>1, <1>2, <1>3, <1>5 DEF PlacesOK, Moving, Sunk
<1>8. ItemsOK'
  BY <1>1, <1>2, <1>6, ItemsFrame
<1> QED BY <1>1, <1>2, <1>3, <1>5, <1>6, <1>7, <1>8, GrowFrame DEF Moved

\* What the ledger counts, and what is still to be counted.
LEMMA AloftAbove ==
  ASSUME TypeInv, SoundInv
  PROVE  /\ \A i \in Known : i \in Item /\ i.seq \in Nat
         /\ Aloft \subseteq Known
         /\ \A i \in Aloft : i.seq >= contiguousNext
         /\ \A n \in Counted : n \in Nat /\ n < cursor.seq
         /\ cursor.seq \in Nat /\ cursor.row \in Nat /\ contiguousNext \in Nat
<1>1. SinkOK /\ PipeOK /\ CountsOK
  BY DEF TypeInv, SoundInv
<1>2. Opened \subseteq Item
  BY <1>1 DEF SinkOK, OpenFiles, Opened
<1>3. Rolled \subseteq Item
  BY <1>1 DEF SinkOK, PutFiles, Rolled
<1>4. Stored \subseteq Item
  BY <1>1 DEF SinkOK, OpenFiles, Stored
<1>5. issued \subseteq Item /\ Moving \subseteq Item /\ dropped \subseteq Item
  BY <1>1, Stages DEF PipeOK, Moving
<1>6. \A i \in Known : i \in Item
  BY <1>2, <1>3, <1>4, <1>5 DEF Known, Sunk
<1>7. \A i \in Known : i.seq \in Nat
  BY <1>6, ItemFacts
<1>8. Aloft \subseteq Known
  BY DEF Aloft, Known, Sunk
<1>9. contiguousNext \in Nat /\ cursor.seq \in Nat /\ cursor.row \in Nat
  BY <1>1 DEF SinkOK, PipeOK, Cursors
<1>10. \A i \in Aloft : i.seq \notin Counted
  BY <1>1 DEF CountsOK
<1>11. ASSUME NEW i \in Aloft PROVE i.seq >= contiguousNext
  <2>1. i.seq \in Nat /\ i.seq \notin 0 .. contiguousNext - 1
    BY <1>7, <1>8, <1>10 DEF Counted
  <2> QED BY <1>9, <2>1
<1>12. ASSUME NEW n \in Counted PROVE n \in Nat /\ n < cursor.seq
  <2>1. done \subseteq Nat /\ (\A k \in done : k < cursor.seq) /\ contiguousNext <= cursor.seq
    BY <1>1 DEF SinkOK, Seq0, CountsOK
  <2> QED BY <1>9, <2>1 DEF Counted
<1> QED BY <1>6, <1>7, <1>8, <1>9, <1>11, <1>12

\* The numbers A come to be counted.
LEMMA CountsMove ==
  ASSUME TypeInv, SinkOK', SoundInv, NEW A \in SUBSET Nat, \A n \in A : n < cursor.seq,
         Counted' \subseteq Counted \cup A, contiguousNext <= contiguousNext',
         Aloft' \subseteq Aloft, \A i \in Aloft' : i.seq \notin A, cursor' = cursor, floor' = floor
  PROVE  CountsOK'
<1>1. /\ \A n \in Counted : n \in Nat /\ n < cursor.seq
      /\ cursor.seq \in Nat /\ contiguousNext \in Nat
  BY AloftAbove
<1>2. contiguousNext' \in Nat /\ done' \in SUBSET Seq0 /\ floor \in Int
  BY FileSinkAssumption DEF SinkOK, TypeInv, LifeOK
<1>3. \A n \in Counted' : n < cursor.seq
  BY <1>1
<1>4. done' \subseteq Counted' /\ \A n \in 0 .. contiguousNext' - 1 : n \in Counted'
  BY DEF Counted
<1>5. contiguousNext' <= cursor.seq
  <2>1. SUFFICES ASSUME contiguousNext' > cursor.seq PROVE FALSE
    BY <1>1, <1>2
  <2>2. cursor.seq \in 0 .. contiguousNext' - 1
    BY <1>1, <1>2, <2>1
  <2>3. cursor.seq < cursor.seq
    BY <1>3, <1>4, <2>2
  <2> QED BY <1>1, <2>3
<1>6. CountsOK
  BY DEF SoundInv
<1>7. \A i \in Aloft' : i.seq \notin Counted'
  BY <1>6 DEF CountsOK
<1>8. floor < contiguousNext'
  BY <1>1, <1>2, <1>6 DEF CountsOK
<1> QED BY <1>3, <1>4, <1>5, <1>7, <1>8 DEF CountsOK

\* The ledger counts no number more.
LEMMA CountsFrame ==
  ASSUME CountsOK, Aloft' \subseteq Aloft, UNCHANGED <<contiguousNext, done, cursor, floor>>
  PROVE  CountsOK'
BY DEF CountsOK, Counted

\* No watermark moves and no file is recorded.
LEMMA MarksFrame ==
  ASSUME MarksOK, UNCHANGED <<committed, openRanges, watermarkNext, reached, engine>>
  PROVE  MarksOK'
BY DEF MarksOK, Straddles

\* A file without a number below n is on one side of it.
LEMMA AboveStraddlesNot ==
  ASSUME NEW f, f.seqs \subseteq Nat, NEW n \in Int, \A b \in f.seqs : b >= n
  PROVE  ~Straddles(f, n)
BY DEF Straddles

\* Nor is a file without a number from n on on both sides.
LEMMA BelowStraddlesNot ==
  ASSUME NEW f, f.seqs \subseteq Nat, NEW n \in Int, \A b \in f.seqs : b < n
  PROVE  ~Straddles(f, n)
BY DEF Straddles

\* Ledger::advance keeps every file on one side of the marks.
LEMMA MarksMove ==
  ASSUME TypeInv, SinkOK', MarksOK, NEW d \in SUBSET Seq0, NEW files, Advance(d, files),
         \A f \in files : f.seqs \subseteq Seq0 /\ ~Straddles(f, watermarkNext),
         \A f \in committed' : f \in committed \/ f.seqs = {} \/ (f \in files /\ \A b \in f.seqs : b >= watermarkNext),
         openRanges \subseteq files, UNCHANGED <<reached, engine>>
  PROVE  MarksOK'
<1>1. SinkOK /\ IndexOK /\ N \in Nat
  BY FileSinkAssumption DEF TypeInv
<1>2. contiguousNext \in 0 .. N /\ watermarkNext \in 0 .. contiguousNext
  BY <1>1 DEF SinkOK
<1>3. /\ watermarkNext' \in watermarkNext .. contiguousNext'
      /\ contiguousNext' \in contiguousNext .. N
      /\ \A f \in files : ~Straddles(f, watermarkNext')
      /\ \A f \in files \ openRanges' : \A b \in f.seqs : b < watermarkNext'
  BY <1>2, AdvanceLedger
<1>4. /\ watermarkNext \in Nat /\ watermarkNext' \in Nat /\ watermarkNext <= watermarkNext'
      /\ reached + 1 \in Int /\ engine + 1 \in Int
      /\ reached + 1 <= watermarkNext /\ engine + 1 <= watermarkNext
  BY <1>1, <1>2, <1>3 DEF IndexOK
<1>5. \A f \in committed : f.seqs \subseteq Nat
  BY <1>1 DEF SinkOK, Files, Seq0
<1>6. \A f \in committed' : f.seqs \subseteq Nat
  BY DEF SinkOK, Files, Seq0
<1>7. ASSUME NEW f \in committed' \ openRanges', NEW b \in f.seqs PROVE b < watermarkNext'
  <2>1. CASE f \in files
    BY <1>3, <1>7, <2>1
  <2>2. CASE f \notin files
    <3>1. f \in committed \ openRanges /\ b \in Nat
      BY <1>6, <1>7, <2>2
    <3>2. b < watermarkNext
      BY <3>1 DEF MarksOK
    <3> QED BY <1>4, <3>1, <3>2
  <2> QED BY <2>1, <2>2
<1>8. ASSUME NEW f \in committed'
      PROVE  /\ ~Straddles(f, watermarkNext') /\ ~Straddles(f, reached + 1)
             /\ ~Straddles(f, engine + 1)
  <2>1. ~Straddles(f, watermarkNext')
    <3>1. CASE f \in files
      BY <1>3, <3>1
    <3>2. CASE f \notin openRanges'
      BY <1>4, <1>6, <1>7, <3>2, BelowStraddlesNot
    <3>3. openRanges' \subseteq files
      BY <1>2, AdvanceLedger
    <3> QED BY <3>1, <3>2, <3>3
  <2>2. ~Straddles(f, reached + 1) /\ ~Straddles(f, engine + 1)
    <3>1. CASE f \in committed
      BY <3>1 DEF MarksOK
    <3>2. CASE f \notin committed
      <4>1. \A b \in f.seqs : b \in Nat /\ b >= watermarkNext
        BY <1>6, <3>2
      <4>2. \A b \in f.seqs : b >= reached + 1 /\ b >= engine + 1
        BY <1>4, <4>1
      <4> QED BY <1>4, <1>6, <4>2, AboveStraddlesNot
    <3> QED BY <3>1, <3>2
  <2> QED BY <2>1, <2>2
<1> QED BY <1>7, <1>8 DEF MarksOK

\* The rest of a write, a flush or a finish: the file is recorded and its numbers are counted.
LEMMA CommitMoved ==
  ASSUME TypeInv, SinkOK', SoundInv, NEW p \in puts, p.put = "stored", puts' = puts \ {p},
         CommitFile(p.name, p.data), UNCHANGED <<nextIndex, current, dest, dropped>>,
         UNCHANGED <<cursor, issued, landed, q, work, reached, engine, floor>>
  PROVE  Moved /\ CountsOK' /\ MarksOK'
<1>1. SinkOK /\ FilesOK /\ ContentsOK /\ PlacesOK /\ ItemsOK /\ MarksOK
  BY DEF TypeInv, SoundInv
<1>2. /\ committed' = committed \cup {[name |-> p.name, seqs |-> Seqs(p.data)]}
      /\ contiguousNext' \in contiguousNext .. N /\ watermarkNext' \in watermarkNext .. contiguousNext'
      /\ Counted' \subseteq Counted \cup Seqs(p.data)
  BY <1>1, CommitTypes
<1>3. contiguousNext \in Nat /\ watermarkNext \in 0 .. contiguousNext /\ N \in Nat
  BY <1>1, FileSinkAssumption DEF SinkOK
<1>4. contiguousNext <= contiguousNext' /\ watermarkNext <= watermarkNext'
  BY <1>2, <1>3
<1>5. /\ FilesOK' /\ ContentsOK' /\ p.data \subseteq Stored /\ p.data \subseteq Rolled
      /\ Opened' = Opened /\ Rolled' = Rolled \ p.data /\ Stored' = Stored
  BY <1>1, <1>2, RecordMoves
<1>6. Known' = Known
  BY <1>5 DEF Known, Moving, Sunk
<1>7. Aloft' = Aloft \ p.data /\ p.data \subseteq Aloft
  BY <1>1, <1>5 DEF Aloft, PlacesOK, Moving, Sunk
<1>8. PlacesOK'
  BY <1>1, <1>5 DEF PlacesOK, Moving, Sunk
<1>9. Grow
  BY <1>1, <1>2, <1>4, GrowRecord
<1>10. Moved
  BY <1>1, <1>5, <1>6, <1>7, <1>8, <1>9, ItemsFrame DEF Moved
<1>11. /\ \A i \in Known : i \in Item /\ i.seq \in Nat
       /\ Aloft \subseteq Known /\ \A i \in Aloft : i.seq >= contiguousNext
  BY AloftAbove
<1>12. p.data \in SUBSET Item /\ Seqs(p.data) = {i.seq : i \in p.data} /\ Seqs(p.data) \in SUBSET Seq0
  BY <1>7, <1>11, ItemFacts
<1>13. CountsOK'
  <2>1. Seqs(p.data) \in SUBSET Nat /\ \A n \in Seqs(p.data) : n < cursor.seq
    BY <1>1, <1>7, <1>11, <1>12 DEF ItemsOK
  <2>2. ASSUME NEW i \in Aloft' PROVE i.seq \notin Seqs(p.data)
    <3>1. i \in Known /\ i \notin p.data /\ p.data \subseteq Known
      BY <1>7, <1>11
    <3>2. \A j \in p.data : j.seq # i.seq
      BY <1>1, <3>1 DEF ItemsOK, Distinct
    <3> QED BY <1>12, <3>2
  <2> QED BY <1>2, <1>4, <1>7, <2>1, <2>2, CountsMove
<1>14. MarksOK'
  <2> DEFINE f == [name |-> p.name, seqs |-> Seqs(p.data)]
             files == IF Seqs(p.data) = {} THEN openRanges ELSE openRanges \cup {f}
             d == done \cup Seqs(p.data)
  <2>1. Advance(d, files)
    BY DEF CommitFile
  <2>2. d \in SUBSET Seq0
    BY <1>1, <1>12 DEF SinkOK
  <2>3. f.seqs = Seqs(p.data) /\ f.seqs \subseteq Nat
    BY <1>12 DEF Seq0
  <2>4. \A b \in f.seqs : b >= watermarkNext
    <3>1. \A i \in p.data : i.seq \in Nat /\ i.seq >= contiguousNext
      BY <1>7, <1>11
    <3>2. \A b \in f.seqs : b \in Nat /\ b >= contiguousNext
      BY <1>12, <2>3, <3>1
    <3> QED BY <1>3, <3>2
  <2>5. \A g \in openRanges : g.seqs \subseteq Seq0 /\ ~Straddles(g, watermarkNext)
    BY <1>1 DEF SinkOK, Files, MarksOK
  <2>6. ~Straddles(f, watermarkNext)
    BY <1>3, <2>3, <2>4, AboveStraddlesNot
  <2>7. committed' = committed \cup {f}
    BY <1>2
  <2> HIDE DEF f
  <2>8. \A g \in files : g.seqs \subseteq Seq0 /\ ~Straddles(g, watermarkNext)
    BY <1>12, <2>3, <2>5, <2>6
  <2>9. \A g \in committed' : g \in committed \/ g.seqs = {} \/ (g \in files /\ \A b \in g.seqs : b >= watermarkNext)
    BY <2>3, <2>4, <2>7
  <2>10. openRanges \subseteq files
    OBVIOUS
  <2> HIDE DEF files, d
  <2> QED BY <1>1, <2>1, <2>2, <2>8, <2>9, <2>10, MarksMove
<1> QED BY <1>10, <1>13, <1>14

\* apply_policy with Skip: the number is counted.
LEMMA ApplyFailsMoved ==
  ASSUME TypeInv, SinkOK', SoundInv, NEW i \in work, ApplyFails(i)
  PROVE  Moved /\ CountsOK' /\ MarksOK'
<1>1. SinkOK /\ PipeOK /\ FilesOK /\ ContentsOK /\ PlacesOK /\ ItemsOK /\ MarksOK
  BY DEF TypeInv, SoundInv
<1>2. /\ work' = work \ {i} /\ dropped' = dropped \cup {i} /\ SinkSkip(i.seq)
      /\ UNCHANGED <<cursor, issued, landed, q, reached, engine, floor>>
  BY DEF ApplyFails, sourceVars, lifeVars, markVars
<1>3. i \in Item /\ i.seq \in Seq0 /\ i.seq \in Nat
  BY <1>1, ItemFacts DEF PipeOK
<1>4. /\ UNCHANGED <<phase, committed, nextIndex, current, puts, dest>>
      /\ contiguousNext' \in contiguousNext .. N /\ watermarkNext' \in watermarkNext .. contiguousNext'
      /\ Counted' \subseteq Counted \cup {i.seq}
  BY <1>1, <1>2, <1>3, SkipTypes
<1>5. contiguousNext \in 0 .. N /\ watermarkNext \in 0 .. contiguousNext /\ N \in Nat /\ nextIndex \in Nat
  BY <1>1, FileSinkAssumption DEF SinkOK
<1>6. contiguousNext <= contiguousNext' /\ watermarkNext <= watermarkNext' /\ nextIndex <= nextIndex'
  BY <1>4, <1>5
<1>7. FilesOK' /\ ContentsOK' /\ Opened' = Opened /\ Rolled' = Rolled /\ Stored' = Stored
  BY <1>1, <1>4, FilesFrame
<1>8. Known' = Known /\ i \in Known /\ i \in Aloft
  BY <1>2, <1>7 DEF Known, Moving, Sunk, Aloft
<1>9. Aloft' = Aloft \ {i}
  BY <1>1, <1>2, <1>7 DEF Aloft, PlacesOK, Moving, Sunk
<1>10. PlacesOK'
  BY <1>1, <1>2, <1>7 DEF PlacesOK, Moving, Sunk
<1>11. Grow
  BY <1>2, <1>4, <1>6, <1>8 DEF Grow
<1>12. Moved
  BY <1>1, <1>2, <1>7, <1>8, <1>9, <1>10, <1>11, ItemsFrame DEF Moved
<1>13. CountsOK'
  <2>1. i.seq < cursor.seq /\ \A j \in Known : j # i => j.seq # i.seq
    BY <1>1, <1>8 DEF ItemsOK, Distinct
  <2>2. Aloft \subseteq Known
    BY AloftAbove
  <2>3. \A j \in Aloft' : j.seq \notin {i.seq}
    BY <1>9, <2>1, <2>2
  <2> QED BY <1>2, <1>3, <1>4, <1>6, <1>9, <2>1, <2>3, CountsMove
<1>14. MarksOK'
  <2>1. \A g \in openRanges : g.seqs \subseteq Seq0 /\ ~Straddles(g, watermarkNext)
    BY <1>1 DEF SinkOK, Files, MarksOK
  <2>2. CASE i.seq >= contiguousNext
    <3>1. Advance(done \cup {i.seq}, openRanges)
      BY <1>2, <2>2 DEF SinkSkip
    <3>2. done \cup {i.seq} \in SUBSET Seq0
      BY <1>1, <1>3 DEF SinkOK
    <3> QED BY <1>1, <1>2, <1>4, <2>1, <3>1, <3>2, MarksMove
  <2>3. CASE ~(i.seq >= contiguousNext)
    BY <1>1, <1>2, <1>4, <2>3, MarksFrame DEF SinkSkip
  <2> QED BY <2>2, <2>3
<1> QED BY <1>12, <1>13, <1>14

\* The drive pops a morsel: none is at or below the floor, and write takes it.
LEMMA WriteMorselMoved ==
  ASSUME TypeInv, SinkOK', SoundInv, NEW i \in q[1], NEW roll \in BOOLEAN, WriteMorsel(i, roll)
  PROVE  /\ Moved /\ CountsOK' /\ MarksOK' /\ FilesUp /\ phase = "open" /\ phase' = phase
         /\ \A p \in puts' \ puts : p.by = "write"
<1>1. /\ SinkOK /\ PipeOK /\ FilesOK /\ ContentsOK /\ PlacesOK /\ ItemsOK /\ MarksOK /\ CountsOK
      /\ LifeOK
  BY DEF TypeInv, SoundInv
<1>2. /\ q' = [q EXCEPT ![1] = @ \ {i}]
      /\ UNCHANGED <<cursor, issued, landed, work, dropped, reached, engine, floor>>
      /\ IF i.seq <= floor THEN UNCHANGED sinkVars ELSE Encode(i, roll)
  BY Zenon DEF WriteMorsel, sourceVars, lifeVars, markVars
<1>3. i \in Item /\ q'[1] = q[1] \ {i} /\ q'[0] = q[0]
  BY <1>1, <1>2 DEF PipeOK
<1>4. i \in Aloft
  BY DEF Aloft, Moving
<1>5. Encode(i, roll)
  <2>1. i.seq \in Nat /\ i.seq >= contiguousNext /\ contiguousNext \in Nat
    BY <1>4, AloftAbove
  <2>2. floor < contiguousNext /\ floor \in Int
    BY <1>1, FileSinkAssumption DEF CountsOK, LifeOK
  <2>3. ~(i.seq <= floor)
    BY <2>1, <2>2
  <2> QED BY <1>2, <2>3
<1>6. /\ FilesUp /\ phase = "open" /\ phase' = phase /\ Stored' = Stored
      /\ \A p \in puts' \ puts : p.by = "write"
      /\ \/ Opened' = Opened \cup {i} /\ Rolled' = Rolled
         \/ Opened' = {i} /\ Rolled' = Rolled \cup Opened
  BY <1>1, <1>3, <1>5, EncodeMoves
<1>7. FilesOK'
  BY <1>1, <1>6, FilesUpOK
<1>8. Opened \cap (Rolled \cup Stored) = {}
  BY <1>1 DEF PlacesOK
<1>9. ContentsOK'
  BY <1>1, <1>6, <1>8, ContentsUpOK
<1>10. Known' = Known /\ Aloft' \subseteq Aloft
  BY <1>2, <1>3, <1>6 DEF Known, Moving, Sunk, Aloft
<1>11. PlacesOK'
  <2>1. i \notin Opened \cup Rolled \cup Stored \cup dropped /\ i \notin q[0] /\ i \notin work
        /\ i \notin issued \ landed
    BY <1>1 DEF PlacesOK, Moving, Sunk
  <2> QED BY <1>1, <1>2, <1>3, <1>6, <2>1 DEF PlacesOK, Moving, Sunk
<1>12. Moved
  BY <1>1, <1>2, <1>6, <1>7, <1>9, <1>10, <1>11, ItemsFrame, GrowUp DEF Moved
<1>13. UNCHANGED <<committed, done, contiguousNext, openRanges, watermarkNext>>
  BY <1>6 DEF FilesUp
<1>14. CountsOK' /\ MarksOK'
  BY <1>1, <1>2, <1>10, <1>13, CountsFrame, MarksFrame
<1> QED BY <1>6, <1>12, <1>14

\* checkpoint_flush and finish, up to the wait.
LEMMA RollMoved ==
  ASSUME TypeInv, SinkOK', SoundInv, NEW by, (by = "flush" /\ Flush) \/ (by = "finish" /\ FinishRoll),
         UNCHANGED <<cursor, issued, landed, q, work, dropped, reached, engine, floor>>
  PROVE  /\ Moved /\ CountsOK' /\ MarksOK' /\ FilesUp /\ phase = "open" /\ phase' = phase /\ current' = None
         /\ \E x : puts' = puts \cup {x} /\ x.by = by
<1>1. SinkOK /\ PipeOK /\ FilesOK /\ ContentsOK /\ PlacesOK /\ ItemsOK /\ MarksOK /\ CountsOK
  BY DEF TypeInv, SoundInv
<1>2. /\ FilesUp /\ phase = "open" /\ phase' = phase /\ current' = None
      /\ Opened' = {} /\ Rolled' = Rolled \cup Opened /\ Stored' = Stored
      /\ \E x : puts' = puts \cup {x} /\ x.by = by
  BY <1>1, RollMoves
<1>3. FilesOK'
  BY <1>1, <1>2, FilesUpOK
<1>4. Opened \cap (Rolled \cup Stored) = {}
  BY <1>1 DEF PlacesOK
<1>5. ContentsOK'
  BY <1>1, <1>2, <1>4, ContentsUpOK
<1>6. Known' = Known /\ Aloft' \subseteq Aloft
  BY <1>2 DEF Known, Moving, Sunk, Aloft
<1>7. PlacesOK'
  BY <1>1, <1>2 DEF PlacesOK, Moving, Sunk
<1>8. Moved
  BY <1>1, <1>2, <1>3, <1>5, <1>6, <1>7, ItemsFrame, GrowUp DEF Moved
<1>9. UNCHANGED <<committed, done, contiguousNext, openRanges, watermarkNext>>
  BY <1>2 DEF FilesUp
<1>10. CountsOK' /\ MarksOK'
  BY <1>1, <1>6, <1>9, CountsFrame, MarksFrame
<1> QED BY <1>2, <1>8, <1>10

\* The store answers.
LEMMA LandMoved ==
  ASSUME TypeInv, SoundInv, NEW p \in puts, PutLands(p),
         UNCHANGED <<cursor, issued, landed, q, work, dropped, reached, engine, floor>>
  PROVE  Moved /\ CountsOK' /\ MarksOK'
<1>1. SinkOK /\ PipeOK /\ FilesOK /\ ContentsOK /\ PlacesOK /\ ItemsOK /\ MarksOK /\ CountsOK
  BY DEF TypeInv, SoundInv
<1>2. /\ FilesOK' /\ ContentsOK'
      /\ Opened' = Opened /\ Rolled' = Rolled /\ Stored' = Stored \cup p.data
  BY <1>1, LandMoves
<1>3. p.data \subseteq Rolled
  BY DEF Rolled
<1>4. Known' = Known /\ Aloft' \subseteq Aloft
  BY <1>2, <1>3 DEF Known, Moving, Sunk, Aloft
<1>5. PlacesOK'
  BY <1>1, <1>2, <1>3 DEF PlacesOK, Moving, Sunk
<1>6. Moved
  BY <1>1, <1>2, <1>4, <1>5, ItemsFrame, GrowLand DEF Moved
<1>7. UNCHANGED <<committed, done, contiguousNext, openRanges, watermarkNext>>
  BY DEF PutLands, ledgerVars
<1>8. CountsOK' /\ MarksOK'
  BY <1>1, <1>4, <1>7, CountsFrame, MarksFrame
<1> QED BY <1>6, <1>8

\* The source takes the next read.
LEMMA IssueMoved ==
  ASSUME TypeInv, SoundInv, NEW size \in Sizes, Issue(size)
  PROVE  /\ Grow /\ FilesOK' /\ ContentsOK' /\ PlacesOK' /\ ItemsOK' /\ CountsOK' /\ MarksOK'
         /\ \E i \in Item : /\ Known' = Known \cup {i} /\ issued' = issued \cup {i}
                            /\ i.seq >= cursor.seq /\ i.rows \cap (0 .. cursor.row - 1) = {}
         /\ cursor.seq <= cursor'.seq /\ cursor.row <= cursor'.row
<1>1. SinkOK /\ PipeOK /\ FilesOK /\ ContentsOK /\ PlacesOK /\ ItemsOK /\ MarksOK /\ CountsOK /\ LifeOK
  BY DEF TypeInv, SoundInv
<1>2. /\ UNCHANGED <<committed, nextIndex, done, contiguousNext, openRanges, watermarkNext, current, puts, dest>>
      /\ UNCHANGED <<again, landed, q, work, dropped, reached, engine, floor>> /\ landed = {}
  BY DEF Issue, sinkVars, ledgerVars, markVars, lifeVars
<1>3. FilesOK' /\ ContentsOK' /\ Opened' = Opened /\ Rolled' = Rolled /\ Stored' = Stored
  BY <1>1, <1>2, FilesFrame
<1>4. PICK i \in Item, end \in cursor.row + 1 .. NRows :
           /\ i.seq = cursor.seq /\ i.rows = cursor.row .. end - 1
           /\ cursor' = [row |-> end, seq |-> cursor.seq + 1]
           /\ issued' = (issued \ WithSeq(issued, i.seq)) \cup {i}
  BY <1>1, IssueFacts
<1>5. /\ \A j \in Known : j \in Item /\ j.seq \in Nat
      /\ cursor.seq \in Nat /\ cursor.row \in Nat /\ contiguousNext \in Nat
      /\ Aloft \subseteq Known /\ \A n \in Counted : n \in Nat /\ n < cursor.seq
  BY AloftAbove
<1>6. /\ end \in Nat /\ cursor.row < end /\ NRows \in Nat
      /\ cursor'.row = end /\ cursor'.seq = cursor.seq + 1
  BY <1>4, <1>5, RunResumeAssumption
<1>7. \A j \in Known : j.seq < cursor.seq /\ j.seq # i.seq /\ j.rows \subseteq 0 .. cursor.row - 1
  <2>1. \A j \in Known : j.seq < cursor.seq /\ j.rows \subseteq 0 .. cursor.row - 1
    BY <1>1 DEF ItemsOK
  <2> QED BY <1>4, <1>5, <2>1
<1>8. issued' = issued \cup {i} /\ i \notin Known
  <2>1. WithSeq(issued, i.seq) = {}
    BY <1>7 DEF WithSeq, Known
  <2> QED BY <1>4, <1>7, <2>1
<1>9. Known' = Known \cup {i}
  BY <1>2, <1>3, <1>8 DEF Known, Moving, Sunk
<1>10. PlacesOK'
  <2>1. i \notin Moving \cup Sunk
    BY <1>8 DEF Known
  <2> QED BY <1>1, <1>2, <1>3, <1>8, <2>1 DEF PlacesOK, Moving, Sunk
<1>11. i.rows # {} /\ i.rows \cap (0 .. cursor.row - 1) = {} /\ i.rows \subseteq 0 .. end - 1
  BY <1>4, <1>5, <1>6
<1>12. ItemsOK'
  <2>1. Distinct(Known \cup {i})
    <3>1. \A j \in Known : j.rows \cap i.rows = {}
      BY <1>7, <1>11
    <3> QED BY <1>1, <1>7, <3>1 DEF ItemsOK, Distinct
  <2>2. \A j \in Known \cup {i} : j.rows # {}
    BY <1>1, <1>11 DEF ItemsOK
  <2>3. \A j \in Known \cup {i} : j.seq < cursor.seq + 1
    BY <1>4, <1>5, <1>7
  <2>4. \A j \in Known \cup {i} : j.rows \subseteq 0 .. end - 1
    <3>1. 0 .. cursor.row - 1 \subseteq 0 .. end - 1
      BY <1>5, <1>6
    <3> QED BY <1>7, <1>11, <3>1
  <2>5. ASSUME NEW r \in 0 .. end - 1 PROVE \E j \in Known \cup {i} : r \in j.rows
    <3>1. CASE r < cursor.row
      <4>1. r \in 0 .. cursor.row - 1
        BY <1>5, <3>1
      <4> QED BY <1>1, <4>1 DEF ItemsOK
    <3>2. CASE ~(r < cursor.row)
      BY <1>4, <1>5, <1>6, <3>2
    <3> QED BY <3>1, <3>2
  <2> QED BY <1>6, <1>9, <2>1, <2>2, <2>3, <2>4, <2>5 DEF ItemsOK
<1>13. CountsOK'
  <2>1. Aloft' \subseteq Aloft \cup {i} /\ Counted' = Counted
    BY <1>2, <1>3, <1>8 DEF Aloft, Moving, Counted
  <2>2. i.seq \notin Counted
    BY <1>4, <1>5
  <2>3. \A j \in Aloft' : j.seq \notin Counted'
    BY <1>1, <2>1, <2>2 DEF CountsOK
  <2>4. contiguousNext <= cursor.seq + 1 /\ \A n \in done : n < cursor.seq + 1
    <3>1. \A n \in done : n \in Nat
      BY <1>1 DEF SinkOK, Seq0
    <3> QED BY <1>1, <1>5, <3>1 DEF CountsOK
  <2> QED BY <1>1, <1>2, <1>6, <2>3, <2>4 DEF CountsOK
<1>14. MarksOK'
  BY <1>1, <1>2, MarksFrame
<1>15. Grow
  BY <1>1, <1>2, GrowFrame
<1>16. i.seq >= cursor.seq /\ cursor.seq <= cursor'.seq /\ cursor.row <= cursor'.row
  BY <1>4, <1>5, <1>6
<1> QED BY <1>3, <1>8, <1>9, <1>10, <1>11, <1>12, <1>13, <1>14, <1>15, <1>16

\* A checkpoint reads, and publish claims and gives, without moving anything.
LEMMA StillStep ==
  ASSUME TypeInv, SoundInv,
         \/ \E p \in pushing : Record(p)
         \/ Claim \/ SetCommitted \/ UpdateWatermark
         \/ \E portable \in Portable : StartCheckpoint(portable)
         \/ ReadReached \/ ReadSinkState \/ ReadCursor \/ WriteManifest \/ ManifestFails
         \/ (FlushSink /\ UNCHANGED sinkVars)
  PROVE  /\ Moved /\ CountsOK' /\ MarksOK'
         /\ UNCHANGED <<sinkVars, sourceVars, q, work, dropped, floor, resumes, sound>>
<1>1. SinkOK /\ IndexOK /\ MarksOK /\ CountsOK
  BY DEF TypeInv, SoundInv
<1>2. UNCHANGED <<sinkVars, sourceVars, q, work, dropped, floor, resumes, sound>>
  BY Zenon DEF Record, Claim, SetCommitted, UpdateWatermark, StartCheckpoint, ReadReached, ReadSinkState,
               ReadCursor, WriteManifest, ManifestFails, FlushSink, CkptStep, lifeVars
<1>3. Moved
  BY <1>2, StillMoved
<1>4. UNCHANGED <<committed, done, contiguousNext, openRanges, watermarkNext>>
  BY <1>2 DEF sinkVars, ledgerVars
<1>5. CountsOK'
  BY <1>1, <1>2, <1>3, <1>4, CountsFrame DEF Moved
<1>6. /\ reached' = reached \/ reached' = watermarkNext - 1
      /\ engine' = engine \/ engine' = reached'
  <2>1. CASE UNCHANGED markVars
    BY <2>1 DEF markVars
  <2>2. CASE Claim
    BY <2>2 DEF Claim, CommittedSeq
  <2>3. CASE SetCommitted
    BY <2>3 DEF SetCommitted
  <2>4. CASE UpdateWatermark
    BY <2>4 DEF UpdateWatermark, CommittedSeq, Max2
  <2> QED
    BY <2>1, <2>2, <2>3, <2>4, Zenon DEF Record, StartCheckpoint, ReadReached, ReadSinkState, ReadCursor,
                                         WriteManifest, ManifestFails, FlushSink
<1>7. MarksOK'
  <2>1. watermarkNext \in Nat /\ watermarkNext - 1 + 1 = watermarkNext
    BY <1>1 DEF SinkOK
  <2>2. reached' + 1 = reached + 1 \/ reached' + 1 = watermarkNext
    BY <1>6, <2>1
  <2>3. engine' + 1 = engine + 1 \/ engine' + 1 = reached' + 1
    BY <1>6
  <2>4. \A f \in committed : /\ ~Straddles(f, watermarkNext) /\ ~Straddles(f, reached' + 1)
                             /\ ~Straddles(f, engine' + 1)
    BY <1>1, <2>2, <2>3 DEF MarksOK
  <2> QED BY <1>1, <1>4, <2>4 DEF MarksOK, Straddles
<1> QED BY <1>2, <1>3, <1>5, <1>7

\* What every step of the run keeps of the morsels, the files and the ledger.
Carries ==
  /\ Grow /\ FilesOK' /\ ContentsOK' /\ PlacesOK' /\ ItemsOK' /\ CountsOK' /\ MarksOK'
  /\ Known \subseteq Known'
  /\ \A i \in Known' \ Known : i \in issued' /\ i.seq >= cursor.seq /\ i.rows \cap (0 .. cursor.row - 1) = {}
  /\ cursor.seq <= cursor'.seq /\ cursor.row <= cursor'.row

\* A step that moves morsels carries them, if counts and watermarks are kept.
LEMMA MovedCarries ==
  ASSUME TypeInv, Moved, CountsOK', MarksOK'
  PROVE  Carries
<1>1. cursor.seq <= cursor.seq /\ cursor.row <= cursor.row
  BY DEF TypeInv, PipeOK, Cursors
<1> QED BY <1>1 DEF Moved, Carries

\* A step that leaves the sink alone.
LEMMA SourceCarries ==
  ASSUME TypeInv, SoundInv, Moved, UNCHANGED <<sinkVars, markVars, floor>>
  PROVE  Carries
<1>1. UNCHANGED <<committed, done, contiguousNext, openRanges, watermarkNext, reached, engine>>
  BY DEF sinkVars, ledgerVars, markVars
<1>2. CountsOK /\ MarksOK
  BY DEF SoundInv
<1>3. CountsOK' /\ MarksOK'
  BY <1>1, <1>2, CountsFrame, MarksFrame DEF Moved
<1> QED BY <1>3, MovedCarries

\* A put lands or is recorded, and the sink finishes.
LEMMA SinkCarries ==
  ASSUME TypeInv, TypeInv', SoundInv, RollSettles \/ FinishSink
  PROVE  Carries
<1>1. UNCHANGED <<cursor, issued, landed, q, work, dropped, reached, engine, floor>>
  BY Zenon DEF RollSettles, FinishSink, sourceVars, markVars, lifeVars
<1>2. SinkOK' /\ SinkOK
  BY DEF TypeInv
<1>3. ASSUME NEW p \in puts, PutLands(p) PROVE Carries
  BY <1>1, <1>3, LandMoved, MovedCarries
<1>4. ASSUME NEW p \in puts, Commit(p) \/ FinishCommit(p, TRUE) PROVE Carries
  <2>1. /\ p.put = "stored" /\ puts' = puts \ {p} /\ CommitFile(p.name, p.data)
        /\ UNCHANGED <<nextIndex, current, dest>>
    BY <1>4 DEF Commit, FinishCommit
  <2> QED BY <1>1, <1>2, <2>1, CommitMoved, MovedCarries
<1>5. CASE FinishRoll
  <2>1. Moved /\ CountsOK' /\ MarksOK'
    BY <1>1, <1>2, <1>5, RollMoved
  <2> QED BY <2>1, MovedCarries
<1>6. CASE FinishClosed(TRUE)
  <2>1. UNCHANGED <<committed, nextIndex, done, contiguousNext, openRanges, watermarkNext, current, puts, dest>>
    BY <1>6 DEF FinishClosed, ledgerVars
  <2>2. FilesOK /\ ContentsOK /\ PlacesOK /\ ItemsOK /\ CountsOK /\ MarksOK
    BY DEF SoundInv
  <2>3. FilesOK' /\ ContentsOK' /\ Opened' = Opened /\ Rolled' = Rolled /\ Stored' = Stored
    BY <2>1, <2>2, FilesFrame
  <2>4. Known' = Known /\ Aloft' = Aloft
    BY <1>1, <2>3 DEF Known, Moving, Sunk, Aloft
  <2>5. PlacesOK' /\ ItemsOK'
    BY <1>1, <2>2, <2>3, <2>4, ItemsFrame DEF PlacesOK, Moving, Sunk
  <2>6. Grow
    BY <1>1, <1>2, <2>1, GrowFrame
  <2>7. Moved
    BY <1>1, <2>3, <2>4, <2>5, <2>6 DEF Moved
  <2>8. CountsOK' /\ MarksOK'
    BY <1>1, <2>1, <2>2, <2>4, CountsFrame, MarksFrame
  <2> QED BY <2>7, <2>8, MovedCarries
<1> QED BY <1>3, <1>4, <1>5, <1>6, Zenon DEF RollSettles, FinishSink

\* Every step of a working run carries its morsels.
LEMMA WorkCarries ==
  ASSUME TypeInv, TypeInv', SoundInv, Working
  PROVE  Carries
<1>1. SinkOK' /\ SinkOK
  BY DEF TypeInv
<1>2. ASSUME NEW size \in Sizes, Issue(size) PROVE Carries
  <2>1. /\ Grow /\ FilesOK' /\ ContentsOK' /\ PlacesOK' /\ ItemsOK' /\ CountsOK' /\ MarksOK'
        /\ cursor.seq <= cursor'.seq /\ cursor.row <= cursor'.row
    BY <1>2, IssueMoved
  <2>2. PICK i \in Item : /\ Known' = Known \cup {i} /\ issued' = issued \cup {i}
                          /\ i.seq >= cursor.seq /\ i.rows \cap (0 .. cursor.row - 1) = {}
    BY <1>2, IssueMoved
  <2> QED BY <2>1, <2>2 DEF Carries
<1>3. ASSUME NEW i \in issued, PushRead(i) PROVE Carries
  BY <1>3, PushReadMoved, SourceCarries DEF PushRead
<1>4. ASSUME NEW i \in landed, Forget(i) PROVE Carries
  BY <1>4, ForgetMoved, SourceCarries DEF Forget, lifeVars
<1>5. ASSUME NEW i \in q[0], TakeWork(i) PROVE Carries
  BY <1>5, TakeWorkMoved, SourceCarries DEF TakeWork, lifeVars
<1>6. ASSUME NEW i \in work, Apply(i) PROVE Carries
  BY <1>6, ApplyMoved, SourceCarries DEF Apply
<1>7. ASSUME NEW i \in work, ApplyFails(i) PROVE Carries
  BY <1>1, <1>7, ApplyFailsMoved, MovedCarries
<1>8. ASSUME NEW i \in q[1], WriteMorsel(i, TRUE) \/ WriteMorsel(i, FALSE) PROVE Carries
  <2>1. \E roll \in BOOLEAN : WriteMorsel(i, roll)
    BY <1>8, Zenon
  <2> QED BY <1>1, <2>1, WriteMorselMoved, MovedCarries
<1>9. ASSUME FlushSink PROVE Carries
  <2>1. CASE UNCHANGED sinkVars
    BY <1>9, <2>1, StillStep, MovedCarries
  <2>2. CASE Flush
    <3>1. UNCHANGED <<cursor, issued, landed, q, work, dropped, reached, engine, floor>>
      BY <1>9 DEF FlushSink, CkptStep, sourceVars, markVars, lifeVars
    <3>2. Moved /\ CountsOK' /\ MarksOK'
      BY <1>1, <2>2, <3>1, RollMoved
    <3> QED BY <3>2, MovedCarries
  <2> QED BY <1>9, <2>1, <2>2 DEF FlushSink
<1>10. ASSUME \/ \E p \in pushing : Record(p)
              \/ Claim \/ SetCommitted \/ UpdateWatermark
              \/ \E portable \in Portable : StartCheckpoint(portable)
              \/ ReadReached \/ ReadSinkState \/ ReadCursor \/ WriteManifest \/ ManifestFails
       PROVE  Carries
  <2>1. Moved /\ CountsOK' /\ MarksOK'
    BY <1>10, StillStep, Zenon
  <2> QED BY <2>1, MovedCarries
<1> QED
  BY <1>2, <1>3, <1>4, <1>5, <1>6, <1>7, <1>8, <1>9, <1>10, SinkCarries, Zenon DEF Working

-----------------------------------------------------------------------------
(* The lineage *)

\* What may happen to the index.
LEMMA LineageMoves ==
  ASSUME Working
  PROVE  \/ UNCHANGED <<lineage, engine>>
         \/ \E p \in pushing : Record(p)
         \/ (SetCommitted \/ UpdateWatermark) /\ LineageCommit(reached') /\ engine' = reached'
         \/ WriteManifest \/ ManifestFails
<1>1. SetCommitted => LineageCommit(reached') /\ engine' = reached'
  BY DEF SetCommitted
<1>2. UpdateWatermark => LineageCommit(reached') /\ engine' = reached'
  BY DEF UpdateWatermark
<1>3. ASSUME NEW size \in Sizes, Issue(size) PROVE UNCHANGED <<lineage, engine>>
  BY <1>3 DEF Issue, markVars
<1>4. ASSUME NEW i, PushRead(i) \/ Forget(i) \/ TakeWork(i) PROVE UNCHANGED <<lineage, engine>>
  BY <1>4 DEF PushRead, Forget, TakeWork, markVars
<1>5. ASSUME NEW i, Apply(i) \/ ApplyFails(i) \/ WriteMorsel(i, TRUE) \/ WriteMorsel(i, FALSE)
      PROVE  UNCHANGED <<lineage, engine>>
  BY <1>5, Zenon DEF Apply, ApplyFails, WriteMorsel, markVars
<1>6. RollSettles \/ Claim \/ FinishSink \/ FlushSink => UNCHANGED <<lineage, engine>>
  BY Zenon DEF RollSettles, Claim, FinishSink, FlushSink, markVars
<1>7. ReadReached \/ ReadSinkState \/ ReadCursor => UNCHANGED <<lineage, engine>>
  BY Zenon DEF ReadReached, ReadSinkState, ReadCursor, markVars
<1>8. ASSUME NEW portable, StartCheckpoint(portable) PROVE UNCHANGED <<lineage, engine>>
  BY <1>8, Zenon DEF StartCheckpoint, markVars
<1> QED BY <1>1, <1>2, <1>3, <1>4, <1>5, <1>6, <1>7, <1>8, Zenon DEF Working

\* Only the manifest writer prunes lineage records.
LEMMA RecordsKept ==
  ASSUME TypeInv, Working
  PROVE  WriteManifest \/ ManifestFails \/ \A i \in Item : HasRecord(i) => HasRecord(i)'
<1>1. IndexOK /\ PipeOK
  BY DEF TypeInv
<1>2. CASE UNCHANGED <<lineage, engine>>
  BY <1>2 DEF HasRecord
<1>3. ASSUME NEW p \in pushing, Record(p) PROVE \A i \in Item : HasRecord(i) => HasRecord(i)'
  <2>1. p.item \in Item /\ p.stage \in 0 .. 1 /\ LineagePush(p.item, p.stage)
    BY <1>1, <1>3 DEF Record, PipeOK, Pushes
  <2>2. PICK x \in Records : lineage' = {r \in lineage : r.item.seq # p.item.seq} \cup {x} /\ x.item.seq = p.item.seq
    BY <1>1, <2>1, PushFacts
  <2> QED BY <2>2 DEF HasRecord
<1>4. CASE LineageCommit(reached') /\ engine' = reached' /\ (SetCommitted \/ UpdateWatermark)
  <2>1. reached' \in -1 .. N - 1
    <3>1. TypeInv'
      BY <1>4, MarkType
    <3> QED BY <3>1 DEF TypeInv, IndexOK
  <2>2. \A r \in lineage : \E x \in lineage' : x.item = r.item
    BY <1>1, <1>4, <2>1, CommitFacts
  <2> QED BY <2>2 DEF HasRecord
<1> QED BY <1>2, <1>3, <1>4, LineageMoves, Zenon

\* What may happen to the reads.
LEMMA SourceMoves ==
  ASSUME Working
  PROVE  \/ UNCHANGED <<issued, landed, pushing>>
         \/ \E size \in Sizes : Issue(size)
         \/ \E i \in issued : PushRead(i)
         \/ \E p \in pushing : Record(p)
         \/ \E i \in landed : Forget(i)
         \/ \E i \in work : Apply(i)
<1>1. ASSUME NEW i, TakeWork(i) \/ ApplyFails(i) \/ WriteMorsel(i, TRUE) \/ WriteMorsel(i, FALSE)
      PROVE  UNCHANGED <<issued, landed, pushing>>
  BY <1>1, Zenon DEF TakeWork, ApplyFails, WriteMorsel, sourceVars
<1>2. RollSettles \/ Claim \/ FinishSink \/ FlushSink => UNCHANGED <<issued, landed, pushing>>
  BY Zenon DEF RollSettles, Claim, FinishSink, FlushSink, CkptStep, sourceVars
<1>3. ReadReached \/ ReadSinkState \/ ReadCursor \/ WriteManifest \/ ManifestFails => UNCHANGED <<issued, landed, pushing>>
  BY Zenon DEF ReadReached, ReadSinkState, ReadCursor, WriteManifest, ManifestFails, CkptStep, sourceVars
<1>4. ASSUME NEW portable, StartCheckpoint(portable) PROVE UNCHANGED <<issued, landed, pushing>>
  BY <1>4, Zenon DEF StartCheckpoint, CkptStep, sourceVars
<1>5. SetCommitted \/ UpdateWatermark => UNCHANGED <<issued, landed, pushing>>
  BY Zenon DEF SetCommitted, UpdateWatermark, CkptStep, sourceVars
<1> QED BY <1>1, <1>2, <1>3, <1>4, <1>5, Zenon DEF Working

\* What was traced above w stays so while the index keeps its records.
LEMMA TracedStep ==
  ASSUME TypeInv, TypeInv', SoundInv, Working, Carries, NEW w, AllTraced(w),
         \A i \in Known : Traced(i, w) => Traced(i, w)'
  PROVE  AllTraced(w)'
<1>1. PipeOK /\ PlacesOK /\ IndexOK
  BY DEF TypeInv, SoundInv
<1>2. Known \subseteq Known' /\ \A i \in Known' \ Known : i \in issued'
  BY DEF Carries
<1>3. issued \subseteq Known /\ landed \subseteq issued
  BY <1>1 DEF Known, PipeOK
<1>4. /\ \A i \in Known \ issued : Traced(i, w)
      /\ \A i \in landed : Unrecorded(i) \/ Traced(i, w)
  BY DEF AllTraced
<1>5. ASSUME issued \subseteq issued', landed' \subseteq landed, pushing \subseteq pushing'
      PROVE  AllTraced(w)'
  BY <1>2, <1>3, <1>4, <1>5 DEF AllTraced, Unrecorded
<1>6. ASSUME NEW size \in Sizes, Issue(size) PROVE AllTraced(w)'
  <2>1. issued \subseteq issued'
    BY <1>6, IssueMoved
  <2> QED BY <1>5, <1>6, <2>1 DEF Issue
<1>7. ASSUME NEW i \in issued, PushRead(i) PROVE AllTraced(w)'
  <2>1. /\ Enter(i, 0) /\ landed' = (IF ended' THEN {} ELSE {i}) /\ issued' = issued /\ ended = FALSE /\ i \in Item
    BY <1>1, <1>7 DEF PushRead, Running, PipeOK
  <2>2. \/ ended' = TRUE /\ pushing' = pushing
        \/ ended' = FALSE /\ pushing' = pushing \cup {[item |-> i, stage |-> 0]}
    BY <1>1, <2>1, EnterFacts, Stages, Zenon
  <2>3. CASE ended' = TRUE /\ pushing' = pushing
    BY <1>5, <2>1, <2>3
  <2>4. CASE ended' = FALSE /\ pushing' = pushing \cup {[item |-> i, stage |-> 0]}
    <3>1. landed' = {i} /\ Unrecorded(i)'
      BY <2>1, <2>4 DEF Unrecorded
    <3> QED BY <1>2, <1>3, <1>4, <2>1, <3>1 DEF AllTraced
  <2> QED BY <2>2, <2>3, <2>4
<1>8. ASSUME NEW p \in pushing, Record(p) PROVE AllTraced(w)'
  <2>1. pushing' = pushing \ {p} /\ LineagePush(p.item, p.stage) /\ issued' = issued /\ landed' = landed
    BY <1>8 DEF Record, sourceVars
  <2>2. p.item \in Item /\ p.stage \in 0 .. 1
    BY <1>1 DEF PipeOK, Pushes
  <2>3. HasRecord(p.item)'
    <3>1. PICK x \in Records : lineage' = {r \in lineage : r.item.seq # p.item.seq} \cup {x} /\ x.item.seq = p.item.seq
      BY <1>1, <2>1, <2>2, PushFacts
    <3>2. \E r \in lineage' : r.item.seq = p.item.seq
      BY <3>1
    <3> QED BY <3>2 DEF HasRecord
  <2>4. ASSUME NEW j \in landed PROVE Unrecorded(j)' \/ Traced(j, w)'
    <3>1. CASE Unrecorded(j)
      <4>1. CASE p = [item |-> j, stage |-> 0]
        BY <2>3, <4>1 DEF Traced
      <4>2. CASE p # [item |-> j, stage |-> 0]
        BY <2>1, <3>1, <4>2 DEF Unrecorded
      <4> QED BY <4>1, <4>2
    <3>2. CASE Traced(j, w)
      BY <1>3, <3>2
    <3> QED BY <1>4, <3>1, <3>2
  <2> QED BY <1>2, <1>3, <1>4, <2>1, <2>4 DEF AllTraced
<1>9. ASSUME NEW i \in landed, Forget(i) PROVE AllTraced(w)'
  <2>1. /\ landed' = landed \ {i} /\ ~Unrecorded(i) /\ pushing' = pushing
    BY <1>9 DEF Forget, Unrecorded
  <2>2. issued' = issued \ {i} /\ Known' = Known
    BY <1>9, ForgetMoved DEF Moved
  <2>3. Traced(i, w)'
    BY <1>3, <1>4, <2>1
  <2>4. \A j \in landed' : Unrecorded(j)' \/ Traced(j, w)'
    BY <1>3, <1>4, <2>1 DEF Unrecorded
  <2> QED BY <1>3, <1>4, <2>2, <2>3, <2>4 DEF AllTraced
<1>10. ASSUME NEW i \in work, Apply(i) PROVE AllTraced(w)'
  <2>1. pushing \subseteq pushing'
    BY <1>10, ApplyMoved
  <2> QED BY <1>5, <1>10, <2>1 DEF Apply, sourceVars
<1>11. CASE UNCHANGED <<issued, landed, pushing>>
  BY <1>5, <1>11
<1> QED BY <1>6, <1>7, <1>8, <1>9, <1>10, <1>11, SourceMoves, Zenon

\* The marks only rise.
LEMMA MarksRise ==
  ASSUME TypeInv, TypeInv', Working
  PROVE  /\ engine <= engine' /\ reached <= reached'
         /\ engine \in Int /\ engine' \in Int /\ reached \in Int /\ reached' \in Int
<1>1. /\ N \in Nat /\ watermarkNext \in Nat
      /\ engine \in -1 .. N - 1 /\ reached \in -1 .. N - 1 /\ engine <= reached /\ reached < watermarkNext
      /\ engine' \in -1 .. N - 1 /\ reached' \in -1 .. N - 1 /\ engine' <= reached'
  BY FileSinkAssumption DEF TypeInv, IndexOK, SinkOK
<1>2. reached' = reached \/ Claim \/ UpdateWatermark
  <2>1. ASSUME NEW i, PushRead(i) \/ Forget(i) \/ TakeWork(i) \/ Record(i) PROVE reached' = reached
    BY <2>1, Zenon DEF PushRead, Forget, TakeWork, Record, markVars
  <2>2. ASSUME NEW i, Apply(i) \/ ApplyFails(i) \/ WriteMorsel(i, TRUE) \/ WriteMorsel(i, FALSE)
        PROVE  reached' = reached
    BY <2>2, Zenon DEF Apply, ApplyFails, WriteMorsel, markVars
  <2>3. RollSettles \/ FinishSink \/ FlushSink \/ SetCommitted => reached' = reached
    BY Zenon DEF RollSettles, FinishSink, FlushSink, SetCommitted, markVars
  <2>4. ReadReached \/ ReadSinkState \/ ReadCursor \/ WriteManifest \/ ManifestFails => reached' = reached
    BY Zenon DEF ReadReached, ReadSinkState, ReadCursor, WriteManifest, ManifestFails, markVars
  <2>5. ASSUME NEW x, StartCheckpoint(x) \/ Issue(x) PROVE reached' = reached
    BY <2>5, Zenon DEF StartCheckpoint, Issue, markVars
  <2> QED BY <2>1, <2>2, <2>3, <2>4, <2>5, Zenon DEF Working
<1>3. reached <= reached'
  <2>1. CASE Claim
    BY <1>1, <2>1 DEF Claim, CommittedSeq
  <2>2. CASE UpdateWatermark
    BY <1>1, <2>2 DEF UpdateWatermark, CommittedSeq, Max2
  <2> QED BY <1>1, <1>2, <2>1, <2>2
<1>4. engine' = engine \/ engine' = reached'
  <2>1. (\E p \in pushing : Record(p)) \/ WriteManifest \/ ManifestFails => engine' = engine
    BY Zenon DEF Record, WriteManifest, ManifestFails, markVars
  <2> QED BY <2>1, LineageMoves
<1> QED BY <1>1, <1>3, <1>4

\* Every step of a working run keeps the lineage.
LEMMA LineageStep ==
  ASSUME TypeInv, TypeInv', SoundInv, Working, Carries
  PROVE  LineageOK'
<1>1. PipeOK /\ IndexOK /\ LineageOK /\ PipeOK'
  BY DEF TypeInv, SoundInv
<1>2. /\ engine <= engine' /\ engine \in Int /\ engine' \in Int
  BY MarksRise
<1>3. Known \subseteq Known'
  BY DEF Carries
<1>4. \A r \in lineage : /\ r.item \in Item /\ r.item.seq \in Nat /\ r.item \in Known /\ r.at # {}
                         /\ r.committed => r.item.seq <= engine /\ r.item.seq <= engine'
  <2>1. \A r \in lineage : r.item \in Item /\ r.item \in Known /\ r.at # {} /\ (r.committed => r.item.seq <= engine)
    BY <1>1 DEF IndexOK, Records, LineageOK
  <2>2. \A r \in lineage : r.item.seq \in Nat
    BY <2>1, ItemFacts
  <2> QED BY <1>2, <2>1, <2>2
<1>5. \A x \in lineage' : x.item \in Known' /\ x.at # {} /\ (x.committed => x.item.seq <= engine')
  <2>1. CASE lineage' \subseteq lineage
    BY <1>3, <1>4, <2>1
  <2>2. ASSUME NEW p \in pushing, Record(p)
        PROVE  \A x \in lineage' : x.item \in Known' /\ x.at # {} /\ (x.committed => x.item.seq <= engine')
    <3>1. p.item \in Item /\ p.stage \in 0 .. 1 /\ LineagePush(p.item, p.stage) /\ p.item \in Known
      BY <1>1, <2>2 DEF Record, PipeOK, Pushes, LineageOK
    <3>2. PICK x \in Records :
           /\ lineage' = {r \in lineage : r.item.seq # p.item.seq} \cup {x} /\ x.at # {}
           /\ \/ x.item = p.item /\ x.committed = FALSE
              \/ \E r \in lineage : r.item.seq = p.item.seq /\ x.item = r.item /\ x.committed = r.committed
      BY <1>1, <3>1, PushFacts
    <3> QED BY <1>3, <1>4, <3>1, <3>2
  <2>3. CASE LineageCommit(reached') /\ engine' = reached'
    <3>1. reached' \in -1 .. N - 1
      BY DEF TypeInv, IndexOK
    <3>2. \A x \in lineage' : \E r \in lineage :
              x.item = r.item /\ x.at = r.at /\ (x.committed => r.committed \/ r.item.seq <= engine')
      BY <1>1, <2>3, <3>1, CommitFacts
    <3> QED BY <1>3, <1>4, <3>2
  <2>4. WriteManifest \/ ManifestFails => lineage' \subseteq lineage
    BY DEF WriteManifest, ManifestFails
  <2> QED BY <2>1, <2>2, <2>3, <2>4, LineageMoves
<1>6. \A p \in pushing' : p.item \in Known'
  <2>1. \A p \in pushing : p.item \in Known
    BY <1>1 DEF LineageOK
  <2>2. pushing' \subseteq pushing \/ \E i \in Known, s \in 0 .. 1 : pushing' = pushing \cup {[item |-> i, stage |-> s]}
    <3>1. ASSUME NEW i \in issued, PushRead(i)
          PROVE  pushing' = pushing \/ pushing' = pushing \cup {[item |-> i, stage |-> 0]}
      <4>1. i \in Item /\ Enter(i, 0)
        BY <1>1, <3>1 DEF PushRead, PipeOK
      <4> QED BY <1>1, <4>1, EnterFacts, Stages, Zenon
    <3>2. ASSUME NEW i \in work, Apply(i) PROVE pushing' = pushing \cup {[item |-> i, stage |-> 1]}
      BY <3>2, ApplyMoved
    <3>3. issued \subseteq Known /\ work \subseteq Known
      BY DEF Known, Moving
    <3>4. ASSUME NEW x, Issue(x) \/ Forget(x) PROVE pushing' = pushing
      BY <3>4 DEF Issue, Forget
    <3>5. ASSUME NEW p \in pushing, Record(p) PROVE pushing' \subseteq pushing
      BY <3>5 DEF Record
    <3> QED BY <3>1, <3>2, <3>3, <3>4, <3>5, SourceMoves, Stages
  <2> QED BY <1>3, <2>1, <2>2
<1>7. AllTraced(engine)'
  <2>1. PICK w \in Int : w = engine'
    BY <1>2
  <2>2. AllTraced(engine)
    BY <1>1 DEF LineageOK
  <2>3. \A i \in Known : i \in Item /\ i.seq \in Nat
    BY AloftAbove
  <2>4. \A i \in Known : Traced(i, engine) => Traced(i, w)
    BY <1>2, <2>1, <2>3 DEF Traced
  <2>5. AllTraced(w)
    <3>1. landed \subseteq Known /\ Known \ issued \subseteq Known
      BY <1>1 DEF PipeOK, Known
    <3> QED BY <2>2, <2>4, <3>1 DEF AllTraced
  <2>6. ASSUME NEW i \in Known, Traced(i, w) PROVE Traced(i, w)'
    <3>1. CASE WriteManifest \/ ManifestFails
      <4>1. \A r \in lineage : r \notin lineage' => r.committed
        BY <3>1 DEF WriteManifest, ManifestFails
      <4> QED BY <1>4, <2>1, <2>6, <4>1 DEF Traced, HasRecord
    <3>2. CASE \A j \in Item : HasRecord(j) => HasRecord(j)'
      BY <2>3, <2>6, <3>2 DEF Traced
    <3> QED BY <3>1, <3>2, RecordsKept
  <2>7. AllTraced(w)'
    BY <2>5, <2>6, TracedStep
  <2> QED BY <2>1, <2>7 DEF AllTraced, Traced
<1> QED BY <1>5, <1>6, <1>7 DEF LineageOK

-----------------------------------------------------------------------------
(* The checkpoint *)

\* What is rolled and not recorded is above every watermark.
LEMMA PutsAbove ==
  ASSUME TypeInv, SoundInv
  PROVE  /\ \A i \in Aloft : i.seq \in Nat /\ i.seq >= watermarkNext /\ i.seq > reached
         /\ \A p \in puts : /\ p.data \subseteq Aloft /\ Seqs(p.data) \subseteq Nat
                            /\ \A n \in Seqs(p.data) : n >= watermarkNext /\ n > reached
         /\ reached \in Int /\ watermarkNext \in Nat /\ reached < watermarkNext /\ watermarkNext <= cursor.seq
<1>1. /\ \A i \in Known : i \in Item /\ i.seq \in Nat
      /\ Aloft \subseteq Known
      /\ \A i \in Aloft : i.seq >= contiguousNext
      /\ contiguousNext \in Nat /\ cursor.seq \in Nat
  BY AloftAbove
<1>2. watermarkNext \in 0 .. contiguousNext /\ reached \in Int /\ reached < watermarkNext
  BY FileSinkAssumption DEF TypeInv, SinkOK, IndexOK
<1>3. \A i \in Aloft : i.seq \in Nat /\ i.seq >= watermarkNext /\ i.seq > reached
  BY <1>1, <1>2
<1>4. contiguousNext <= cursor.seq
  BY DEF SoundInv, CountsOK
<1>5. ASSUME NEW p \in puts PROVE /\ p.data \subseteq Aloft /\ Seqs(p.data) \subseteq Nat
                                  /\ \A n \in Seqs(p.data) : n >= watermarkNext /\ n > reached
  <2>1. p.data \subseteq Aloft
    BY DEF Aloft, Rolled
  <2>2. Seqs(p.data) = {i.seq : i \in p.data}
    BY <1>1, <2>1, ItemFacts
  <2> QED BY <1>3, <2>1, <2>2
<1> QED BY <1>1, <1>2, <1>3, <1>4, <1>5

\* The watermark a checkpoint has read stays good.
LEMMA MarkKept ==
  ASSUME TypeInv, TypeInv', SoundInv, Working, ~WriteManifest, ~ManifestFails, Carries,
         extras \in Gathered, MarkRead, extras'.committed = extras.committed
  PROVE  MarkRead'
<1>1. PICK w \in Int : w = extras.committed
  BY FileSinkAssumption DEF Gathered
<1>2. w <= reached /\ (\A f \in committed : ~Straddles(f, w + 1)) /\ AllTraced(w)
  BY <1>1 DEF MarkRead
<1>3. reached <= reached' /\ reached \in Int /\ reached' \in Int
  BY MarksRise
<1>4. w <= reached'
  BY <1>2, <1>3
<1>5. ASSUME NEW f \in committed' PROVE ~Straddles(f, w + 1)
  <2>1. CASE f \in committed
    BY <1>2, <2>1
  <2>2. CASE f \notin committed
    <3>1. PICK p \in puts : f.seqs = Seqs(p.data)
      BY <2>2 DEF Carries, Grow
    <3>2. f.seqs \subseteq Nat /\ \A n \in f.seqs : n > reached
      BY <3>1, PutsAbove
    <3>3. \A n \in f.seqs : n >= w + 1
      BY <1>2, <1>3, <3>2
    <3> QED BY <3>2, <3>3, AboveStraddlesNot
  <2> QED BY <2>1, <2>2
<1>6. AllTraced(w)'
  <2>1. \A i \in Item : HasRecord(i) => HasRecord(i)'
    BY RecordsKept
  <2>2. \A i \in Known : i \in Item
    BY AloftAbove
  <2>3. \A i \in Known : Traced(i, w) => Traced(i, w)'
    BY <2>1, <2>2 DEF Traced
  <2> QED BY <1>2, <2>3, TracedStep
<1>7. extras'.committed = w
  BY <1>1
<1>8. AllTraced(extras.committed)'
  BY <1>6, <1>7 DEF AllTraced, Traced
<1>9. \A f \in committed' : ~Straddles(f, extras'.committed + 1)
  BY <1>5, <1>7
<1>10. \A f \in committed' : ~Straddles(f, extras.committed + 1)'
  BY <1>9 DEF Straddles
<1> QED BY <1>4, <1>7, <1>8, <1>10 DEF MarkRead

\* The sink document it has read stays good.
LEMMA DocKept ==
  ASSUME TypeInv, TypeInv', SoundInv, Carries, extras \in Gathered, MarkRead, DocRead,
         extras.doc \in Documents, extras'.committed = extras.committed, extras'.doc = extras.doc
  PROVE  DocRead'
<1>1. committed \subseteq committed' /\ nextIndex <= nextIndex'
      /\ \A d \in dest' \ dest : \E p \in puts : d.name = p.name /\ d.data = p.data
  BY DEF Carries, Grow
<1>2. extras.doc.nextIndex \in Nat /\ nextIndex \in Nat /\ nextIndex' \in Nat
  BY DEF TypeInv, SinkOK, Documents
<1>3. extras.doc.nextIndex <= nextIndex'
  BY <1>1, <1>2 DEF DocRead
<1>4. ASSUME NEW d \in dest', NEW i \in d.data, i.seq <= extras.committed
      PROVE  \E f \in extras.doc.committed : f.name = d.name
  <2>1. CASE d \in dest
    BY <1>4, <2>1 DEF DocRead
  <2>2. CASE d \notin dest
    <3>1. PICK p \in puts : d.data = p.data
      BY <1>1, <2>2
    <3>2. i.seq \in Nat /\ i.seq > reached /\ reached \in Int
      BY <3>1, PutsAbove
    <3>3. extras.committed <= reached /\ extras.committed \in Int
      BY FileSinkAssumption DEF MarkRead, Gathered
    <3> QED BY <1>4, <3>2, <3>3
  <2> QED BY <2>1, <2>2
<1> QED BY <1>1, <1>3, <1>4 DEF DocRead

\* The cursor it has read stays good.
LEMMA CursorKept ==
  ASSUME TypeInv, TypeInv', SoundInv, Working, ~WriteManifest, ~ManifestFails, Carries, extras \in Gathered,
         extras.cursor \in Cursors, CursorRead, extras' = extras
  PROVE  CursorRead'
<1> DEFINE c == extras.cursor
<1>1. /\ c.seq <= cursor.seq /\ c.row <= cursor.row /\ extras.committed < c.seq /\ extras.issued \subseteq Known
      /\ \A i \in extras.issued : i.seq < c.seq
      /\ Divides(c, Known)
      /\ \A i \in Known \ extras.issued : i.seq < c.seq => Traced(i, extras.committed)
  BY DEF CursorRead
<1>2. c.seq \in Nat /\ c.row \in Nat /\ cursor.seq \in Nat /\ cursor.row \in Nat
      /\ cursor'.seq \in Nat /\ cursor'.row \in Nat
  BY DEF Cursors, TypeInv, PipeOK
<1>3. /\ Known \subseteq Known' /\ cursor.seq <= cursor'.seq /\ cursor.row <= cursor'.row
      /\ \A i \in Known' \ Known : i.seq >= cursor.seq /\ i.rows \cap (0 .. cursor.row - 1) = {}
  BY DEF Carries
<1>4. \A i \in Known' : i \in Item /\ i.seq \in Nat
  <2>1. /\ Opened' \subseteq Item /\ Rolled' \subseteq Item /\ Stored' \subseteq Item
    BY DEF TypeInv, SinkOK, OpenFiles, PutFiles, Opened, Rolled, Stored
  <2>2. issued' \subseteq Item /\ Moving' \subseteq Item /\ dropped' \subseteq Item
    BY Stages DEF TypeInv, PipeOK, Moving
  <2>3. Known' \subseteq Item
    BY <2>1, <2>2 DEF Known, Sunk
  <2> QED BY <2>3, ItemFacts
<1>5. c.seq <= cursor'.seq /\ c.row <= cursor'.row
  BY <1>1, <1>2, <1>3
<1>6. ASSUME NEW i \in Known' \ Known PROVE ~(i.seq < c.seq) /\ i.rows \cap (0 .. c.row - 1) = {}
  <2>1. i.seq \in Nat /\ i.seq >= cursor.seq /\ i.rows \cap (0 .. cursor.row - 1) = {}
    BY <1>3, <1>4
  <2>2. 0 .. c.row - 1 \subseteq 0 .. cursor.row - 1
    BY <1>1, <1>2
  <2> QED BY <1>1, <1>2, <2>1, <2>2
<1>7. Divides(c, Known')
  BY <1>1, <1>6 DEF Divides
<1>8. \A i \in Item : HasRecord(i) => HasRecord(i)'
  BY RecordsKept
<1>9. \A i \in Known : i \in Item
  BY AloftAbove
<1>10. ASSUME NEW i \in Known' \ extras.issued, i.seq < c.seq PROVE HasRecord(i)' \/ i.seq <= extras.committed
  BY <1>1, <1>6, <1>8, <1>9, <1>10 DEF Traced
<1>11. extras'.cursor = c /\ extras'.committed = extras.committed /\ extras'.issued = extras.issued
  OBVIOUS
<1>12. Divides(extras.cursor, Known)'
  BY <1>7, <1>11 DEF Divides
<1>13. \A i \in Known' \ extras'.issued : i.seq < extras'.cursor.seq => Traced(i, extras.committed)'
  BY <1>10, <1>11 DEF Traced
<1> HIDE DEF c
<1> QED BY <1>1, <1>3, <1>5, <1>11, <1>12, <1>13 DEF CursorRead

\* What may happen to the checkpoint.
LEMMA CkptMoves ==
  ASSUME Working
  PROVE  \/ UNCHANGED <<ckpt, extras, manifest>>
         \/ \E portable \in Portable : StartCheckpoint(portable)
         \/ FlushSink \/ UpdateWatermark \/ ReadReached \/ ReadSinkState \/ ReadCursor \/ WriteManifest
         \/ ManifestFails
<1>1. ASSUME NEW i, PushRead(i) \/ Forget(i) \/ TakeWork(i) \/ Record(i) \/ Issue(i)
      PROVE  UNCHANGED <<ckpt, extras, manifest>>
  BY <1>1, Zenon DEF PushRead, Forget, TakeWork, Record, Issue, ckptVars
<1>2. ASSUME NEW i, Apply(i) \/ ApplyFails(i) \/ WriteMorsel(i, TRUE) \/ WriteMorsel(i, FALSE)
      PROVE  UNCHANGED <<ckpt, extras, manifest>>
  BY <1>2, Zenon DEF Apply, ApplyFails, WriteMorsel, ckptVars
<1>3. RollSettles \/ FinishSink \/ Claim \/ SetCommitted => UNCHANGED <<ckpt, extras, manifest>>
  BY Zenon DEF RollSettles, FinishSink, Claim, SetCommitted, ckptVars
<1> QED BY <1>1, <1>2, <1>3, Zenon DEF Working

\* checkpoint_now reads the watermark, ...
LEMMA MarkTaken ==
  ASSUME TypeInv, TypeInv', SoundInv, LineageOK', Carries, ReadReached
  PROVE  MarkRead'
<1>1. /\ ckpt = "watermark" /\ extras' = [extras EXCEPT !.committed = reached]
      /\ UNCHANGED <<sinkVars, lineage, markVars, sourceVars, q, work, pushing, dropped>>
  BY DEF ReadReached, CkptStep
<1>2. extras \in Gathered
  BY <1>1 DEF TypeInv, CkptOK
<1>3. extras'.committed = reached /\ reached' = reached /\ engine' = engine /\ committed' = committed
  BY <1>1, <1>2 DEF Gathered, markVars, sinkVars, ledgerVars
<1>4. engine <= reached /\ engine \in Int /\ reached \in Int
  BY FileSinkAssumption DEF TypeInv, IndexOK
<1>5. \A f \in committed' : ~Straddles(f, extras.committed + 1)'
  BY <1>3 DEF SoundInv, MarksOK, Straddles
<1>6. AllTraced(engine)'
  BY DEF LineageOK
<1>7. \A i \in Known' : i.seq \in Nat
  <2>1. Known' = Known
    BY <1>1, StillMoved DEF Moved
  <2> QED BY <2>1, AloftAbove
<1>8. landed' \subseteq Known'
  BY DEF TypeInv, PipeOK, Known
<1>9. \A i \in Known' : Traced(i, engine)' => Traced(i, extras.committed)'
  BY <1>3, <1>4, <1>7 DEF Traced
<1>10. AllTraced(extras.committed)'
  BY <1>6, <1>8, <1>9 DEF AllTraced
<1>11. extras'.committed <= reached'
  BY <1>3, <1>4
<1> QED BY <1>5, <1>10, <1>11 DEF MarkRead

\* ... then the sink's state, ...
LEMMA DocTaken ==
  ASSUME TypeInv, TypeInv', SoundInv, MarkRead, ReadSinkState
  PROVE  DocRead'
<1>1. /\ ckpt = "state" /\ extras' = [extras EXCEPT !.doc = Document]
      /\ UNCHANGED <<committed, nextIndex, dest>>
  BY DEF ReadSinkState, CkptStep, sinkVars, ledgerVars
<1>2. extras \in Gathered
  BY <1>1 DEF TypeInv, CkptOK
<1>3. /\ extras'.committed = extras.committed
      /\ extras'.doc.committed = committed /\ extras'.doc.nextIndex = nextIndex
  BY <1>1, <1>2 DEF Gathered, Document
<1>4. FilesOK /\ nextIndex \in Nat
  BY DEF SoundInv, TypeInv, SinkOK
<1>5. ASSUME NEW d \in dest, NEW i \in d.data, i.seq <= extras.committed
      PROVE  \E f \in committed : f.name = d.name
  <2>1. SUFFICES ASSUME NEW p \in puts, p.name = d.name PROVE FALSE
    BY <1>4 DEF FilesOK
  <2>2. p.put = "stored" /\ [name |-> p.name, data |-> p.data] \in dest
    BY <1>4, <2>1 DEF FilesOK
  <2>3. d = [name |-> p.name, data |-> p.data]
    BY <1>4, <2>1, <2>2 DEF FilesOK
  <2>4. i \in p.data
    BY <2>3
  <2>5. i.seq \in Nat /\ i.seq > reached /\ reached \in Int
    BY <2>4, PutsAbove
  <2>6. extras.committed <= reached /\ extras.committed \in Int
    BY <1>2, FileSinkAssumption DEF MarkRead, Gathered
  <2> QED BY <1>5, <2>5, <2>6
<1>6. \A f \in committed : f.name < nextIndex
  BY <1>4 DEF FilesOK
<1>7. nextIndex <= nextIndex
  BY <1>4
<1> QED BY <1>1, <1>3, <1>5, <1>6, <1>7 DEF DocRead

\* ... and the cursor with its reads.
LEMMA CursorTaken ==
  ASSUME TypeInv, TypeInv', SoundInv, MarkRead, Carries, ReadCursor
  PROVE  CursorRead'
<1>1. /\ ckpt = "cursor" /\ extras' = [extras EXCEPT !.cursor = cursor, !.issued = issued]
      /\ UNCHANGED <<sinkVars, sourceVars, q, work, dropped, lineage>>
  BY DEF ReadCursor, CkptStep
<1>2. extras \in Gathered
  BY <1>1 DEF TypeInv, CkptOK
<1>3. extras'.committed = extras.committed /\ extras'.cursor = cursor /\ extras'.issued = issued
  BY <1>1, <1>2 DEF Gathered
<1>4. Known' = Known /\ cursor' = cursor /\ issued' = issued /\ lineage' = lineage
  BY <1>1, StillMoved DEF Moved, sourceVars
<1>5. ItemsOK /\ extras.committed <= reached /\ extras.committed \in Int /\ AllTraced(extras.committed)
  BY <1>2, FileSinkAssumption DEF SoundInv, MarkRead, Gathered
<1>6. /\ reached \in Int /\ watermarkNext \in Nat /\ reached < watermarkNext /\ watermarkNext <= cursor.seq
      /\ cursor.seq \in Nat /\ cursor.row \in Nat
  BY PutsAbove, AloftAbove
<1>7. extras.committed < cursor.seq
  BY <1>5, <1>6
<1>8. cursor.seq <= cursor.seq /\ cursor.row <= cursor.row
  BY <1>6
<1>9. issued \subseteq Known
  BY DEF Known
<1>10. \A i \in Known : i.seq < cursor.seq /\ i.rows \subseteq 0 .. cursor.row - 1
  BY <1>5 DEF ItemsOK
<1>11. Divides(extras.cursor, Known)'
  BY <1>3, <1>4, <1>10 DEF Divides
<1>12. \A i \in Known' \ extras'.issued : Traced(i, extras.committed)'
  BY <1>3, <1>4, <1>5 DEF AllTraced, Traced, HasRecord
<1>13. /\ extras'.cursor.seq <= cursor'.seq /\ extras'.cursor.row <= cursor'.row
       /\ extras'.committed < extras'.cursor.seq
       /\ extras'.issued \subseteq Known'
       /\ \A i \in extras'.issued : i.seq < extras'.cursor.seq
  BY <1>3, <1>4, <1>7, <1>8, <1>9, <1>10
<1> QED BY <1>11, <1>12, <1>13 DEF CursorRead

\* Every step of a working run keeps what the checkpoint has gathered.
LEMMA GatheredStep ==
  ASSUME TypeInv, TypeInv', SoundInv, Working, Carries, LineageOK'
  PROVE  GatheredOK'
<1>1. CkptOK /\ GatheredOK
  BY DEF TypeInv, SoundInv
<1>2. HasMark => extras \in Gathered /\ MarkRead
  BY <1>1 DEF CkptOK, GatheredOK, HasMark
<1>3. HasDoc => HasMark /\ DocRead /\ extras.doc \in Documents
  BY <1>1 DEF CkptOK, GatheredOK, HasDoc, HasMark
<1>4. HasCursor => HasDoc /\ CursorRead /\ extras.cursor \in Cursors
  BY <1>1 DEF CkptOK, GatheredOK, HasCursor, HasDoc
<1>5. CASE UNCHANGED <<ckpt, extras, manifest>>
  <2>1. ~WriteManifest /\ ~ManifestFails
    BY <1>5 DEF WriteManifest, ManifestFails, CkptStep
  <2>2. HasMark' = HasMark /\ HasDoc' = HasDoc /\ HasCursor' = HasCursor
    BY <1>5 DEF HasMark, HasDoc, HasCursor
  <2>3. HasMark => MarkRead'
    BY <1>2, <1>5, <2>1, MarkKept
  <2>4. HasDoc => DocRead'
    BY <1>2, <1>3, <1>5, DocKept
  <2>5. HasCursor => CursorRead'
    BY <1>2, <1>3, <1>4, <1>5, <2>1, CursorKept
  <2> QED BY <2>2, <2>3, <2>4, <2>5 DEF GatheredOK
<1>6. CASE \/ \E portable \in Portable : StartCheckpoint(portable)
           \/ FlushSink \/ UpdateWatermark \/ WriteManifest \/ ManifestFails
  <2>1. ckpt' \in {"flush", "flushed", "watermark", "idle"}
    BY <1>6 DEF StartCheckpoint, FlushSink, UpdateWatermark, WriteManifest, ManifestFails, CkptStep
  <2> QED BY <2>1 DEF GatheredOK, HasMark, HasDoc, HasCursor
<1>7. CASE ReadReached
  <2>1. ckpt' = "state"
    BY <1>7 DEF ReadReached, CkptStep
  <2> QED BY <1>7, <2>1, MarkTaken DEF GatheredOK, HasDoc, HasCursor
<1>8. CASE ReadSinkState
  <2>1. /\ ckpt = "state" /\ ckpt' = "cursor" /\ extras' = [extras EXCEPT !.doc = Document]
    BY <1>8 DEF ReadSinkState, CkptStep
  <2>2. extras \in Gathered /\ MarkRead
    BY <1>2, <2>1 DEF HasMark
  <2>3. extras'.committed = extras.committed
    BY <2>1, <2>2 DEF Gathered
  <2>4. MarkRead'
    BY <1>8, <2>1, <2>2, <2>3, MarkKept DEF WriteManifest, ManifestFails, CkptStep
  <2>5. DocRead'
    BY <1>8, <2>2, DocTaken
  <2> QED BY <2>1, <2>4, <2>5 DEF GatheredOK, HasCursor
<1>9. CASE ReadCursor
  <2>1. /\ ckpt = "cursor" /\ ckpt' = "manifest" /\ extras' = [extras EXCEPT !.cursor = cursor, !.issued = issued]
    BY <1>9 DEF ReadCursor, CkptStep
  <2>2. extras \in Gathered /\ MarkRead /\ DocRead /\ extras.doc \in Documents
    BY <1>2, <1>3, <2>1 DEF HasMark, HasDoc
  <2>3. extras'.committed = extras.committed /\ extras'.doc = extras.doc
    BY <2>1, <2>2 DEF Gathered
  <2>4. MarkRead'
    BY <1>9, <2>1, <2>2, <2>3, MarkKept DEF WriteManifest, ManifestFails, CkptStep
  <2>5. DocRead'
    BY <2>2, <2>3, DocKept
  <2>6. CursorRead'
    BY <1>9, <2>2, CursorTaken
  <2> QED BY <2>4, <2>5, <2>6 DEF GatheredOK
<1> QED BY <1>5, <1>6, <1>7, <1>8, <1>9, CkptMoves

\* Barrier::enter: only the flushed file and the engine's watermark still move.
LEMMA BarrierStep ==
  ASSUME TypeInv, TypeInv', SoundInv, Working
  PROVE  BarrierOK'
<1>1. CkptOK /\ BarrierOK /\ CkptOK'
  BY DEF TypeInv, SoundInv
<1>2. ckpt # "idle" => extras \in Gathered
  BY <1>1 DEF CkptOK
<1>3. ASSUME Barrier PROVE /\ landed = {} /\ work = {} /\ pushing = {}
                           /\ ckpt # "flushed" => puts = {}
                           /\ ckpt \notin {"flush", "flushed"} => engine = reached
                           /\ HasMark => extras.committed = reached
                           /\ HasCursor => extras.cursor = cursor /\ extras.issued = issued
  BY <1>1, <1>3 DEF BarrierOK
<1>4. CASE UNCHANGED <<ckpt, extras, manifest>>
  <2>1. SUFFICES ASSUME Barrier PROVE BarrierOK'
    BY <1>4 DEF BarrierOK, Barrier
  <2>2. Barrier' /\ HasMark' = HasMark /\ HasCursor' = HasCursor
    BY <1>4, <2>1 DEF Barrier, HasMark, HasCursor
  <2>3. RollSettles \/ SetCommitted
    <3>1. ASSUME NEW i, PushRead(i) \/ Forget(i) \/ TakeWork(i) \/ Issue(i) PROVE FALSE
      BY <2>1, <3>1, Zenon DEF PushRead, Forget, TakeWork, Issue, Running
    <3>2. ASSUME NEW i, Apply(i) \/ ApplyFails(i) \/ WriteMorsel(i, TRUE) \/ WriteMorsel(i, FALSE)
          PROVE  FALSE
      BY <2>1, <3>2, Zenon DEF Apply, ApplyFails, WriteMorsel, Running
    <3>3. ~FinishSink /\ ~Claim /\ pushing = {}
      BY <1>3, <2>1, Zenon DEF FinishSink, Claim, Running
    <3>4. /\ \A portable : ~StartCheckpoint(portable)
          /\ ~FlushSink /\ ~UpdateWatermark /\ ~ReadReached /\ ~ReadSinkState /\ ~ReadCursor /\ ~WriteManifest
          /\ ~ManifestFails
      BY <1>4 DEF StartCheckpoint, FlushSink, UpdateWatermark, ReadReached, ReadSinkState, ReadCursor,
                  WriteManifest, ManifestFails, CkptStep
    <3> QED BY <3>1, <3>2, <3>3, <3>4, Zenon DEF Working
  <2>4. CASE RollSettles
    <3>1. puts # {}
      BY <2>4 DEF RollSettles
    <3>2. ckpt = "flushed" /\ ckpt' = "flushed"
      BY <1>3, <1>4, <2>1, <3>1
    <3>3. UNCHANGED <<landed, work, pushing>>
      BY <2>4 DEF RollSettles, sourceVars
    <3> QED BY <1>3, <2>1, <3>2, <3>3 DEF BarrierOK, HasMark, HasCursor
  <2>5. CASE SetCommitted
    <3>1. /\ UNCHANGED <<landed, work, pushing, puts, cursor, issued, reached>> /\ engine' = reached
      BY <2>5 DEF SetCommitted, sourceVars, sinkVars
    <3> QED BY <1>3, <1>4, <2>1, <2>2, <3>1 DEF BarrierOK
  <2> QED BY <2>3, <2>4, <2>5
<1>5. ASSUME NEW portable \in Portable, StartCheckpoint(portable) PROVE BarrierOK'
  <2>1. /\ extras' = Gathering(portable) /\ (portable => Quiescent) /\ (portable => ckpt' = "flush")
        /\ UNCHANGED <<landed, work, pushing, puts>>
    BY <1>5 DEF StartCheckpoint, CkptStep, sourceVars, sinkVars
  <2>2. extras'.portable = portable
    BY <2>1 DEF Gathering
  <2> QED BY <2>1, <2>2 DEF BarrierOK, Barrier, Quiescent, HasMark, HasCursor
<1>6. CASE FlushSink
  <2>1. ckpt' = "flushed" /\ extras' = extras /\ UNCHANGED <<landed, work, pushing>>
    BY <1>6 DEF FlushSink, CkptStep, sourceVars
  <2> QED BY <1>3, <2>1 DEF BarrierOK, Barrier, HasMark, HasCursor
<1>7. CASE UpdateWatermark
  <2>1. /\ ckpt' = "watermark" /\ extras' = extras /\ puts' = {} /\ engine' = reached'
        /\ UNCHANGED <<landed, work, pushing>>
    BY <1>7 DEF UpdateWatermark, CkptStep, sourceVars, sinkVars
  <2> QED BY <1>3, <2>1 DEF BarrierOK, Barrier, HasMark, HasCursor
<1>8. CASE ReadReached \/ ReadSinkState \/ ReadCursor
  <2>1. /\ ckpt \in {"watermark", "state", "cursor"} /\ ckpt' \in {"state", "cursor", "manifest"}
        /\ UNCHANGED <<landed, work, pushing, puts, engine, reached, cursor, issued>>
    BY <1>8 DEF ReadReached, ReadSinkState, ReadCursor, CkptStep, sourceVars, sinkVars, markVars
  <2>2. extras \in Gathered
    BY <1>2, <2>1
  <2>3. extras # None
    BY <1>1, <2>1 DEF CkptOK
  <2>4. CASE ReadReached
    <3>1. ckpt' = "state" /\ extras' = [extras EXCEPT !.committed = reached]
      BY <2>4 DEF ReadReached, CkptStep
    <3>2. extras'.portable = extras.portable /\ extras'.committed = reached
      BY <2>2, <3>1 DEF Gathered
    <3> QED BY <1>3, <2>1, <2>3, <3>1, <3>2 DEF BarrierOK, Barrier, HasCursor
  <2>5. CASE ReadSinkState
    <3>1. ckpt = "state" /\ ckpt' = "cursor" /\ extras' = [extras EXCEPT !.doc = Document]
      BY <2>5 DEF ReadSinkState, CkptStep
    <3>2. extras'.portable = extras.portable /\ extras'.committed = extras.committed
      BY <2>2, <3>1 DEF Gathered
    <3> QED BY <1>3, <2>1, <2>3, <3>1, <3>2 DEF BarrierOK, Barrier, HasCursor, HasMark
  <2>6. CASE ReadCursor
    <3>1. ckpt = "cursor" /\ ckpt' = "manifest" /\ extras' = [extras EXCEPT !.cursor = cursor, !.issued = issued]
      BY <2>6 DEF ReadCursor, CkptStep
    <3>2. /\ extras'.portable = extras.portable /\ extras'.committed = extras.committed
          /\ extras'.cursor = cursor /\ extras'.issued = issued
      BY <2>2, <3>1 DEF Gathered
    <3> QED BY <1>3, <2>1, <2>3, <3>1, <3>2 DEF BarrierOK, Barrier, HasMark
  <2> QED BY <1>8, <2>4, <2>5, <2>6
<1>9. CASE WriteManifest \/ ManifestFails
  BY <1>9 DEF WriteManifest, ManifestFails, BarrierOK, Barrier
<1> QED BY <1>4, <1>5, <1>6, <1>7, <1>8, <1>9, CkptMoves

\* finish comes last: nothing is read, moved or written once it has begun.
LEMMA FinishStep ==
  ASSUME TypeInv, TypeInv', SoundInv, Working, Carries
  PROVE  FinishOK'
<1>1. SinkOK /\ PipeOK /\ FinishOK /\ SinkOK'
  BY DEF TypeInv, SoundInv
<1>2. /\ \A p \in puts : p.by = "finish" => puts = {p} /\ Drained
      /\ phase = "finished" => puts = {} /\ Drained
  BY <1>1 DEF FinishOK
<1>3. ASSUME ~Drained, phase' = phase, \A p \in puts' \ puts : p.by # "finish" PROVE FinishOK'
  BY <1>2, <1>3 DEF FinishOK
<1>4. ASSUME UNCHANGED <<phase, puts, current, issued, q, work, cursor>> PROVE FinishOK'
  BY <1>2, <1>4 DEF FinishOK, Drained, Moving
<1>5. ASSUME NEW size \in Sizes, Issue(size) PROVE FinishOK'
  <2>1. ~Drained
    BY <1>1, <1>5, RunResumeAssumption DEF Issue, Drained, PipeOK, Cursors
  <2> QED BY <1>3, <1>5, <2>1 DEF Issue, sinkVars
<1>6. ASSUME NEW i \in issued, PushRead(i) PROVE FinishOK'
  BY <1>3, <1>6 DEF PushRead, sinkVars, Drained
<1>7. ASSUME NEW i \in landed, Forget(i) PROVE FinishOK'
  BY <1>1, <1>3, <1>7 DEF Forget, sinkVars, Drained, PipeOK
<1>8. ASSUME NEW i \in q[0], TakeWork(i) PROVE FinishOK'
  BY <1>3, <1>8 DEF TakeWork, sinkVars, Drained, Moving
<1>9. ASSUME NEW i \in work, Apply(i) PROVE FinishOK'
  BY <1>3, <1>9 DEF Apply, sinkVars, Drained, Moving
<1>10. ASSUME NEW i \in work, ApplyFails(i) PROVE FinishOK'
  BY <1>3, <1>10 DEF ApplyFails, SinkSkip, Drained, Moving
<1>11. ASSUME NEW i \in q[1], WriteMorsel(i, TRUE) \/ WriteMorsel(i, FALSE) PROVE FinishOK'
  <2>1. PICK roll \in BOOLEAN : WriteMorsel(i, roll)
    BY <1>11, Zenon
  <2>2. phase' = phase /\ \A p \in puts' \ puts : p.by = "write"
    BY <1>1, <2>1, WriteMorselMoved
  <2>3. ~Drained
    BY DEF Drained, Moving
  <2> QED BY <1>3, <2>2, <2>3
<1>12. ASSUME NEW p \in puts, PutLands(p), RollSettles PROVE FinishOK'
  <2>1. /\ phase' = phase /\ current' = current /\ puts' = (puts \ {p}) \cup {[p EXCEPT !.put = "stored"]}
        /\ UNCHANGED <<issued, q, work, cursor>>
    BY <1>12 DEF PutLands, RollSettles, sourceVars
  <2> DEFINE o == [p EXCEPT !.put = "stored"]
  <2>2. o.by = p.by
    BY <1>1 DEF SinkOK, PutFiles
  <2>3. puts' = (puts \ {p}) \cup {o}
    BY <2>1
  <2>4. Drained' = Drained
    BY <2>1 DEF Drained, Moving
  <2> HIDE DEF o
  <2>5. ASSUME NEW x \in puts', x.by = "finish" PROVE puts' = {x} /\ Drained'
    <3>1. puts = {p} /\ Drained
      BY <1>2, <2>2, <2>3, <2>5
    <3> QED BY <2>3, <2>4, <2>5, <3>1
  <2>6. phase # "finished"
    BY <1>2
  <2> QED BY <2>1, <2>5, <2>6 DEF FinishOK
<1>13. ASSUME NEW p \in puts, Commit(p), RollSettles PROVE FinishOK'
  <2>1. phase' = phase /\ puts' = puts \ {p} /\ p.by # "finish"
    BY <1>13 DEF Commit
  <2>2. \A x \in puts : x.by # "finish"
    BY <1>2, <2>1
  <2> QED BY <1>2, <2>1, <2>2 DEF FinishOK
<1>14. CASE FinishSink
  <2>1. /\ cursor'.row = NRows /\ issued' = {} /\ Moving' = {} /\ Running
    BY <1>14 DEF FinishSink, sourceVars, Moving
  <2>2. CASE puts = {} /\ FinishRoll
    <3>1. UNCHANGED <<cursor, issued, landed, q, work, dropped, reached, engine, floor>>
      BY <1>14 DEF FinishSink, sourceVars, markVars, lifeVars
    <3>2. phase' = phase /\ phase = "open" /\ current' = None /\ \E x : puts' = puts \cup {x} /\ x.by = "finish"
      BY <1>1, <2>2, <3>1, RollMoved
    <3> QED BY <2>1, <2>2, <3>2 DEF FinishOK, Drained
  <2>3. CASE puts = {} /\ FinishClosed(TRUE)
    <3>1. puts' = {} /\ current' = None
      BY <2>3 DEF FinishClosed
    <3> QED BY <2>1, <3>1 DEF FinishOK, Drained
  <2>4. ASSUME NEW p \in puts, FinishCommit(p, TRUE) PROVE FinishOK'
    <3>1. puts = {p} /\ current = None /\ puts' = puts \ {p} /\ current' = current
      BY <1>2, <2>4 DEF FinishCommit, Drained
    <3> QED BY <2>1, <3>1 DEF FinishOK, Drained
  <2> QED BY <1>14, <2>2, <2>3, <2>4 DEF FinishSink
<1>15. CASE FlushSink
  <2>1. UNCHANGED <<cursor, issued, landed, q, work, dropped, reached, engine, floor>>
    BY <1>15 DEF FlushSink, CkptStep, sourceVars, markVars, lifeVars
  <2>2. CASE Flush
    <3>1. PICK x : phase' = phase /\ phase = "open" /\ puts' = puts \cup {x} /\ x.by = "flush"
      BY <1>1, <2>1, <2>2, RollMoved
    <3>2. ~Drained
      BY <2>2 DEF Flush, Drained
    <3> QED BY <1>3, <3>1, <3>2
  <2>3. CASE UNCHANGED sinkVars
    BY <1>4, <2>1, <2>3 DEF sinkVars
  <2> QED BY <1>15, <2>2, <2>3 DEF FlushSink
<1>16. ASSUME \/ \E p \in pushing : Record(p)
              \/ Claim \/ SetCommitted \/ UpdateWatermark
              \/ \E portable \in Portable : StartCheckpoint(portable)
              \/ ReadReached \/ ReadSinkState \/ ReadCursor \/ WriteManifest \/ ManifestFails
       PROVE  FinishOK'
  <2>1. UNCHANGED <<sinkVars, sourceVars, q, work>>
    BY <1>16, StillStep, Zenon
  <2> QED BY <1>4, <2>1 DEF sinkVars, sourceVars
<1>17. RollSettles => \E p \in puts : PutLands(p) \/ Commit(p)
  BY DEF RollSettles
<1> QED
  BY <1>5, <1>6, <1>7, <1>8, <1>9, <1>10, <1>11, <1>12, <1>13, <1>14, <1>15, <1>16, <1>17, Zenon DEF Working
=============================================================================
