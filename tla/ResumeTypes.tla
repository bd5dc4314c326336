---------------------------- MODULE ResumeTypes -----------------------------
(***************************************************************************)
(* Every step of RunResume keeps its types, and what the steps of the sink *)
(* do to its files.                                                        *)
(***************************************************************************)
EXTENDS ResumeInvariant, FiniteSetTheorems

USE ZenonT(3), SMTT(30)

-----------------------------------------------------------------------------
(* Types *)

\* What a morsel is.
LEMMA ItemFacts ==
  /\ \A i \in Item : i.seq \in Seq0 /\ i.seq \in Nat /\ i.rows \in SUBSET Rows /\ SeqOf[i] = i.seq
  /\ \A i \in Item : ReadAgain(i) \in Item /\ ReadAgain(i).seq = i.seq /\ ReadAgain(i).rows = i.rows
  /\ \A S \in SUBSET Item : Seqs(S) = {i.seq : i \in S} /\ Seqs(S) \in SUBSET Seq0
<1>1. Item = [seq : Seq0, rows : SUBSET Rows, read : {"cursor", "again"}] /\ SeqOf = [i \in Item |-> i.seq]
  BY RunResumeAssumption
<1>2. \A n \in Seq0 : n \in Nat
  BY DEF Seq0
<1>3. \A i \in Item : i.seq \in Seq0 /\ i.seq \in Nat /\ i.rows \in SUBSET Rows /\ SeqOf[i] = i.seq
  BY <1>1, <1>2
<1>4. \A i \in Item : ReadAgain(i) \in Item /\ ReadAgain(i).seq = i.seq /\ ReadAgain(i).rows = i.rows
  BY <1>1 DEF ReadAgain
<1>5. \A S \in SUBSET Item : Seqs(S) = {i.seq : i \in S}
  BY <1>3 DEF Seqs
<1>6. \A S \in SUBSET Item : Seqs(S) \in SUBSET Seq0
  BY <1>3, <1>5
<1> QED BY <1>3, <1>4, <1>5, <1>6

\* Ledger::commit of a rolled file.
LEMMA CommitTypes ==
  ASSUME SinkOK, NEW p \in puts, CommitFile(p.name, p.data)
  PROVE  /\ committed' = committed \cup {[name |-> p.name, seqs |-> Seqs(p.data)]}
         /\ committed' \in SUBSET Files /\ openRanges' \subseteq committed' /\ done' \in SUBSET Seq0
         /\ contiguousNext' \in contiguousNext .. N /\ watermarkNext' \in watermarkNext .. contiguousNext'
         /\ Counted' \subseteq Counted \cup Seqs(p.data)
<1> DEFINE f == [name |-> p.name, seqs |-> Seqs(p.data)]
           d == done \cup Seqs(p.data)
           files == IF Seqs(p.data) = {} THEN openRanges ELSE openRanges \cup {f}
<1>1. p.name \in Nat /\ p.data \in SUBSET Item
  BY DEF SinkOK, PutFiles
<1>2. Seqs(p.data) \in SUBSET Seq0
  BY <1>1, ItemFacts
<1>3. committed' = committed \cup {f} /\ Advance(d, files)
  BY DEF CommitFile
<1>4. f \in Files
  BY <1>1, <1>2 DEF Files
<1>5. committed' \in SUBSET Files
  BY <1>3, <1>4 DEF SinkOK
<1>6. d \in SUBSET Seq0 /\ files \subseteq committed'
  BY <1>2, <1>3 DEF SinkOK
<1>7. \A g \in files : g.seqs \subseteq Seq0
  BY <1>5, <1>6 DEF Files
<1>8. contiguousNext \in 0 .. N /\ watermarkNext \in 0 .. contiguousNext
  BY DEF SinkOK
<1> HIDE DEF d, files, f
<1>9. /\ contiguousNext' \in contiguousNext .. N
      /\ watermarkNext' \in watermarkNext .. contiguousNext'
      /\ done' \subseteq d
      /\ openRanges' \subseteq files
      /\ Counted' \subseteq d \cup (0 .. contiguousNext - 1)
  BY <1>3, <1>6, <1>7, <1>8, AdvanceRange
<1>10. Counted' \subseteq Counted \cup Seqs(p.data)
  BY <1>9 DEF d, Counted
<1>11. committed' = committed \cup {[name |-> p.name, seqs |-> Seqs(p.data)]}
  BY <1>3 DEF f
<1> QED BY <1>5, <1>6, <1>9, <1>10, <1>11

\* Ledger::skip.
LEMMA SkipTypes ==
  ASSUME SinkOK, NEW n \in Seq0, SinkSkip(n)
  PROVE  /\ UNCHANGED <<phase, committed, nextIndex, current, puts, dest>>
         /\ openRanges' \subseteq openRanges /\ done' \in SUBSET Seq0
         /\ contiguousNext' \in contiguousNext .. N /\ watermarkNext' \in watermarkNext .. contiguousNext'
         /\ Counted' \subseteq Counted \cup {n}
<1>1. UNCHANGED <<phase, committed, nextIndex, current, puts, dest>>
  BY DEF SinkSkip
<1>2. contiguousNext \in 0 .. N /\ watermarkNext \in 0 .. contiguousNext
  BY DEF SinkOK
<1>3. CASE n >= contiguousNext
  <2>1. Advance(done \cup {n}, openRanges)
    BY <1>3 DEF SinkSkip
  <2>2. done \cup {n} \in SUBSET Seq0 /\ \A g \in openRanges : g.seqs \subseteq Seq0
    BY DEF SinkOK, Files
  <2>3. /\ contiguousNext' \in contiguousNext .. N
        /\ watermarkNext' \in watermarkNext .. contiguousNext'
        /\ done' \subseteq done \cup {n}
        /\ openRanges' \subseteq openRanges
        /\ Counted' \subseteq (done \cup {n}) \cup (0 .. contiguousNext - 1)
    BY <1>2, <2>1, <2>2, AdvanceRange
  <2>4. Counted' \subseteq Counted \cup {n}
    BY <2>3 DEF Counted
  <2> QED BY <1>1, <2>2, <2>3, <2>4
<1>4. CASE ~(n >= contiguousNext)
  <2>1. UNCHANGED <<contiguousNext, done, watermarkNext, openRanges>>
    BY <1>4 DEF SinkSkip
  <2> QED BY <1>1, <1>2, <2>1 DEF SinkOK, Counted
<1> QED BY <1>3, <1>4

\* A file handed to the reactor.
LEMMA PutTypes ==
  ASSUME SinkOK, current # None, NEW by \in {"write", "flush", "finish"}
  PROVE  /\ Put(by) \in PutFiles /\ Put(by).name = current.name /\ Put(by).data = current.data
         /\ Put(by).by = by /\ Put(by).put = "sent"
<1>1. current.name \in Nat /\ current.data \in SUBSET Item
  BY DEF SinkOK, OpenFiles
<1> QED BY <1>1 DEF Put, PutFiles

\* write's roll and append, by what they do to the files.
LEMMA EncodeTypes ==
  ASSUME SinkOK, NEW i \in Item, NEW roll \in BOOLEAN, Encode(i, roll)
  PROVE  SinkOK' /\ watermarkNext <= watermarkNext'
<1>1. UNCHANGED <<phase, committed, done, contiguousNext, openRanges, watermarkNext, dest>>
  BY DEF Encode
<1>2. current' \in OpenFiles /\ nextIndex' \in Nat /\ puts' \in SUBSET PutFiles
  <2>1. CASE current # None /\ ~roll
    <3>1. current \in OpenFiles /\ current' = [current EXCEPT !.data = @ \cup {i}]
          /\ UNCHANGED <<nextIndex, puts>>
      BY <2>1 DEF Encode, SinkOK
    <3> QED BY <3>1 DEF SinkOK, OpenFiles
  <2>2. CASE ~(current # None /\ ~roll)
    <3>1. /\ current' = [name |-> nextIndex, data |-> {i}]
          /\ nextIndex' = nextIndex + 1
          /\ puts' = IF roll THEN puts \cup {Put("write")} ELSE puts
          /\ roll => current # None
      BY <2>2 DEF Encode
    <3>2. nextIndex \in Nat /\ puts \in SUBSET PutFiles
      BY DEF SinkOK
    <3>3. roll => Put("write") \in PutFiles
      BY <3>1, PutTypes
    <3> QED BY <3>1, <3>2, <3>3 DEF OpenFiles
  <2> QED BY <2>1, <2>2
<1>3. watermarkNext \in Nat /\ contiguousNext \in Nat
  BY DEF SinkOK
<1> QED BY <1>1, <1>2, <1>3 DEF SinkOK

\* A put lands in the store.
LEMMA LandsTypes ==
  ASSUME SinkOK, NEW p \in puts, PutLands(p)
  PROVE  /\ SinkOK' /\ watermarkNext <= watermarkNext'
         /\ [p EXCEPT !.put = "stored"] \in PutFiles
         /\ [name |-> p.name, data |-> p.data] \in OpenFiles
<1>1. p \in PutFiles
  BY DEF SinkOK
<1>2. [p EXCEPT !.put = "stored"] \in PutFiles /\ [name |-> p.name, data |-> p.data] \in OpenFiles
  BY <1>1 DEF PutFiles, OpenFiles
<1>3. /\ UNCHANGED <<phase, committed, nextIndex, done, contiguousNext, openRanges, watermarkNext, current>>
      /\ puts' = (puts \ {p}) \cup {[p EXCEPT !.put = "stored"]}
      /\ dest' = dest \cup {[name |-> p.name, data |-> p.data]}
  BY DEF PutLands, ledgerVars
<1>4. watermarkNext \in Nat
  BY DEF SinkOK
<1>5. puts' \in SUBSET PutFiles
  BY <1>2, <1>3 DEF SinkOK
<1>6. dest' \in SUBSET OpenFiles
  BY <1>2, <1>3 DEF SinkOK
<1> QED BY <1>2, <1>3, <1>4, <1>5, <1>6 DEF SinkOK

\* A stored file is recorded in the ledger.
LEMMA RecordTypes ==
  ASSUME SinkOK, NEW p \in puts, puts' = puts \ {p}, CommitFile(p.name, p.data),
         phase' \in {"open", "finished"}, UNCHANGED <<nextIndex, current, dest>>
  PROVE  SinkOK' /\ watermarkNext <= watermarkNext'
<1>1. /\ committed' \in SUBSET Files /\ openRanges' \subseteq committed' /\ done' \in SUBSET Seq0
      /\ contiguousNext' \in contiguousNext .. N /\ watermarkNext' \in watermarkNext .. contiguousNext'
  BY CommitTypes
<1>2. N \in Nat /\ contiguousNext \in 0 .. N /\ watermarkNext \in 0 .. contiguousNext
  BY FileSinkAssumption DEF SinkOK
<1>3. contiguousNext' \in 0 .. N /\ watermarkNext' \in 0 .. contiguousNext' /\ watermarkNext <= watermarkNext'
  BY <1>1, <1>2
<1>4. puts' \in SUBSET PutFiles
  BY DEF SinkOK
<1> QED BY <1>1, <1>3, <1>4 DEF SinkOK

\* A number is skipped.
LEMMA SkippedTypes ==
  ASSUME SinkOK, NEW n \in Seq0, SinkSkip(n)
  PROVE  SinkOK' /\ watermarkNext <= watermarkNext'
<1>1. /\ UNCHANGED <<phase, committed, nextIndex, current, puts, dest>>
      /\ openRanges' \subseteq openRanges /\ done' \in SUBSET Seq0
      /\ contiguousNext' \in contiguousNext .. N /\ watermarkNext' \in watermarkNext .. contiguousNext'
  BY SkipTypes
<1>2. N \in Nat /\ contiguousNext \in 0 .. N /\ watermarkNext \in 0 .. contiguousNext
  BY FileSinkAssumption DEF SinkOK
<1>3. contiguousNext' \in 0 .. N /\ watermarkNext' \in 0 .. contiguousNext' /\ watermarkNext <= watermarkNext'
  BY <1>1, <1>2
<1> QED BY <1>1, <1>3 DEF SinkOK

\* checkpoint_flush and finish, up to the wait.
LEMMA RollTypes ==
  ASSUME SinkOK, \/ Flush \/ FinishRoll \/ FinishClosed(TRUE)
  PROVE  SinkOK' /\ watermarkNext <= watermarkNext'
<1>1. /\ UNCHANGED <<committed, done, contiguousNext, openRanges, watermarkNext, dest>>
      /\ current' = None /\ phase' \in {"open", "finished"}
  BY DEF Flush, FinishRoll, FinishClosed, ledgerVars, SinkOK
<1>2. puts \in SUBSET PutFiles /\ nextIndex \in Nat /\ watermarkNext \in Nat
  BY DEF SinkOK
<1>3. puts' \in SUBSET PutFiles /\ nextIndex' \in Nat
  <2>1. CASE Flush
    BY <1>2, <2>1, PutTypes DEF Flush, ledgerVars
  <2>2. CASE FinishRoll
    <3>1. [name |-> nextIndex, data |-> {}, by |-> "finish", put |-> "sent"] \in PutFiles
      BY <1>2 DEF PutFiles
    <3>2. current # None => Put("finish") \in PutFiles
      BY PutTypes
    <3>3. \/ current # None /\ puts' = puts \cup {Put("finish")} /\ nextIndex' = nextIndex
          \/ /\ puts' = puts \cup {[name |-> nextIndex, data |-> {}, by |-> "finish", put |-> "sent"]}
             /\ nextIndex' = nextIndex + 1
      BY <2>2, Zenon DEF FinishRoll
    <3> DEFINE e == [name |-> nextIndex, data |-> {}, by |-> "finish", put |-> "sent"]
               p == Put("finish")
    <3>4. e \in PutFiles /\ (current # None => p \in PutFiles)
      BY <3>1, <3>2
    <3>5. \/ current # None /\ puts' = puts \cup {p} /\ nextIndex' = nextIndex
          \/ puts' = puts \cup {e} /\ nextIndex' = nextIndex + 1
      BY <3>3, Zenon
    <3> HIDE DEF e, p
    <3> QED BY <1>2, <3>4, <3>5
  <2>3. CASE FinishClosed(TRUE)
    BY <1>2, <2>3 DEF FinishClosed, ledgerVars
  <2> QED BY <2>1, <2>2, <2>3
<1> QED BY <1>1, <1>2, <1>3 DEF SinkOK

\* The sink is left alone.
LEMMA SinkFrame ==
  ASSUME SinkOK, UNCHANGED sinkVars
  PROVE  SinkOK' /\ watermarkNext <= watermarkNext'
<1>1. watermarkNext \in Nat
  BY DEF SinkOK
<1>2. UNCHANGED <<phase, committed, nextIndex, done, contiguousNext, openRanges, watermarkNext, current, puts, dest>>
  BY DEF sinkVars, ledgerVars
<1> QED BY <1>1, <1>2 DEF SinkOK

\* Where a read ends: past its first row, and not past the end of its split.
LEMMA LeastEnd ==
  ASSUME NEW top \in Nat, NEW row \in 0 .. top, row < top, NEW size \in Nat \ {0},
         NEW E \in SUBSET (1 .. top), top \in E
  PROVE  Least({row + size} \cup {e \in E : e > row}) \in row + 1 .. top
<1> DEFINE S == {row + size} \cup {e \in E : e > row}
<1>1. \A e \in S : e \in Nat /\ e > row
  OBVIOUS
<1>2. top \in S
  OBVIOUS
<1> HIDE DEF S
<1>3. PICK n \in S : \A k \in S : n <= k
  BY <1>1, <1>2, LeastExists
<1>4. Least(S) \in S /\ \A k \in S : Least(S) <= k
  BY <1>3 DEF Least
<1>5. Least(S) \in Nat /\ Least(S) > row /\ Least(S) <= top
  BY <1>1, <1>2, <1>4
<1>6. Least(S) \in row + 1 .. top
  BY <1>5
<1> QED BY <1>6 DEF S

\* take_next_range: the next number, and the rows up to the end of the read.
LEMMA IssueFacts ==
  ASSUME PipeOK, NEW size \in Sizes, Issue(size)
  PROVE  \E i \in Item : \E end \in cursor.row + 1 .. NRows :
           /\ i.seq = cursor.seq /\ i.rows = cursor.row .. end - 1
           /\ cursor' = [row |-> end, seq |-> cursor.seq + 1] /\ cursor' \in Cursors
           /\ cursor'.seq <= cursor'.row
           /\ issued' = (issued \ WithSeq(issued, i.seq)) \cup {i}
<1> DEFINE S == {cursor.row + size} \cup {e \in SplitEnds : e > cursor.row}
           end == Least(S)
           i == [seq |-> cursor.seq, rows |-> cursor.row .. end - 1, read |-> "cursor"]
<1>1. /\ cursor.row \in 0 .. NRows /\ cursor.seq \in 0 .. N /\ cursor.seq <= cursor.row
      /\ size \in Nat \ {0} /\ NRows \in Nat /\ N = NRows
      /\ SplitEnds \subseteq 1 .. NRows /\ NRows \in SplitEnds
  BY RunResumeAssumption DEF PipeOK, Cursors
<1>2. /\ cursor.row < NRows
      /\ cursor' = [row |-> end, seq |-> cursor.seq + 1]
      /\ issued' = (issued \ WithSeq(issued, i.seq)) \cup {i}
  BY DEF Issue
<1>6. end \in cursor.row + 1 .. NRows
  BY <1>1, <1>2, LeastEnd
<1> HIDE DEF S, end
<1>7. cursor.row .. end - 1 \in SUBSET Rows
  BY <1>1, <1>6 DEF Rows
<1>8. cursor.seq \in Seq0
  BY <1>1, <1>2 DEF Seq0
<1>9. i \in Item /\ i.seq = cursor.seq /\ i.rows = cursor.row .. end - 1
  <2>1. Item = [seq : Seq0, rows : SUBSET Rows, read : {"cursor", "again"}]
    BY RunResumeAssumption
  <2> QED BY <1>7, <1>8, <2>1
<1>10. cursor' \in Cursors /\ cursor'.seq <= cursor'.row
  BY <1>1, <1>2, <1>6 DEF Cursors
<1> QED BY <1>2, <1>6, <1>9, <1>10

\* An entry joins a queue or leaves it.
LEMMA QueueFacts ==
  ASSUME PipeOK, NEW s \in 0 .. 1, NEW S \in SUBSET Item, q' = [q EXCEPT ![s] = S]
  PROVE  /\ q' \in [0 .. 1 -> SUBSET Item] /\ q'[s] = S
         /\ \A t \in 0 .. 1 : t # s => q'[t] = q[t]
BY DEF PipeOK

\* push_into, up to the entry in the queue.
LEMMA EnterFacts ==
  ASSUME PipeOK, NEW i \in Item, NEW s \in 0 .. 1, Enter(i, s)
  PROVE  /\ q' \in [0 .. 1 -> SUBSET Item] /\ pushing' \in SUBSET Pushes /\ ended' \in BOOLEAN
         /\ \/ OnQueue(i, s) /\ ended' = TRUE /\ UNCHANGED <<q, pushing>>
            \/ /\ ~OnQueue(i, s) /\ UNCHANGED ended
               /\ pushing' = pushing \cup {[item |-> i, stage |-> s]}
               /\ q'[s] = q[s] \cup {i} /\ \A t \in 0 .. 1 : t # s => q'[t] = q[t]
<1>1. CASE OnQueue(i, s)
  <2>1. ended' = TRUE /\ UNCHANGED <<q, pushing>>
    BY <1>1, Zenon DEF Enter
  <2> QED BY <1>1, <2>1 DEF PipeOK
<1>2. CASE ~OnQueue(i, s)
  <2>1. /\ q' = [q EXCEPT ![s] = @ \cup {i}]
        /\ pushing' = pushing \cup {[item |-> i, stage |-> s]}
        /\ UNCHANGED ended
    BY <1>2, Zenon DEF Enter
  <2>2. q[s] \cup {i} \in SUBSET Item
    BY DEF PipeOK
  <2>3. q' \in [0 .. 1 -> SUBSET Item] /\ q'[s] = q[s] \cup {i} /\ \A t \in 0 .. 1 : t # s => q'[t] = q[t]
    BY <2>1, <2>2, QueueFacts
  <2>4. pushing' \in SUBSET Pushes /\ ended' \in BOOLEAN
    BY <2>1 DEF PipeOK, Pushes
  <2> QED BY <1>2, <2>1, <2>3, <2>4
<1> QED BY <1>1, <1>2

\* lineage_push: one record for the number, which stays the one it was.
LEMMA PushFacts ==
  ASSUME IndexOK, NEW i \in Item, NEW s \in 0 .. 1, LineagePush(i, s)
  PROVE  \E x \in Records :
           /\ lineage' = {r \in lineage : r.item.seq # i.seq} \cup {x}
           /\ x.item.seq = i.seq /\ x.at # {}
           /\ \/ x.item = i /\ x.committed = FALSE
              \/ \E r \in lineage : r.item.seq = i.seq /\ x.item = r.item /\ x.committed = r.committed
<1> DEFINE old == IF HasRecord(i) THEN RecordOf(i) ELSE [item |-> i, at |-> {}, committed |-> FALSE]
           x == [old EXCEPT !.at = (@ \ {s - 1}) \cup {s}]
<1>1. lineage' = {r \in lineage : r.item.seq # i.seq} \cup {x}
  BY DEF LineagePush
<1>2. /\ old \in Records /\ old.item.seq = i.seq
      /\ \/ old.item = i /\ old.committed = FALSE
         \/ old \in lineage
  <2>1. CASE HasRecord(i)
    <3>1. old = RecordOf(i)
      BY <2>1
    <3>2. RecordOf(i) \in lineage /\ RecordOf(i).item.seq = i.seq
      BY <2>1 DEF HasRecord, RecordOf
    <3>3. RecordOf(i) \in Records
      BY <3>2 DEF IndexOK
    <3> QED BY <3>1, <3>2, <3>3, Zenon
  <2>2. CASE ~HasRecord(i)
    <3>1. old = [item |-> i, at |-> {}, committed |-> FALSE]
      BY <2>2
    <3>2. [item |-> i, at |-> {}, committed |-> FALSE] \in Records
      BY DEF Records
    <3> QED BY <3>1, <3>2
  <2> QED BY <2>1, <2>2
<1> HIDE DEF old
<1>3. x \in Records /\ x.item = old.item /\ x.at # {} /\ x.committed = old.committed
  BY <1>2 DEF Records
<1> HIDE DEF x
<1> QED BY <1>1, <1>2, <1>3

\* lineage_push keeps one record per number.
LEMMA PushOne ==
  ASSUME IndexOK, NEW i \in Item, NEW s \in 0 .. 1, LineagePush(i, s)
  PROVE  lineage' \in SUBSET Records /\ OneEach(lineage')
<1>1. PICK x \in Records : /\ lineage' = {r \in lineage : r.item.seq # i.seq} \cup {x}
                           /\ x.item.seq = i.seq
  BY PushFacts
<1>2. lineage \in SUBSET Records /\ OneEach(lineage)
  BY DEF IndexOK
<1> QED BY <1>1, <1>2 DEF OneEach

\* commit_to: the records stay, some of them marked.
LEMMA CommitFacts ==
  ASSUME IndexOK, NEW w \in -1 .. N - 1, LineageCommit(w)
  PROVE  /\ lineage' \in SUBSET Records /\ OneEach(lineage')
         /\ \A x \in lineage' : \E r \in lineage :
              x.item = r.item /\ x.at = r.at /\ (x.committed => r.committed \/ r.item.seq <= w)
         /\ \A r \in lineage : \E x \in lineage' : x.item = r.item
<1> DEFINE M(r) == IF r.item.seq <= w THEN [r EXCEPT !.committed = TRUE] ELSE r
<1>1. lineage' = {M(r) : r \in lineage}
  BY DEF LineageCommit
<1>2. ASSUME NEW r \in lineage
      PROVE  /\ M(r) \in Records /\ M(r).item = r.item /\ M(r).at = r.at
             /\ M(r).committed => r.committed \/ r.item.seq <= w
  <2>1. r \in Records
    BY DEF IndexOK
  <2> QED BY <2>1 DEF Records
<1> HIDE DEF M
<1>3. lineage' \in SUBSET Records
  BY <1>1, <1>2
<1>4. OneEach(lineage')
  <2>1. \A r, s \in lineage : r.item.seq = s.item.seq => r = s
    BY DEF IndexOK, OneEach
  <2> QED BY <1>1, <1>2, <2>1 DEF OneEach
<1> QED BY <1>1, <1>2, <1>3, <1>4

\* What a step leaves alone keeps its type.
LEMMA PipeFrame ==
  ASSUME PipeOK, UNCHANGED <<sourceVars, q, work, pushing, dropped, ended>>
  PROVE  PipeOK'
<1>1. UNCHANGED <<cursor, issued, again, landed, q, work, pushing, dropped, ended>>
  BY DEF sourceVars
<1> QED BY <1>1 DEF PipeOK, One

\* The lineage and the marks are left alone while the watermark rises.
LEMMA IndexFrame ==
  ASSUME IndexOK, UNCHANGED <<lineage, markVars>>, watermarkNext \in Nat, watermarkNext' \in Nat,
         watermarkNext <= watermarkNext'
  PROVE  IndexOK'
<1>1. UNCHANGED <<lineage, reached, engine>>
  BY DEF markVars
<1>2. reached \in Int
  BY FileSinkAssumption DEF IndexOK
<1>3. reached < watermarkNext'
  BY <1>2 DEF IndexOK
<1> QED BY <1>1, <1>3 DEF IndexOK, OneEach

\* The checkpoint is left alone.
LEMMA CkptFrame ==
  ASSUME CkptOK, UNCHANGED <<ckpt, extras, manifests>>
  PROVE  CkptOK'
BY DEF CkptOK, One, HasDoc, HasCursor

\* The manifest and the life of the run are left alone.
LEMMA LifeFrame ==
  ASSUME LifeOK, UNCHANGED <<floor, resumes, sound, manifest>>
  PROVE  LifeOK'
BY DEF LifeOK, One, OneEach

\* The two stages a morsel may wait before.
LEMMA Stages == 0 \in 0 .. 1 /\ 1 \in 0 .. 1 /\ 0 # 1
OBVIOUS

\* The ledger's numbers.
LEMMA MarkNat == SinkOK => watermarkNext \in Nat /\ contiguousNext \in Nat /\ nextIndex \in Nat
BY DEF SinkOK

\* A step of the pipeline keeps the types of what it does not touch.
LEMMA TypeRest ==
  ASSUME TypeInv, SinkOK', watermarkNext <= watermarkNext', PipeOK', UNCHANGED <<lineage, markVars, ckptVars>>,
         UNCHANGED <<floor, resumes, sound>>
  PROVE  TypeInv'
<1>1. SinkOK /\ IndexOK /\ CkptOK /\ LifeOK
  BY DEF TypeInv
<1>2. watermarkNext \in Nat /\ watermarkNext' \in Nat
  BY <1>1 DEF SinkOK
<1>3. UNCHANGED <<ckpt, extras, manifest, manifests>>
  BY DEF ckptVars
<1> QED BY <1>1, <1>2, <1>3, IndexFrame, CkptFrame, LifeFrame DEF TypeInv

\* The source drive issues a read.
LEMMA IssueType ==
  ASSUME TypeInv, NEW size \in Sizes, Issue(size)
  PROVE  TypeInv'
<1>1. PipeOK /\ SinkOK
  BY DEF TypeInv
<1>2. PICK i \in Item : /\ cursor' \in Cursors /\ cursor'.seq <= cursor'.row
                        /\ issued' = (issued \ WithSeq(issued, i.seq)) \cup {i}
  BY <1>1, IssueFacts
<1>3. landed = {} /\ again = {} /\ UNCHANGED <<again, landed, q, work, pushing, dropped, ended>>
  BY DEF Issue, lifeVars
<1>4. issued' \in SUBSET Item /\ One(issued')
  BY <1>1, <1>2 DEF PipeOK, One, WithSeq
<1>5. PipeOK'
  BY <1>1, <1>2, <1>3, <1>4 DEF PipeOK
<1>6. SinkOK' /\ watermarkNext <= watermarkNext'
  BY <1>1, SinkFrame DEF Issue
<1> QED BY <1>5, <1>6, TypeRest DEF Issue, lifeVars

\* A read is done and its morsel enters the first queue.
LEMMA PushReadType ==
  ASSUME TypeInv, NEW i \in issued, PushRead(i)
  PROVE  TypeInv'
<1>1. PipeOK /\ SinkOK /\ i \in Item
  BY DEF TypeInv, PipeOK
<1>2. /\ Enter(i, 0) /\ landed' = (IF ended' THEN {} ELSE {i}) /\ again' = again \ landed'
      /\ UNCHANGED <<cursor, issued, work, dropped>>
  BY DEF PushRead
<1>3. q' \in [0 .. 1 -> SUBSET Item] /\ pushing' \in SUBSET Pushes /\ ended' \in BOOLEAN
  BY <1>1, <1>2, Stages, EnterFacts, Zenon
<1>4. again' \subseteq issued' /\ landed' \subseteq issued' /\ landed' \cap again' = {}
  BY <1>1, <1>2 DEF PipeOK
<1>5. PipeOK'
  BY <1>1, <1>2, <1>3, <1>4 DEF PipeOK, One
<1>6. SinkOK' /\ watermarkNext <= watermarkNext'
  BY <1>1, SinkFrame DEF PushRead
<1> QED BY <1>5, <1>6, TypeRest DEF PushRead

\* lineage_push of a morsel that was pushed.
LEMMA RecordType ==
  ASSUME TypeInv, NEW p \in pushing, Record(p)
  PROVE  TypeInv'
<1>1. /\ PipeOK /\ SinkOK /\ IndexOK /\ CkptOK /\ LifeOK
      /\ p.item \in Item /\ p.stage \in 0 .. 1
  BY DEF TypeInv, PipeOK, Pushes
<1>2. /\ pushing' = pushing \ {p} /\ LineagePush(p.item, p.stage)
      /\ UNCHANGED <<sinkVars, cursor, issued, again, landed, q, work, dropped, reached, engine>>
      /\ UNCHANGED <<ckpt, extras, manifest, manifests, floor, ended, resumes, sound>>
  BY DEF Record, sourceVars, markVars, ckptVars, lifeVars
<1>3. PipeOK'
  BY <1>1, <1>2 DEF PipeOK, One
<1>4. SinkOK' /\ watermarkNext' = watermarkNext
  BY <1>1, <1>2, SinkFrame DEF sinkVars, ledgerVars
<1>5. lineage' \in SUBSET Records /\ OneEach(lineage')
  BY <1>1, <1>2, PushOne
<1>6. IndexOK'
  BY <1>1, <1>2, <1>4, <1>5 DEF IndexOK
<1> QED BY <1>1, <1>2, <1>3, <1>4, <1>6, CkptFrame, LifeFrame DEF TypeInv

\* The source drive forgets a read that the lineage has.
LEMMA ForgetType ==
  ASSUME TypeInv, NEW i \in landed, Forget(i)
  PROVE  TypeInv'
<1>1. PipeOK /\ SinkOK
  BY DEF TypeInv
<1>2. /\ landed' = landed \ {i} /\ issued' = issued \ WithSeq(issued, i.seq)
      /\ UNCHANGED <<cursor, again, q, work, pushing, dropped, ended>>
  BY DEF Forget, lifeVars
<1>3. \A j \in WithSeq(issued, i.seq) : j = i
  BY <1>1 DEF PipeOK, One, WithSeq
<1>4. /\ issued' \in SUBSET Item /\ One(issued')
      /\ again' \subseteq issued' /\ landed' \subseteq issued' /\ landed' \cap again' = {}
  BY <1>1, <1>2, <1>3 DEF PipeOK, One
<1>5. PipeOK'
  BY <1>1, <1>2, <1>4 DEF PipeOK
<1>6. SinkOK' /\ watermarkNext <= watermarkNext'
  BY <1>1, SinkFrame DEF Forget
<1> QED BY <1>5, <1>6, TypeRest DEF Forget, lifeVars

\* A worker pops a morsel.
LEMMA TakeWorkType ==
  ASSUME TypeInv, NEW i \in q[0], TakeWork(i)
  PROVE  TypeInv'
<1>1. PipeOK /\ SinkOK /\ q[0] \in SUBSET Item
  BY DEF TypeInv, PipeOK
<1>2. /\ q' = [q EXCEPT ![0] = q[0] \ {i}] /\ work' = work \cup {i}
      /\ UNCHANGED <<cursor, issued, again, landed, pushing, dropped, ended>>
  BY DEF TakeWork, lifeVars, sourceVars
<1>3. q' \in [0 .. 1 -> SUBSET Item]
  BY <1>1, <1>2 DEF PipeOK
<1>4. PipeOK'
  BY <1>1, <1>2, <1>3 DEF PipeOK, One
<1>5. SinkOK' /\ watermarkNext <= watermarkNext'
  BY <1>1, SinkFrame DEF TakeWork
<1> QED BY <1>4, <1>5, TypeRest DEF TakeWork, lifeVars

\* The kernel is done with a morsel.
LEMMA ApplyType ==
  ASSUME TypeInv, NEW i \in work, Apply(i)
  PROVE  TypeInv'
<1>1. PipeOK /\ SinkOK /\ i \in Item
  BY DEF TypeInv, PipeOK
<1>2. /\ work' = work \ {i} /\ Enter(i, 1)
      /\ UNCHANGED <<cursor, issued, again, landed, dropped>>
  BY DEF Apply, sourceVars
<1>3. q' \in [0 .. 1 -> SUBSET Item] /\ pushing' \in SUBSET Pushes /\ ended' \in BOOLEAN
  BY <1>1, <1>2, Stages, EnterFacts, Zenon
<1>4. PipeOK'
  BY <1>1, <1>2, <1>3 DEF PipeOK, One
<1>5. SinkOK' /\ watermarkNext <= watermarkNext'
  BY <1>1, SinkFrame DEF Apply
<1> QED BY <1>4, <1>5, TypeRest DEF Apply

\* The kernel fails on a morsel, which is skipped.
LEMMA ApplyFailsType ==
  ASSUME TypeInv, NEW i \in work, ApplyFails(i)
  PROVE  TypeInv'
<1>1. PipeOK /\ SinkOK /\ i \in Item
  BY DEF TypeInv, PipeOK
<1>2. /\ work' = work \ {i} /\ dropped' = dropped \cup {i} /\ SinkSkip(i.seq)
      /\ UNCHANGED <<cursor, issued, again, landed, q, pushing, ended>>
  BY DEF ApplyFails, sourceVars, lifeVars
<1>3. PipeOK'
  BY <1>1, <1>2 DEF PipeOK, One
<1>4. i.seq \in Seq0
  BY <1>1, ItemFacts
<1>5. SinkOK' /\ watermarkNext <= watermarkNext'
  BY <1>1, <1>2, <1>4, SkippedTypes
<1> QED BY <1>3, <1>5, TypeRest DEF ApplyFails, lifeVars

\* The sink drive writes a morsel.
LEMMA WriteMorselType ==
  ASSUME TypeInv, NEW i \in q[1], NEW roll \in BOOLEAN, WriteMorsel(i, roll)
  PROVE  TypeInv'
<1>1. PipeOK /\ SinkOK /\ q[1] \in SUBSET Item /\ i \in Item
  BY DEF TypeInv, PipeOK
<1>2. /\ q' = [q EXCEPT ![1] = q[1] \ {i}]
      /\ UNCHANGED sinkVars \/ Encode(i, roll)
      /\ UNCHANGED <<cursor, issued, again, landed, work, pushing, dropped, ended>>
  BY Zenon DEF WriteMorsel, lifeVars, sourceVars
<1>3. q' \in [0 .. 1 -> SUBSET Item]
  BY <1>1, <1>2 DEF PipeOK
<1>4. PipeOK'
  BY <1>1, <1>2, <1>3 DEF PipeOK, One
<1>5. SinkOK' /\ watermarkNext <= watermarkNext'
  BY <1>1, <1>2, SinkFrame, EncodeTypes
<1> QED BY <1>4, <1>5, TypeRest DEF WriteMorsel, lifeVars

\* A put lands or is recorded, and the sink finishes.
LEMMA SinkStepType ==
  ASSUME TypeInv, RollSettles \/ FinishSink
  PROVE  TypeInv'
<1>1. PipeOK /\ SinkOK
  BY DEF TypeInv
<1>2. /\ UNCHANGED <<sourceVars, q, work, pushing, lineage, dropped, markVars, ckptVars>>
      /\ UNCHANGED <<floor, ended, resumes, sound>>
  BY Zenon DEF RollSettles, FinishSink, lifeVars
<1>3. SinkOK' /\ watermarkNext <= watermarkNext'
  <2>1. ASSUME NEW p \in puts, PutLands(p) PROVE SinkOK' /\ watermarkNext <= watermarkNext'
    BY <1>1, <2>1, LandsTypes
  <2>2. ASSUME NEW p \in puts, Commit(p) PROVE SinkOK' /\ watermarkNext <= watermarkNext'
    <3>1. phase' \in {"open", "finished"}
      BY <1>1, <2>2 DEF Commit, SinkOK
    <3> QED BY <1>1, <2>2, <3>1, RecordTypes DEF Commit
  <2>3. ASSUME NEW p \in puts, FinishCommit(p, TRUE) PROVE SinkOK' /\ watermarkNext <= watermarkNext'
    <3>1. phase' \in {"open", "finished"}
      BY <2>3 DEF FinishCommit
    <3> QED BY <1>1, <2>3, <3>1, RecordTypes DEF FinishCommit
  <2>4. CASE FinishRoll \/ FinishClosed(TRUE)
    BY <1>1, <2>4, RollTypes
  <2> QED BY <2>1, <2>2, <2>3, <2>4, Zenon DEF RollSettles, FinishSink
<1>4. PipeOK'
  BY <1>1, <1>2, PipeFrame
<1> QED BY <1>2, <1>3, <1>4, TypeRest

\* Nothing happens.
LEMMA StutterType ==
  ASSUME TypeInv, UNCHANGED rrVars
  PROVE  TypeInv'
<1>1. PipeOK /\ SinkOK
  BY DEF TypeInv
<1>2. /\ UNCHANGED <<sourceVars, q, work, pushing, lineage, dropped, markVars, ckptVars>>
      /\ UNCHANGED <<floor, ended, resumes, sound>> /\ UNCHANGED sinkVars
  BY DEF rrVars, lifeVars
<1>3. SinkOK' /\ watermarkNext <= watermarkNext'
  BY <1>1, <1>2, SinkFrame
<1> QED BY <1>1, <1>2, <1>3, PipeFrame, TypeRest

\* publish and update_watermark.
LEMMA MarkType ==
  ASSUME TypeInv, Claim \/ SetCommitted \/ UpdateWatermark
  PROVE  TypeInv'
<1>1. PipeOK /\ SinkOK /\ IndexOK /\ CkptOK /\ LifeOK
  BY DEF TypeInv
<1>2. /\ N \in Nat /\ watermarkNext \in 0 .. N /\ reached \in -1 .. N - 1 /\ engine \in -1 .. N - 1
      /\ engine <= reached /\ reached < watermarkNext /\ CommittedSeq = watermarkNext - 1
  BY <1>1, FileSinkAssumption DEF SinkOK, IndexOK, CommittedSeq
<1>3. /\ UNCHANGED <<sinkVars, sourceVars, q, work, pushing, dropped, extras, manifest, manifests>>
      /\ UNCHANGED <<floor, ended, resumes, sound>>
  BY DEF Claim, SetCommitted, UpdateWatermark, CkptStep, ckptVars, lifeVars
<1>4. SinkOK' /\ watermarkNext' = watermarkNext
  BY <1>1, <1>3, SinkFrame DEF sinkVars, ledgerVars
<1>5. /\ reached' \in -1 .. N - 1 /\ engine' \in -1 .. N - 1 /\ engine' <= reached' /\ reached' < watermarkNext
  <2>1. CASE Claim
    BY <1>2, <2>1 DEF Claim
  <2>2. CASE SetCommitted
    BY <1>2, <2>2 DEF SetCommitted
  <2>3. CASE UpdateWatermark
    BY <1>2, <2>3 DEF UpdateWatermark, Max2
  <2> QED BY <2>1, <2>2, <2>3
<1>6. lineage' \in SUBSET Records /\ OneEach(lineage')
  <2>1. CASE lineage' = lineage
    BY <1>1, <2>1 DEF IndexOK
  <2>2. CASE LineageCommit(reached')
    BY <1>1, <1>5, <2>2, CommitFacts
  <2>3. SetCommitted => LineageCommit(reached')
    BY DEF SetCommitted
  <2> QED BY <2>1, <2>2, <2>3 DEF Claim, UpdateWatermark
<1>7. IndexOK'
  BY <1>4, <1>5, <1>6 DEF IndexOK
<1>8. CkptOK'
  <2>1. CASE ckpt' = ckpt
    BY <1>1, <1>3, <2>1, CkptFrame
  <2>2. CASE UpdateWatermark
    BY <1>1, <1>3, <2>2 DEF UpdateWatermark, CkptStep, CkptOK, HasDoc, HasCursor, One
  <2> QED BY <2>1, <2>2 DEF Claim, SetCommitted, ckptVars
<1>9. PipeOK' /\ LifeOK'
  BY <1>1, <1>3, PipeFrame, LifeFrame
<1> QED BY <1>4, <1>7, <1>8, <1>9 DEF TypeInv

\* What checkpoint_now gathers.
LEMMA GatherType ==
  ASSUME TypeInv, \/ \E portable \in Portable : StartCheckpoint(portable)
                  \/ ReadReached \/ ReadSinkState \/ ReadCursor
  PROVE  TypeInv'
<1>1. PipeOK /\ SinkOK /\ IndexOK /\ CkptOK /\ LifeOK
  BY DEF TypeInv
<1>2. /\ UNCHANGED <<sinkVars, sourceVars, q, work, pushing, dropped, lineage, markVars, manifest>>
      /\ UNCHANGED <<floor, ended, resumes, sound>>
  BY DEF StartCheckpoint, ReadReached, ReadSinkState, ReadCursor, CkptStep, lifeVars
<1>3. SinkOK' /\ watermarkNext <= watermarkNext' /\ watermarkNext \in Nat /\ watermarkNext' \in Nat
  BY <1>1, <1>2, SinkFrame, MarkNat DEF sinkVars, ledgerVars
<1>4. CkptOK'
  <2>1. ASSUME NEW portable \in Portable, StartCheckpoint(portable) PROVE CkptOK'
    <3>1. extras' = Gathering(portable) /\ ckpt' \in {"flush", "watermark"}
          /\ manifests' = manifests + 1 /\ manifests < MaxManifests
      BY <2>1 DEF StartCheckpoint, CkptStep
    <3>2. portable \in BOOLEAN /\ MaxManifests \in Nat /\ -1 \in -1 .. N - 1
      BY RunResumeAssumption
    <3>3. Gathering(portable) \in Gathered /\ Gathering(portable).issued = {}
      BY <3>2 DEF Gathering, Gathered
    <3>4. Gathering(portable) # None
      BY DEF Gathering, None
    <3>5. manifests' \in 0 .. MaxManifests
      BY <1>1, <3>1, <3>2 DEF CkptOK
    <3> QED BY <3>1, <3>3, <3>4, <3>5 DEF CkptOK, One, HasDoc, HasCursor
  <2>2. ASSUME ckpt # "idle" PROVE extras \in Gathered /\ One(extras.issued)
    BY <1>1, <2>2 DEF CkptOK
  <2>3. CASE ReadReached
    <3>1. /\ ckpt = "watermark" /\ ckpt' = "state" /\ manifests' = manifests
          /\ extras' = [extras EXCEPT !.committed = reached]
      BY <2>3 DEF ReadReached, CkptStep
    <3>2. extras \in Gathered /\ One(extras.issued) /\ reached \in -1 .. N - 1
      BY <1>1, <2>2, <3>1 DEF IndexOK
    <3>3. extras' \in Gathered /\ extras'.issued = extras.issued
      BY <3>1, <3>2 DEF Gathered
    <3>4. extras' # None
      BY <3>3 DEF Gathered, None
    <3> QED BY <1>1, <3>1, <3>2, <3>3, <3>4 DEF CkptOK, HasDoc, HasCursor
  <2>4. CASE ReadSinkState
    <3>1. /\ ckpt = "state" /\ ckpt' = "cursor" /\ manifests' = manifests
          /\ extras' = [extras EXCEPT !.doc = Document]
      BY <2>4 DEF ReadSinkState, CkptStep
    <3>2. Document \in Documents
      BY <1>1 DEF SinkOK, Document, Documents
    <3>3. extras \in Gathered /\ One(extras.issued)
      BY <2>2, <3>1
    <3>4. extras' \in Gathered /\ extras'.issued = extras.issued /\ extras'.doc = Document
      BY <3>1, <3>2, <3>3 DEF Gathered
    <3>5. extras' # None
      BY <3>4 DEF Gathered, None
    <3> QED BY <1>1, <3>1, <3>2, <3>3, <3>4, <3>5 DEF CkptOK, HasDoc, HasCursor
  <2>5. CASE ReadCursor
    <3>1. /\ ckpt = "cursor" /\ ckpt' = "manifest" /\ manifests' = manifests
          /\ extras' = [extras EXCEPT !.cursor = cursor, !.issued = issued]
      BY <2>5 DEF ReadCursor, CkptStep
    <3>2. cursor \in Cursors /\ cursor.seq <= cursor.row /\ issued \in SUBSET Item /\ One(issued)
      BY <1>1 DEF PipeOK
    <3>3. extras \in Gathered /\ extras.doc \in Documents
      BY <1>1, <2>2, <3>1 DEF CkptOK, HasDoc
    <3>4. extras' \in Gathered /\ extras'.issued = issued /\ extras'.doc = extras.doc /\ extras'.cursor = cursor
      BY <3>1, <3>2, <3>3 DEF Gathered
    <3>5. extras' # None
      BY <3>4 DEF Gathered, None
    <3> QED BY <1>1, <3>1, <3>2, <3>3, <3>4, <3>5 DEF CkptOK, HasDoc, HasCursor
  <2> QED BY <2>1, <2>3, <2>4, <2>5
<1>5. PipeOK' /\ LifeOK' /\ IndexOK'
  BY <1>1, <1>2, <1>3, PipeFrame, LifeFrame, IndexFrame
<1> QED BY <1>3, <1>4, <1>5 DEF TypeInv

\* The checkpoint flushes the sink.
LEMMA FlushType ==
  ASSUME TypeInv, FlushSink
  PROVE  TypeInv'
<1>1. PipeOK /\ SinkOK /\ IndexOK /\ CkptOK /\ LifeOK
  BY DEF TypeInv
<1>2. /\ UNCHANGED <<sourceVars, q, work, pushing, dropped, lineage, markVars, extras, manifest, manifests>>
      /\ UNCHANGED <<floor, ended, resumes, sound>> /\ ckpt = "flush" /\ ckpt' = "flushed"
      /\ (Flush \/ UNCHANGED sinkVars)
  BY DEF FlushSink, CkptStep, lifeVars
<1>3. SinkOK' /\ watermarkNext <= watermarkNext'
  BY <1>1, <1>2, RollTypes, SinkFrame
<1>4. watermarkNext \in Nat /\ watermarkNext' \in Nat
  BY <1>1, <1>3 DEF SinkOK
<1>5. CkptOK'
  BY <1>1, <1>2 DEF CkptOK, One, HasDoc, HasCursor
<1> QED BY <1>1, <1>2, <1>3, <1>4, <1>5, PipeFrame, LifeFrame, IndexFrame DEF TypeInv

\* The watermark write_manifest goes by.
Mark == IF extras.committed = -1 THEN engine ELSE extras.committed

\* write_manifest: a row for every record above the watermark.
LEMMA ManifestFacts ==
  ASSUME TypeInv, WriteManifest
  PROVE  /\ manifest' \in Manifests /\ manifest' # None
         /\ manifest'.portable = extras.portable
         /\ manifest'.fellBack = (Mark # extras.committed) /\ manifest'.committed = Mark
         /\ manifest'.doc = extras.doc /\ manifest'.cursor = extras.cursor
         /\ manifest'.issued = {i \in extras.issued : i.seq > Mark}
         /\ OneEach(manifest'.rows)
         /\ \A x \in manifest'.rows : \E r \in lineage :
              /\ r.item.seq > Mark /\ x.item = r.item /\ x.at = r.at
              /\ x.disk => \A s \in r.at : OnQueue(r.item, s)
         /\ \A r \in lineage : r.item.seq > Mark => \E x \in manifest'.rows : x.item = r.item
<1> DEFINE w == Mark
           above == {r \in lineage : r.item.seq > w}
<1>1. /\ ckpt = "manifest" /\ IndexOK /\ CkptOK
  BY DEF TypeInv, WriteManifest, CkptStep
<1>2. /\ extras \in Gathered /\ extras.doc \in Documents /\ extras.cursor \in Cursors
      /\ lineage \in SUBSET Records /\ OneEach(lineage) /\ engine \in -1 .. N - 1
  BY <1>1 DEF CkptOK, IndexOK, HasDoc, HasCursor
<1>3. /\ extras.portable \in BOOLEAN /\ extras.committed \in -1 .. N - 1 /\ extras.issued \in SUBSET Item
      /\ w \in -1 .. N - 1
  BY <1>2 DEF Gathered, Mark
<1>4. PICK onDisk \in SUBSET {r \in above : \A s \in r.at : OnQueue(r.item, s)} :
        manifest' = [portable |-> extras.portable,
                     fellBack |-> w # extras.committed,
                     committed |-> w,
                     doc |-> extras.doc,
                     cursor |-> extras.cursor,
                     issued |-> {i \in extras.issued : i.seq > w},
                     rows |-> {[item |-> r.item, at |-> r.at, disk |-> r \in onDisk] : r \in above}]
  BY Zenon DEF WriteManifest, Mark
<1> HIDE DEF w
<1> DEFINE Row(r) == [item |-> r.item, at |-> r.at, disk |-> r \in onDisk]
<1>5. ASSUME NEW r \in above
      PROVE  /\ Row(r) \in ManifestRows /\ Row(r).item = r.item /\ Row(r).at = r.at
             /\ Row(r).disk => \A s \in r.at : OnQueue(r.item, s)
  <2>1. r \in Records
    BY <1>2
  <2>2. Row(r) \in ManifestRows /\ Row(r).item = r.item /\ Row(r).at = r.at /\ Row(r).disk = (r \in onDisk)
    BY <2>1 DEF Records, ManifestRows
  <2>3. r \in onDisk => \A s \in r.at : OnQueue(r.item, s)
    OBVIOUS
  <2> QED BY <2>2, <2>3
<1> DEFINE rows == {Row(r) : r \in above}
           issuedAbove == {i \in extras.issued : i.seq > w}
<1>6. manifest' = [portable |-> extras.portable, fellBack |-> w # extras.committed, committed |-> w,
                   doc |-> extras.doc, cursor |-> extras.cursor, issued |-> issuedAbove, rows |-> rows]
  BY <1>4
<1> HIDE DEF Row
<1>7. /\ rows \in SUBSET ManifestRows
      /\ \A x \in rows : \E r \in lineage :
           /\ r.item.seq > w /\ x.item = r.item /\ x.at = r.at
           /\ x.disk => \A s \in r.at : OnQueue(r.item, s)
      /\ \A r \in lineage : r.item.seq > w => \E x \in rows : x.item = r.item
  BY <1>5
<1>8. OneEach(rows)
  <2>1. \A r, s \in lineage : r.item.seq = s.item.seq => r = s
    BY <1>2 DEF OneEach
  <2> QED BY <1>5, <2>1 DEF OneEach
<1>9. issuedAbove \in SUBSET Item
  BY <1>3
<1> HIDE DEF rows, issuedAbove
<1>10. manifest' \in Manifests
  BY <1>2, <1>3, <1>6, <1>7, <1>9 DEF Manifests
<1>11. manifest' # None
  BY <1>6 DEF None
<1>12. /\ manifest'.portable = extras.portable /\ manifest'.fellBack = (w # extras.committed)
       /\ manifest'.committed = w /\ manifest'.doc = extras.doc /\ manifest'.cursor = extras.cursor
       /\ manifest'.issued = issuedAbove /\ manifest'.rows = rows
  BY <1>6
<1> QED BY <1>7, <1>8, <1>10, <1>11, <1>12 DEF w, issuedAbove

\* The checkpoint writes its manifest.
LEMMA WriteManifestType ==
  ASSUME TypeInv, WriteManifest
  PROVE  TypeInv'
<1>1. PipeOK /\ SinkOK /\ IndexOK /\ CkptOK /\ LifeOK
  BY DEF TypeInv
<1>2. /\ UNCHANGED <<sourceVars, q, work, pushing, dropped, sinkVars, markVars, manifests>>
      /\ UNCHANGED <<floor, ended, resumes, sound>> /\ ckpt = "manifest" /\ ckpt' = "idle" /\ extras' = None
      /\ lineage' \subseteq lineage
  BY DEF WriteManifest, CkptStep, lifeVars
<1>3. SinkOK' /\ watermarkNext' = watermarkNext
  BY <1>1, <1>2, SinkFrame DEF sinkVars, ledgerVars
<1>4. IndexOK'
  BY <1>1, <1>2, <1>3 DEF IndexOK, OneEach, markVars
<1>5. CkptOK'
  BY <1>1, <1>2 DEF CkptOK, HasDoc, HasCursor
<1>6. /\ manifest' \in Manifests /\ manifest'.cursor = extras.cursor
      /\ manifest'.issued \subseteq extras.issued /\ OneEach(manifest'.rows)
  BY ManifestFacts
<1>7. extras.cursor.seq <= extras.cursor.row /\ One(extras.issued)
  BY <1>1, <1>2 DEF CkptOK, HasCursor
<1>8. One(manifest'.issued)
  BY <1>6, <1>7 DEF One
<1>9. LifeOK'
  BY <1>1, <1>2, <1>6, <1>7, <1>8 DEF LifeOK
<1> QED BY <1>1, <1>2, <1>3, <1>4, <1>5, <1>9, PipeFrame DEF TypeInv

\* The manifest cannot be written.
LEMMA ManifestFailsType ==
  ASSUME TypeInv, ManifestFails
  PROVE  TypeInv'
<1>1. PipeOK /\ SinkOK /\ IndexOK /\ CkptOK /\ LifeOK
  BY DEF TypeInv
<1>2. /\ UNCHANGED <<sourceVars, q, work, pushing, dropped, sinkVars, markVars, manifest, manifests>>
      /\ UNCHANGED <<floor, ended, resumes, sound>> /\ ckpt = "manifest" /\ ckpt' = "idle" /\ extras' = None
      /\ lineage' \subseteq lineage
  BY DEF ManifestFails, CkptStep, lifeVars
<1>3. SinkOK' /\ watermarkNext' = watermarkNext
  BY <1>1, <1>2, SinkFrame DEF sinkVars, ledgerVars
<1>4. IndexOK'
  BY <1>1, <1>2, <1>3 DEF IndexOK, OneEach, markVars
<1>5. CkptOK'
  BY <1>1, <1>2 DEF CkptOK, HasDoc, HasCursor
<1> QED BY <1>1, <1>2, <1>3, <1>4, <1>5, PipeFrame, LifeFrame DEF TypeInv

\* restore_from: what a resume reads again, one read for a number.
LEMMA RecomputeFacts ==
  ASSUME NEW m \in Manifests, One(m.issued), OneEach(m.rows)
  PROVE  /\ Recompute(m) \in SUBSET Item /\ One(Recompute(m))
         /\ Restored(m) \in SUBSET ManifestRows /\ OneEach(Restored(m))
         /\ \A x \in Restored(m) : \A i \in Recompute(m) : i.seq # x.item.seq
<1>1. m.rows \in SUBSET ManifestRows /\ m.issued \in SUBSET Item
  BY DEF Manifests
<1>2. \A x \in m.rows : x.item \in Item
  BY <1>1 DEF ManifestRows
<1>3. Restored(m) \subseteq m.rows
  BY DEF Restored
<1>4. \A i \in Recompute(m) : \/ \E x \in m.rows \ Restored(m) : i = x.item
                              \/ i \in m.issued /\ \A x \in m.rows : x.item.seq # i.seq
  BY DEF Recompute
<1>5. \A x, y \in m.rows : x.item.seq = y.item.seq => x = y
  BY DEF OneEach
<1>6. \A i, j \in m.issued : i.seq = j.seq => i = j
  BY DEF One
<1>7. Recompute(m) \in SUBSET Item
  BY <1>1, <1>2, <1>4
<1>8. One(Recompute(m))
  BY <1>4, <1>5, <1>6 DEF One
<1>9. \A x \in Restored(m) : \A i \in Recompute(m) : i.seq # x.item.seq
  BY <1>3, <1>4, <1>5
<1>10. Restored(m) \in SUBSET ManifestRows /\ OneEach(Restored(m))
  BY <1>1, <1>3, <1>5 DEF OneEach
<1> QED BY <1>7, <1>8, <1>9, <1>10

\* The process dies and is resumed, from whatever manifest there is.
LEMMA ResumeType ==
  ASSUME TypeInv, CrashAndResume
  PROVE  TypeInv'
<1> DEFINE m == manifest
<1>1. PipeOK /\ SinkOK /\ IndexOK /\ CkptOK /\ LifeOK /\ manifest # None
  BY DEF TypeInv, CrashAndResume
<1>2. m \in Manifests /\ m.cursor.seq <= m.cursor.row /\ One(m.issued) /\ OneEach(m.rows)
  BY <1>1 DEF LifeOK
<1>3. /\ m.committed \in -1 .. N - 1 /\ m.doc \in Documents /\ m.cursor \in Cursors
      /\ m.doc.committed \in SUBSET Files /\ m.doc.nextIndex \in Nat
  BY <1>2 DEF Manifests, Documents
<1>4. /\ Recompute(m) \in SUBSET Item /\ One(Recompute(m))
      /\ Restored(m) \in SUBSET ManifestRows /\ OneEach(Restored(m))
  BY <1>2, RecomputeFacts
<1>5. SinkResume(m.doc, m.committed)
  BY DEF CrashAndResume
<1>6. SinkOK' /\ watermarkNext' = m.committed + 1
  <2>1. /\ phase' = "open" /\ committed' \in SUBSET Files /\ nextIndex' \in Nat /\ done' = {}
        /\ contiguousNext' = m.committed + 1 /\ openRanges' = {} /\ watermarkNext' = m.committed + 1
        /\ current' = None /\ puts' = {} /\ dest' \subseteq dest
    BY <1>3, <1>5 DEF SinkResume, Kept, NextOf
  <2>2. N \in Nat
    BY FileSinkAssumption
  <2>3. m.committed + 1 \in 0 .. N /\ m.committed + 1 \in 0 .. m.committed + 1
    BY <1>3, <2>2
  <2> QED BY <1>1, <2>1, <2>3 DEF SinkOK
<1>7. PipeOK'
  <2>1. /\ cursor' = m.cursor /\ again' = {ReadAgain(i) : i \in Recompute(m)} /\ issued' = again'
        /\ landed' = {} /\ work' = {} /\ pushing' = {} /\ dropped' \subseteq dropped /\ ended' = FALSE
        /\ q' = [s \in 0 .. 1 |-> {ReadAgain(x.item) : x \in {x \in Restored(m) : s \in x.at}}]
    BY DEF CrashAndResume
  <2>2. \A x \in Restored(m) : x.item \in Item
    BY <1>4 DEF ManifestRows
  <2>3. issued' \in SUBSET Item /\ One(issued')
    BY <1>4, <2>1, ItemFacts DEF One
  <2>4. q' \in [0 .. 1 -> SUBSET Item]
    BY <2>1, <2>2, ItemFacts
  <2> QED BY <1>1, <1>2, <1>3, <2>1, <2>3, <2>4 DEF PipeOK
<1>8. IndexOK'
  <2> DEFINE Rec(x) == [item |-> ReadAgain(x.item), at |-> x.at, committed |-> FALSE]
  <2>1. /\ lineage' = {Rec(x) : x \in Restored(m)} /\ reached' = m.committed /\ engine' = m.committed
    BY DEF CrashAndResume
  <2>2. ASSUME NEW x \in Restored(m) PROVE Rec(x) \in Records /\ Rec(x).item.seq = x.item.seq
    <3>1. x.item \in Item /\ x.at \in SUBSET (0 .. 1)
      BY <1>4 DEF ManifestRows
    <3>2. ReadAgain(x.item) \in Item /\ ReadAgain(x.item).seq = x.item.seq
      BY <3>1, ItemFacts
    <3> QED BY <3>1, <3>2 DEF Records
  <2> HIDE DEF Rec
  <2>3. lineage' \in SUBSET Records /\ OneEach(lineage')
    BY <1>4, <2>1, <2>2 DEF OneEach
  <2>4. m.committed <= m.committed /\ m.committed < m.committed + 1
    BY <1>3
  <2> QED BY <1>3, <1>6, <2>1, <2>3, <2>4 DEF IndexOK
<1>9. CkptOK'
  BY <1>1 DEF CrashAndResume, CkptOK, HasDoc, HasCursor
<1>10. LifeOK'
  <2>1. /\ floor' = m.committed /\ resumes' = resumes + 1 /\ resumes < MaxResumes
        /\ sound' = (sound /\ Complete(m)) /\ (manifest' = m \/ manifest' = None)
    BY DEF CrashAndResume
  <2>2. resumes' \in 0 .. MaxResumes
    BY <1>1, <2>1, FileSinkAssumption DEF LifeOK
  <2> QED BY <1>1, <1>2, <1>3, <2>1, <2>2 DEF LifeOK
<1> QED BY <1>6, <1>7, <1>8, <1>9, <1>10 DEF TypeInv

\* A run starts with its types.
LEMMA TypeStart == RRInit => TypeInv
<1> SUFFICES ASSUME RRInit PROVE TypeInv
  OBVIOUS
<1>1. N \in Nat /\ NRows \in Nat /\ MaxManifests \in Nat /\ MaxResumes \in Nat
  BY FileSinkAssumption, RunResumeAssumption
<1>2. SinkOK
  BY <1>1 DEF RRInit, SinkInit, SinkOK
<1>3. PipeOK
  <2>1. cursor = [row |-> 0, seq |-> 0] /\ q = [s \in 0 .. 1 |-> {}]
    BY DEF RRInit
  <2>2. cursor \in Cursors /\ cursor.seq <= cursor.row
    BY <1>1, <2>1 DEF Cursors
  <2>3. q \in [0 .. 1 -> SUBSET Item]
    BY <2>1
  <2> QED BY <2>2, <2>3 DEF RRInit, PipeOK, One
<1>4. IndexOK
  BY <1>1 DEF RRInit, SinkInit, IndexOK, OneEach
<1>5. CkptOK /\ LifeOK
  BY <1>1 DEF RRInit, CkptOK, LifeOK, HasDoc, HasCursor
<1> QED BY <1>2, <1>3, <1>4, <1>5 DEF TypeInv

\* Every step keeps the types.
LEMMA TypeStep == TypeInv /\ [RRNext]_rrVars => TypeInv'
<1> SUFFICES ASSUME TypeInv, [RRNext]_rrVars PROVE TypeInv'
  OBVIOUS
<1>1. ASSUME NEW i \in q[1], WriteMorsel(i, TRUE) \/ WriteMorsel(i, FALSE) PROVE TypeInv'
  BY <1>1, WriteMorselType, Zenon
<1> QED
  BY <1>1, IssueType, PushReadType, RecordType, ForgetType, TakeWorkType, ApplyType, ApplyFailsType,
     SinkStepType, StutterType, MarkType, GatherType, FlushType, WriteManifestType, ManifestFailsType,
     ResumeType, Zenon
  DEF RRNext

(* Whatever the run is resumed from, the state of the run, of the sink, of   *)
(* the checkpoint and of the manifest has its type, a number is issued to    *)
(* one read and has one lineage record, and no watermark the engine was      *)
(* given is past the sink's.                                                 *)
THEOREM RunTypeInvariance == RRSpec => []TypeInv
<1> QED BY TypeStart, TypeStep, PTL DEF RRSpec

(* The run keeps its types.                                                  *)
THEOREM RunTypeCorrect == RRSpec => []RRTypeOK
<1>1. TypeInv => RRTypeOK
  <2> SUFFICES ASSUME TypeInv PROVE RRTypeOK
    OBVIOUS
  <2>1. PipeOK /\ IndexOK /\ CkptOK /\ LifeOK
    BY DEF TypeInv
  <2>2. \A r \in lineage : r.item \in Item /\ r.at \subseteq 0 .. 1 /\ r.committed \in BOOLEAN
    BY <2>1 DEF IndexOK, Records
  <2>3. landed \subseteq Item /\ pushing \subseteq [item : Item, stage : 0 .. 1]
    BY <2>1 DEF PipeOK, Pushes
  <2> QED BY <2>1, <2>2, <2>3 DEF RRTypeOK, PipeOK, IndexOK, CkptOK, LifeOK, Cursors
<1> QED BY <1>1, RunTypeInvariance, PTL

-----------------------------------------------------------------------------
(* The files *)

\* A file that is opened or rolled, by the names it may have.
NewName(n) == n < nextIndex' /\ (n = nextIndex \/ (current # None /\ n = current.name))

\* A step that opens files or hands them to the reactor.
FilesUp ==
  /\ UNCHANGED <<committed, done, contiguousNext, openRanges, watermarkNext, dest>>
  /\ nextIndex' = nextIndex \/ nextIndex' = nextIndex + 1
  /\ puts \subseteq puts'
  /\ \A p \in puts' \ puts : /\ p.put = "sent" /\ NewName(p.name)
                             /\ p.data = {} \/ (current # None /\ p.data = current.data)
  /\ \A p, o \in puts' \ puts : p = o
  /\ current' # None => NewName(current'.name) /\ \A p \in puts' \ puts : p.name # current'.name

\* Such a step keeps one file per name.
LEMMA FilesUpOK ==
  ASSUME SinkOK, SinkOK', FilesOK, FilesUp
  PROVE  FilesOK'
<1> DEFINE Used == committed \cup puts \cup dest
<1>1. nextIndex \in Nat /\ nextIndex' \in Nat /\ nextIndex <= nextIndex'
  BY DEF SinkOK, FilesUp
<1>2. ASSUME NEW n \in Nat, NewName(n), NEW x \in Used PROVE x.name # n
  <2>1. x.name < nextIndex /\ (current # None => x.name # current.name)
    BY DEF FilesOK
  <2> QED BY <1>1, <1>2, <2>1 DEF NewName
<1>3. \A x \in Used : x.name \in Nat /\ x.name < nextIndex'
  <2>1. \A x \in Used : x.name \in Nat /\ x.name < nextIndex
    BY DEF SinkOK, FilesOK, Files, PutFiles, OpenFiles
  <2> QED BY <1>1, <2>1
<1>4. \A p \in puts' : p.name \in Nat
  BY DEF SinkOK, PutFiles
<1>5. \A p \in puts' \ puts : /\ p.put = "sent" /\ NewName(p.name) /\ p.name < nextIndex'
                              /\ \A x \in Used : x.name # p.name
  BY <1>2, <1>4 DEF FilesUp, NewName
<1>6. committed' = committed /\ dest' = dest /\ puts \subseteq puts'
  BY DEF FilesUp
<1>7. \A p, o \in puts' : p.name = o.name => p = o
  <2>1. \A p, o \in puts : p.name = o.name => p = o
    BY DEF FilesOK
  <2>2. \A p, o \in puts' \ puts : p = o
    BY DEF FilesUp
  <2> QED BY <1>5, <2>1, <2>2
<1>8. \A p \in puts' : IF p.put = "stored" THEN [name |-> p.name, data |-> p.data] \in dest'
                                          ELSE \A d \in dest' : d.name # p.name
  <2>1. ASSUME NEW p \in puts PROVE IF p.put = "stored" THEN [name |-> p.name, data |-> p.data] \in dest
                                                         ELSE \A d \in dest : d.name # p.name
    BY DEF FilesOK
  <2>2. ASSUME NEW p \in puts' \ puts PROVE p.put # "stored" /\ \A d \in dest : d.name # p.name
    BY <1>5
  <2> QED BY <1>6, <2>1, <2>2
<1>9. \A x \in committed' \cup puts' \cup dest' : x.name < nextIndex'
  BY <1>3, <1>5, <1>6
<1>10. current' # None => /\ current'.name < nextIndex'
                          /\ \A x \in committed' \cup puts' \cup dest' : x.name # current'.name
  <2> SUFFICES ASSUME current' # None
               PROVE  /\ current'.name < nextIndex'
                      /\ \A x \in committed' \cup puts' \cup dest' : x.name # current'.name
    OBVIOUS
  <2>1. current'.name \in Nat
    BY DEF SinkOK, OpenFiles
  <2>2. NewName(current'.name) /\ \A p \in puts' \ puts : p.name # current'.name
    BY DEF FilesUp
  <2>3. \A x \in Used : x.name # current'.name
    BY <1>2, <2>1, <2>2
  <2> QED BY <1>6, <2>2, <2>3 DEF NewName
<1>11. \A f \in committed' : /\ \A p \in puts' : p.name # f.name
                             /\ \E d \in dest' : d.name = f.name /\ Seqs(d.data) = f.seqs
  <2>1. \A f \in committed : /\ \A p \in puts : p.name # f.name
                             /\ \E d \in dest : d.name = f.name /\ Seqs(d.data) = f.seqs
    BY DEF FilesOK
  <2> QED BY <1>5, <1>6, <2>1
<1>12. \A d \in dest' : (\E f \in committed' : f.name = d.name) \/ (\E p \in puts' : p.name = d.name)
  BY <1>6 DEF FilesOK
<1>13. \A d, e \in dest' : d.name = e.name => d = e
  BY <1>6 DEF FilesOK
<1> QED BY <1>7, <1>8, <1>9, <1>10, <1>11, <1>12, <1>13 DEF FilesOK

\* Such a step keeps every morsel in one file.
LEMMA ContentsUpOK ==
  ASSUME ContentsOK, FilesUp, Opened \cap (Rolled \cup Stored) = {}
  PROVE  ContentsOK'
<1>1. \A p \in puts : p.data \subseteq Rolled
  BY DEF Rolled
<1>2. \A d \in dest : d.data \subseteq Stored
  BY DEF Stored
<1>3. \A p \in puts' \ puts : p.data \subseteq Opened
  BY DEF FilesUp, Opened
<1>4. dest' = dest /\ puts \subseteq puts' /\ \A p, o \in puts' \ puts : p = o
  BY DEF FilesUp
<1>5. \A p \in puts' \ puts : /\ \A o \in puts : p.data \cap o.data = {}
                              /\ \A d \in dest : p.data \cap d.data = {}
  BY <1>1, <1>2, <1>3
<1>6. \A p, o \in puts' : p # o => p.data \cap o.data = {}
  BY <1>4, <1>5 DEF ContentsOK
<1>7. \A p \in puts', d \in dest' : p.name # d.name => p.data \cap d.data = {}
  BY <1>4, <1>5 DEF ContentsOK
<1> QED BY <1>4, <1>6, <1>7 DEF ContentsOK

\* write opens a file, or adds to the open one, or rolls it first.
LEMMA EncodeMoves ==
  ASSUME SinkOK, FilesOK, NEW i \in Item, NEW roll \in BOOLEAN, Encode(i, roll)
  PROVE  /\ FilesUp /\ phase = "open" /\ phase' = phase /\ Stored' = Stored /\ current' # None
         /\ \A p \in puts' \ puts : p.by = "write"
         /\ \/ Opened' = Opened \cup {i} /\ Rolled' = Rolled
            \/ Opened' = {i} /\ Rolled' = Rolled \cup Opened
<1>1. /\ UNCHANGED <<phase, committed, done, contiguousNext, openRanges, watermarkNext, dest>> /\ phase = "open"
      /\ roll => current # None
  BY DEF Encode
<1>2. Stored' = Stored
  BY <1>1 DEF Stored
<1>3. nextIndex \in Nat /\ (current # None => current.name \in Nat /\ current.name < nextIndex)
  BY DEF SinkOK, FilesOK, OpenFiles
<1>4. CASE current # None /\ ~roll
  <2>1. current \in OpenFiles /\ current' = [current EXCEPT !.data = @ \cup {i}] /\ UNCHANGED <<nextIndex, puts>>
    BY <1>4 DEF Encode, SinkOK
  <2>2. current'.name = current.name /\ current'.data = current.data \cup {i} /\ current' \in OpenFiles
    BY <2>1 DEF OpenFiles
  <2>3. current' # None
    BY <2>2 DEF OpenFiles, None
  <2>4. Opened' = Opened \cup {i} /\ Rolled' = Rolled
    BY <1>4, <2>1, <2>2, <2>3 DEF Opened, Rolled
  <2>5. NewName(current'.name)
    BY <1>3, <1>4, <2>1, <2>2 DEF NewName
  <2>6. FilesUp
    BY <1>1, <2>1, <2>5 DEF FilesUp
  <2> QED BY <1>1, <1>2, <2>1, <2>3, <2>4, <2>6
<1>5. CASE ~(current # None /\ ~roll)
  <2>1. /\ current' = [name |-> nextIndex, data |-> {i}]
        /\ nextIndex' = nextIndex + 1
        /\ puts' = IF roll THEN puts \cup {Put("write")} ELSE puts
    BY <1>5 DEF Encode
  <2>2. current' # None /\ current'.name = nextIndex /\ current'.data = {i}
    BY <2>1 DEF None
  <2>3. Opened' = {i}
    BY <2>2 DEF Opened
  <2>4. NewName(current'.name)
    BY <1>3, <2>1, <2>2 DEF NewName
  <2>5. CASE roll
    <3> DEFINE x == Put("write")
    <3>1. current # None /\ puts' = puts \cup {x}
      BY <1>1, <2>1, <2>5
    <3>2. x.name = current.name /\ x.data = current.data /\ x.by = "write" /\ x.put = "sent"
      BY <3>1, PutTypes
    <3> HIDE DEF x
    <3>3. NewName(x.name) /\ x.name # current'.name
      BY <1>3, <2>1, <2>2, <3>1, <3>2 DEF NewName
    <3>4. FilesUp
      BY <1>1, <2>1, <2>4, <3>1, <3>2, <3>3 DEF FilesUp
    <3>5. Rolled' = Rolled \cup Opened
      BY <3>1, <3>2 DEF Rolled, Opened
    <3> QED BY <1>1, <1>2, <2>2, <2>3, <3>1, <3>2, <3>4, <3>5
  <2>6. CASE ~roll
    <3>1. current = None /\ puts' = puts
      BY <1>5, <2>1, <2>6
    <3>2. Opened = {} /\ Rolled' = Rolled
      BY <3>1 DEF Opened, Rolled
    <3> QED BY <1>1, <1>2, <2>1, <2>2, <2>3, <2>4, <3>1, <3>2 DEF FilesUp
  <2> QED BY <2>5, <2>6
<1> QED BY <1>4, <1>5

\* The open file is handed over: checkpoint_flush, and finish, which opens an empty one when
\* nothing was written.
LEMMA RollMoves ==
  ASSUME SinkOK, FilesOK, NEW by, (by = "flush" /\ Flush) \/ (by = "finish" /\ FinishRoll)
  PROVE  /\ FilesUp /\ phase = "open" /\ phase' = phase /\ current' = None
         /\ Opened' = {} /\ Rolled' = Rolled \cup Opened /\ Stored' = Stored
         /\ \E x : puts' = puts \cup {x} /\ x.by = by
<1>1. /\ UNCHANGED <<phase, committed, done, contiguousNext, openRanges, watermarkNext, dest>> /\ phase = "open"
      /\ current' = None
  BY DEF Flush, FinishRoll, ledgerVars
<1>2. nextIndex \in Nat /\ (current # None => current.name \in Nat /\ current.name < nextIndex)
  BY DEF SinkOK, FilesOK, OpenFiles
<1>3. \E x : /\ puts' = puts \cup {x} /\ x.put = "sent" /\ x.by = by
            /\ \/ current # None /\ x.name = current.name /\ x.data = current.data /\ nextIndex' = nextIndex
               \/ current = None /\ x.name = nextIndex /\ x.data = {} /\ nextIndex' = nextIndex + 1
  <2>1. CASE current # None
    <3>1. puts' = puts \cup {Put(by)} /\ nextIndex' = nextIndex /\ by \in {"write", "flush", "finish"}
      BY <2>1 DEF Flush, FinishRoll, ledgerVars
    <3>2. Put(by).name = current.name /\ Put(by).data = current.data /\ Put(by).by = by /\ Put(by).put = "sent"
      BY <2>1, <3>1, PutTypes
    <3> QED BY <2>1, <3>1, <3>2
  <2>2. CASE current = None
    <3> DEFINE x == [name |-> nextIndex, data |-> {}, by |-> "finish", put |-> "sent"]
    <3>1. puts' = puts \cup {x} /\ nextIndex' = nextIndex + 1 /\ by = "finish"
      BY <2>2, Zenon DEF Flush, FinishRoll
    <3>2. x.name = nextIndex /\ x.data = {} /\ x.by = "finish" /\ x.put = "sent"
      OBVIOUS
    <3> QED BY <2>2, <3>1, <3>2
  <2> QED BY <2>1, <2>2
<1>4. PICK x : /\ puts' = puts \cup {x} /\ x.put = "sent" /\ x.by = by
               /\ \/ current # None /\ x.name = current.name /\ x.data = current.data /\ nextIndex' = nextIndex
                  \/ current = None /\ x.name = nextIndex /\ x.data = {} /\ nextIndex' = nextIndex + 1
  BY <1>3
<1>5. NewName(x.name)
  BY <1>2, <1>4 DEF NewName
<1>6. FilesUp
  BY <1>1, <1>4, <1>5 DEF FilesUp
<1>7. Opened' = {} /\ Stored' = Stored
  BY <1>1 DEF Opened, Stored
<1>8. x.data = Opened
  BY <1>4 DEF Opened
<1>9. Rolled' = Rolled \cup Opened
  BY <1>4, <1>8 DEF Rolled
<1> QED BY <1>1, <1>4, <1>6, <1>7, <1>9

\* The store has a file.
LEMMA LandMoves ==
  ASSUME SinkOK, FilesOK, ContentsOK, NEW p \in puts, PutLands(p)
  PROVE  /\ FilesOK' /\ ContentsOK'
         /\ Opened' = Opened /\ Rolled' = Rolled /\ Stored' = Stored \cup p.data
         /\ \A o \in puts' : \E x \in puts : o.name = x.name /\ o.by = x.by
         /\ puts' # {}
<1> DEFINE o == [p EXCEPT !.put = "stored"]
           e == [name |-> p.name, data |-> p.data]
<1>1. /\ UNCHANGED <<committed, nextIndex, current>> /\ p.put = "sent"
      /\ puts' = (puts \ {p}) \cup {o} /\ dest' = dest \cup {e}
  BY DEF PutLands, ledgerVars
<1>2. o.name = p.name /\ o.data = p.data /\ o.by = p.by /\ o.put = "stored"
  BY DEF SinkOK, PutFiles
<1>3. e.name = p.name /\ e.data = p.data /\ [name |-> o.name, data |-> o.data] = e
  BY <1>2
<1> HIDE DEF o
<1>4. [name |-> o.name, data |-> o.data] \in dest'
  BY <1>1, <1>3
<1> HIDE DEF e
<1>5. \A d \in dest : d.name # p.name
  BY <1>1 DEF FilesOK
<1>6. \A x \in puts : x.name = p.name => x = p
  BY DEF FilesOK
<1>7. FilesOK'
  <2>1. \A d, f \in dest' : d.name = f.name => d = f
    BY <1>1, <1>3, <1>5 DEF FilesOK
  <2>2. \A x, y \in puts' : x.name = y.name => x = y
    BY <1>1, <1>2, <1>6 DEF FilesOK
  <2>3. ASSUME NEW x \in puts' PROVE IF x.put = "stored" THEN [name |-> x.name, data |-> x.data] \in dest'
                                                         ELSE \A d \in dest' : d.name # x.name
    <3>1. CASE x = o
      BY <1>2, <1>4, <3>1
    <3>2. CASE x # o
      <4>1. x \in puts /\ x # p /\ x.name # p.name
        BY <1>1, <1>6, <3>2
      <4> QED BY <1>1, <1>3, <4>1 DEF FilesOK
    <3> QED BY <3>1, <3>2
  <2>4. \A x \in committed' \cup puts' \cup dest' : \E y \in committed \cup puts \cup dest : x.name = y.name
    BY <1>1, <1>2, <1>3
  <2>5. /\ \A x \in committed' \cup puts' \cup dest' : x.name < nextIndex'
        /\ current' # None => current'.name < nextIndex'
                              /\ \A x \in committed' \cup puts' \cup dest' : x.name # current'.name
    BY <1>1, <2>4 DEF FilesOK
  <2>6. ASSUME NEW f \in committed'
        PROVE  /\ \A x \in puts' : x.name # f.name
               /\ \E d \in dest' : d.name = f.name /\ Seqs(d.data) = f.seqs
    BY <1>1, <1>2 DEF FilesOK
  <2>7. \A d \in dest' : (\E f \in committed' : f.name = d.name) \/ (\E x \in puts' : x.name = d.name)
    <3>1. \A x \in puts : \E y \in puts' : y.name = x.name
      BY <1>1, <1>2
    <3> QED BY <1>1, <1>3, <3>1 DEF FilesOK
  <2> QED BY <2>1, <2>2, <2>3, <2>5, <2>6, <2>7 DEF FilesOK
<1>8. ContentsOK'
  <2>1. \A d \in dest : p.data \cap d.data = {}
    BY <1>5 DEF ContentsOK
  <2>2. \A d, f \in dest' : d # f => d.data \cap f.data = {}
    BY <1>1, <1>3, <2>1 DEF ContentsOK
  <2>3. \A x \in puts' \ {o} : x \in puts /\ x # p /\ x.name # p.name
    BY <1>1, <1>6
  <2>4. \A x, y \in puts' : x # y => x.data \cap y.data = {}
    BY <1>1, <1>2, <2>3 DEF ContentsOK
  <2>5. \A x \in puts', d \in dest' : x.name # d.name => x.data \cap d.data = {}
    BY <1>1, <1>2, <1>3, <2>1, <2>3 DEF ContentsOK
  <2> QED BY <2>2, <2>4, <2>5 DEF ContentsOK
<1>9. Opened' = Opened /\ Rolled' = Rolled /\ Stored' = Stored \cup p.data
  <2>1. Rolled' = Rolled
    BY <1>1, <1>2 DEF Rolled
  <2>2. Stored' = Stored \cup p.data
    BY <1>1, <1>3 DEF Stored
  <2> QED BY <1>1, <2>1, <2>2 DEF Opened
<1> QED BY <1>1, <1>2, <1>7, <1>8, <1>9

\* The ledger records a file the store has.
LEMMA RecordMoves ==
  ASSUME SinkOK, FilesOK, ContentsOK, NEW p \in puts, p.put = "stored", puts' = puts \ {p},
         committed' = committed \cup {[name |-> p.name, seqs |-> Seqs(p.data)]},
         UNCHANGED <<nextIndex, current, dest>>
  PROVE  /\ FilesOK' /\ ContentsOK' /\ p.data \subseteq Stored /\ p.data \subseteq Rolled
         /\ Opened' = Opened /\ Rolled' = Rolled \ p.data /\ Stored' = Stored
<1> DEFINE f == [name |-> p.name, seqs |-> Seqs(p.data)]
           e == [name |-> p.name, data |-> p.data]
<1>1. f.name = p.name /\ f.seqs = Seqs(p.data) /\ committed' = committed \cup {f}
  OBVIOUS
<1>2. e \in dest /\ e.name = p.name /\ e.data = p.data
  BY DEF FilesOK
<1> HIDE DEF f, e
<1>3. \A x \in puts : x.name = p.name => x = p
  BY DEF FilesOK
<1>4. FilesOK'
  <2>1. \A x \in committed' \cup puts' \cup dest' : \E y \in committed \cup puts \cup dest : x.name = y.name
    BY <1>1
  <2>2. /\ \A x \in committed' \cup puts' \cup dest' : x.name < nextIndex'
        /\ current' # None => current'.name < nextIndex'
                              /\ \A x \in committed' \cup puts' \cup dest' : x.name # current'.name
    BY <2>1 DEF FilesOK
  <2>3. ASSUME NEW g \in committed'
        PROVE  /\ \A x \in puts' : x.name # g.name
               /\ \E d \in dest' : d.name = g.name /\ Seqs(d.data) = g.seqs
    <3>1. CASE g = f
      BY <1>1, <1>2, <1>3, <3>1
    <3>2. CASE g \in committed
      BY <3>2 DEF FilesOK
    <3> QED BY <1>1, <3>1, <3>2
  <2>4. \A d \in dest' : (\E g \in committed' : g.name = d.name) \/ (\E x \in puts' : x.name = d.name)
    BY <1>1 DEF FilesOK
  <2>5. \A x \in puts' : IF x.put = "stored" THEN [name |-> x.name, data |-> x.data] \in dest'
                                             ELSE \A d \in dest' : d.name # x.name
    BY DEF FilesOK
  <2>6. /\ \A d, g \in dest' : d.name = g.name => d = g
        /\ \A x, y \in puts' : x.name = y.name => x = y
    BY DEF FilesOK
  <2> QED BY <2>2, <2>3, <2>4, <2>5, <2>6 DEF FilesOK
<1>5. ContentsOK'
  BY DEF ContentsOK
<1>6. \A x \in puts' : x.data \cap p.data = {}
  BY DEF ContentsOK
<1>7. Rolled' = Rolled \ p.data
  BY <1>6 DEF Rolled
<1>8. Opened' = Opened /\ Stored' = Stored
  BY DEF Opened, Stored
<1>9. p.data \subseteq Stored /\ p.data \subseteq Rolled
  BY <1>2 DEF Stored, Rolled
<1> QED BY <1>4, <1>5, <1>7, <1>8, <1>9
=============================================================================
