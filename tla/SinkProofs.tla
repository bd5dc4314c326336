----------------------------- MODULE SinkProofs -----------------------------
(***************************************************************************)
(* Proofs about SinkCheckpoint, for any number of morsels, files, failures *)
(* and resumes: what the watermark of a file sink promises, and that a     *)
(* manifest taken in the order of checkpoint_now keeps it.                 *)
(***************************************************************************)
EXTENDS SinkCheckpoint, LedgerProofs

USE ZenonT(3), SMTT(30)

USE FileSinkAssumption

\* The numbers in the open file.
Open == IF current = None THEN {} ELSE Seqs(current.data)

\* The watermark is at or below the contiguous number, and a file whose range is closed lies below it.
LedgerOK ==
  /\ watermarkNext <= contiguousNext
  /\ NeverClamped
  /\ \A f \in committed \ openRanges : \A b \in f.seqs : b < watermarkNext

\* No committed file straddles a watermark this life has had, so none a checkpoint may have read.
MarksOK ==
  /\ watermarkNext - 1 \in marks
  /\ \A m \in marks : m < watermarkNext /\ \A f \in committed : ~Straddles(f, m + 1)
  /\ seen # None => seen.watermark \in marks

\* A number is given once: it is counted, in the open file, or in one rolled file.
Apart ==
  /\ Counted \subseteq given
  /\ Open \subseteq given \ Counted
  /\ \A p \in puts : Seqs(p.data) \subseteq given \ (Counted \cup Open)
  /\ \A p, q \in puts : p # q => Seqs(p.data) \cap Seqs(q.data) = {}

\* What the ledger has counted is in the store or was skipped.
SettledOK ==
  /\ \A n \in Counted : Settled(n, committed)
  /\ \A p \in puts : p.put = "stored" => [name |-> p.name, data |-> p.data] \in dest

\* A name is used for one file, in the ledger, in the store and in the manifest.
NamesOK ==
  /\ \A d, e \in dest : d.name = e.name => d = e
  /\ \A p, q \in puts : p.name = q.name => p = q
  /\ \A p \in puts : p.put # "stored" => \A d \in dest : d.name # p.name
  /\ \A x \in committed \cup puts \cup dest : x.name < nextIndex
  /\ current # None => current.name < nextIndex /\ \A x \in committed \cup puts \cup dest : x.name # current.name
  /\ \A f \in committed : /\ \A p \in puts : p.name # f.name
                          /\ \A d \in dest : d.name = f.name => Seqs(d.data) = f.seqs
  /\ saved # None =>
       /\ saved.doc.nextIndex <= nextIndex
       /\ \A f \in saved.doc.committed :
            /\ f.name < saved.doc.nextIndex
            /\ current # None => current.name # f.name
            /\ \A p \in puts : p.name # f.name
            /\ \A d \in dest : d.name = f.name => Seqs(d.data) = f.seqs

\* A number in the store is in no other file, there or on its way.
StoreOK ==
  /\ \A d \in dest : Seqs(d.data) \subseteq given \ Open
  /\ \A d \in dest : \A p \in puts : p.name # d.name => Seqs(d.data) \cap Seqs(p.data) = {}
  /\ \A d, e \in dest : d # e => Seqs(d.data) \cap Seqs(e.data) = {}

IInv == TypeOK /\ LedgerOK /\ MarksOK /\ Apart /\ SettledOK /\ ManifestKeepsOutput /\ NamesOK /\ StoreOK

-----------------------------------------------------------------------------
\* A step that counts the numbers of d and may add files above the watermark.
LEMMA AdvanceKeeps ==
  ASSUME TypeOK, LedgerOK, MarksOK,
         NEW d \in SUBSET Seq0, NEW files \in SUBSET committed',
         Advance(d, files),
         committed \subseteq committed', openRanges \subseteq files,
         \A f \in committed' \ committed : /\ f.seqs \subseteq Seq0
                                           /\ \A b \in f.seqs : watermarkNext <= b
                                           /\ f.seqs = {} \/ f \in files,
         marks' = marks \cup {watermarkNext' - 1},
         UNCHANGED seen
  PROVE  /\ LedgerOK' /\ MarksOK'
         /\ contiguousNext' \in 0 .. N /\ watermarkNext' \in 0 .. N
         /\ openRanges' \subseteq committed' /\ marks' \subseteq -1 .. N - 1
         /\ done' \subseteq Seq0
         /\ Counted' \subseteq d \cup (0 .. contiguousNext - 1)
<1>1. \A f \in committed : f.seqs \subseteq Seq0 /\ ~Straddles(f, watermarkNext)
  <2>1. watermarkNext - 1 \in marks /\ watermarkNext - 1 + 1 = watermarkNext
    BY DEF MarksOK, TypeOK
  <2>2. \A f \in committed : ~Straddles(f, watermarkNext - 1 + 1)
    BY <2>1 DEF MarksOK
  <2> QED BY <2>1, <2>2 DEF TypeOK
<1>2. \A f \in committed' \ committed : \A m \in 0 .. watermarkNext : ~Straddles(f, m)
  BY DEF Straddles, TypeOK, Seq0
<1>3. \A f \in committed' : f.seqs \subseteq Seq0 /\ ~Straddles(f, watermarkNext)
  BY <1>1, <1>2 DEF TypeOK
<1>4. /\ contiguousNext' \in contiguousNext .. N
      /\ watermarkNext' \in watermarkNext .. contiguousNext'
      /\ done' \subseteq d
      /\ Counted' \subseteq d \cup (0 .. contiguousNext - 1)
      /\ openRanges' \subseteq files
      /\ \A f \in files : ~Straddles(f, watermarkNext')
      /\ \A f \in files \ openRanges' : \A b \in f.seqs : b < watermarkNext'
      /\ Held(watermarkNext', contiguousNext', openRanges')
  <2>1. contiguousNext \in 0 .. N /\ watermarkNext \in 0 .. contiguousNext
    BY DEF TypeOK, LedgerOK
  <2>2. \A f \in files : f.seqs \subseteq Seq0 /\ ~Straddles(f, watermarkNext)
    BY <1>3
  <2> QED BY <2>1, <2>2, AdvanceLedger
<1>10. contiguousNext' \in 0 .. N /\ watermarkNext' \in 0 .. N
  <2>1. contiguousNext \in 0 .. N /\ watermarkNext \in 0 .. N
    BY DEF TypeOK
  <2> QED BY <1>4, <2>1
<1>5. \A f \in committed' \ openRanges' : \A b \in f.seqs : b < watermarkNext'
  <2> SUFFICES ASSUME NEW f \in committed' \ openRanges', NEW b \in f.seqs
               PROVE  b < watermarkNext'
    OBVIOUS
  <2>1. CASE f \in files
    BY <1>4, <2>1
  <2>2. CASE f \notin files
    <3>1. f \in committed \ openRanges
      BY <2>2
    <3>2. b < watermarkNext /\ b \in Seq0
      BY <3>1, <1>3 DEF LedgerOK
    <3> QED BY <1>4, <3>2 DEF TypeOK, Seq0
  <2> QED BY <2>1, <2>2
<1>6. \A f \in committed' : ~Straddles(f, watermarkNext')
  <2> SUFFICES ASSUME NEW f \in committed' PROVE ~Straddles(f, watermarkNext')
    OBVIOUS
  <2>1. CASE f \in files
    BY <1>4, <2>1
  <2>2. CASE f \notin files
    <3>1. \A b \in f.seqs : b < watermarkNext'
      BY <1>4, <1>5, <2>2
    <3> QED BY <1>3, <1>4, <3>1 DEF Straddles, Seq0, TypeOK
  <2> QED BY <2>1, <2>2
<1>7. \A m \in marks' : m < watermarkNext' /\ \A f \in committed' : ~Straddles(f, m + 1)
  <2>1. ASSUME NEW m \in marks PROVE m < watermarkNext' /\ \A f \in committed' : ~Straddles(f, m + 1)
    <3>1. m \in -1 .. N - 1 /\ m < watermarkNext
      BY DEF MarksOK, TypeOK
    <3>2. m + 1 \in 0 .. watermarkNext
      BY <3>1 DEF TypeOK
    <3>3. \A f \in committed : ~Straddles(f, m + 1)
      BY DEF MarksOK
    <3>4. \A f \in committed' \ committed : ~Straddles(f, m + 1)
      BY <1>2, <3>2
    <3> QED BY <1>4, <3>1, <3>3, <3>4 DEF TypeOK
  <2>2. watermarkNext' - 1 < watermarkNext' /\ watermarkNext' - 1 + 1 = watermarkNext'
    BY <1>10, NumberBefore, Zenon
  <2> QED BY <1>6, <2>1, <2>2
<1>12. NeverClamped'
  <2>1. contiguousNext' \in Nat
    BY <1>10
  <2> QED BY <1>4, <2>1, HeldBackIs DEF NeverClamped
<1>8. LedgerOK'
  BY <1>4, <1>5, <1>10, <1>12 DEF LedgerOK
<1>9. MarksOK'
  BY <1>7 DEF MarksOK
<1>11. marks' \subseteq -1 .. N - 1
  <2>1. marks \subseteq -1 .. N - 1
    BY DEF TypeOK
  <2>2. watermarkNext' - 1 \in -1 .. N - 1
    BY <1>10, NumberBefore, Zenon
  <2> QED BY <2>1, <2>2
<1> QED BY <1>4, <1>8, <1>9, <1>10, <1>11

\* A rolled file's numbers are recorded: Ledger::commit of a file above the watermark.
LEMMA CommitKeeps ==
  ASSUME TypeOK, LedgerOK, MarksOK, Apart,
         NEW p \in puts, CommitFile(p.name, p.data),
         marks' = marks \cup {watermarkNext' - 1}, UNCHANGED seen
  PROVE  /\ LedgerOK' /\ MarksOK'
         /\ contiguousNext' \in 0 .. N /\ watermarkNext' \in 0 .. N
         /\ openRanges' \subseteq committed' /\ marks' \subseteq -1 .. N - 1
         /\ done' \subseteq Seq0
         /\ Counted' \subseteq Counted \cup Seqs(p.data)
         /\ committed' = committed \cup {[name |-> p.name, seqs |-> Seqs(p.data)]}
<1> DEFINE f == [name |-> p.name, seqs |-> Seqs(p.data)]
           d == done \cup f.seqs
           files == IF f.seqs = {} THEN openRanges ELSE openRanges \cup {f}
<1>1. p.name \in Nat /\ p.data \in SUBSET Item
  BY DEF TypeOK
<1>2. Seqs(p.data) \in SUBSET Seq0
  BY <1>1, SeqsFacts
<1>3. committed' = committed \cup {f} /\ Advance(d, files)
  BY DEF CommitFile
<1>4. f.seqs = Seqs(p.data)
  OBVIOUS
<1>5. \A b \in f.seqs : watermarkNext <= b
  <2>1. \A b \in Seqs(p.data) : b \notin 0 .. contiguousNext - 1
    BY DEF Apart, Counted
  <2> QED BY <1>2, <1>4, <2>1 DEF LedgerOK, TypeOK, Seq0
<1>6. d \in SUBSET Seq0 /\ openRanges \subseteq committed
  BY <1>2, <1>4 DEF TypeOK
<1>7. files \in SUBSET committed' /\ openRanges \subseteq files /\ committed \subseteq committed'
  BY <1>3, <1>6
<1>8. \A g \in committed' \ committed : g = f /\ (f.seqs = {} \/ f \in files)
  BY <1>3
<1> HIDE DEF f, d, files
<1>9. \A g \in committed' \ committed : /\ g.seqs \subseteq Seq0
                                        /\ \A b \in g.seqs : watermarkNext <= b
                                        /\ g.seqs = {} \/ g \in files
  BY <1>2, <1>4, <1>5, <1>8
<1>10. /\ LedgerOK' /\ MarksOK'
       /\ contiguousNext' \in 0 .. N /\ watermarkNext' \in 0 .. N
       /\ openRanges' \subseteq committed' /\ marks' \subseteq -1 .. N - 1
       /\ done' \subseteq Seq0
       /\ Counted' \subseteq d \cup (0 .. contiguousNext - 1)
  BY <1>3, <1>6, <1>7, <1>9, AdvanceKeeps
<1>11. Counted' \subseteq Counted \cup Seqs(p.data)
  BY <1>4, <1>10 DEF Counted, d
<1> QED BY <1>3, <1>10, <1>11 DEF f

\* Ledger::skip of a number the ledger has not counted.
LEMMA SkipKeeps ==
  ASSUME TypeOK, LedgerOK, MarksOK,
         NEW n \in Seq0, SinkSkip(n),
         marks' = marks \cup {watermarkNext' - 1}, UNCHANGED seen
  PROVE  /\ LedgerOK' /\ MarksOK'
         /\ contiguousNext' \in 0 .. N /\ watermarkNext' \in 0 .. N
         /\ openRanges' \subseteq committed' /\ marks' \subseteq -1 .. N - 1
         /\ done' \subseteq Seq0
         /\ Counted' \subseteq Counted \cup {n}
<1>1. committed' = committed /\ openRanges \subseteq committed
  BY DEF SinkSkip, TypeOK
<1>2. CASE n >= contiguousNext
  <2>1. Advance(done \cup {n}, openRanges)
    BY <1>2 DEF SinkSkip
  <2>2. done \cup {n} \in SUBSET Seq0
    BY DEF TypeOK
  <2>3. /\ LedgerOK' /\ MarksOK'
        /\ contiguousNext' \in 0 .. N /\ watermarkNext' \in 0 .. N
        /\ openRanges' \subseteq committed' /\ marks' \subseteq -1 .. N - 1
        /\ done' \subseteq Seq0
        /\ Counted' \subseteq (done \cup {n}) \cup (0 .. contiguousNext - 1)
    BY <1>1, <2>1, <2>2, AdvanceKeeps
  <2> QED BY <2>3 DEF Counted
<1>3. CASE ~(n >= contiguousNext)
  <2>1. UNCHANGED <<contiguousNext, done, watermarkNext, openRanges, committed>>
    BY <1>1, <1>3 DEF SinkSkip
  <2>2. marks' = marks
    BY <2>1 DEF MarksOK
  <2>3. LedgerOK' /\ MarksOK'
    BY <2>1, <2>2 DEF LedgerOK, MarksOK, NeverClamped
  <2> QED BY <2>1, <2>2, <2>3 DEF TypeOK, Counted
<1> QED BY <1>2, <1>3

\* A step that does not count leaves the ledger and the marks.
LEMMA LedgerFrame ==
  ASSUME TypeOK, LedgerOK, MarksOK,
         UNCHANGED <<committed, done, contiguousNext, openRanges, watermarkNext>>,
         marks' = marks \cup {watermarkNext' - 1},
         seen' = seen \/ seen' = None \/ \E w \in marks : seen' = [watermark |-> w]
  PROVE  LedgerOK' /\ MarksOK' /\ Counted' = Counted /\ marks' \subseteq -1 .. N - 1
<1>1. marks' = marks
  BY DEF MarksOK
<1>2. seen' # None => seen'.watermark \in marks
  BY DEF MarksOK
<1> QED BY <1>1, <1>2 DEF LedgerOK, MarksOK, NeverClamped, Counted, TypeOK

-----------------------------------------------------------------------------
\* The parts of the invariant that are about files: where numbers and names are.
FilesOK == Apart /\ SettledOK /\ ManifestKeepsOutput /\ NamesOK /\ StoreOK

\* A file is dropped before it reaches the store, or nothing happens to any.
LEMMA DropKeeps ==
  ASSUME TypeOK, FilesOK, Counted' = Counted,
         UNCHANGED <<committed, nextIndex, dest, given, skipped, saved>>,
         current' \in {current, None}, puts' \subseteq puts
  PROVE  FilesOK'
<1> USE DEF FilesOK
<1>1. Open' \subseteq Open
  BY DEF Open
<1>2. Apart'
  BY <1>1 DEF Apart
<1>3. SettledOK'
  BY DEF SettledOK, Settled
<1>4. ManifestKeepsOutput'
  BY DEF ManifestKeepsOutput, Settled
<1>5. NamesOK'
  BY DEF NamesOK
<1>6. StoreOK'
  BY <1>1 DEF StoreOK
<1> QED BY <1>2, <1>3, <1>4, <1>5, <1>6

\* The rolled file has the name and the morsels of the open one.
LEMMA PutFacts ==
  ASSUME NEW by
  PROVE  Put(by).name = current.name /\ Put(by).data = current.data /\ Put(by).put = "sent"
BY DEF Put

\* The open file is rolled.
LEMMA RollKeeps ==
  ASSUME TypeOK, FilesOK, Counted' = Counted,
         UNCHANGED <<committed, nextIndex, dest, given, skipped, saved>>,
         current # None, NEW by, current' = None, puts' = puts \cup {Put(by)}
  PROVE  FilesOK'
<1> USE DEF FilesOK
<1>1. PICK r : r = Put(by) /\ r.name = current.name /\ r.data = current.data /\ r.put = "sent"
  BY PutFacts
<1>2. Seqs(r.data) = Open /\ Open' = {} /\ puts' = puts \cup {r}
  BY <1>1 DEF Open
<1>3. Apart'
  BY <1>2 DEF Apart
<1>4. SettledOK'
  BY <1>1, <1>2 DEF SettledOK, Settled
<1>5. ManifestKeepsOutput'
  BY DEF ManifestKeepsOutput, Settled
<1>6. NamesOK'
  <2>1. r.name < nextIndex /\ \A x \in committed \cup puts \cup dest : x.name # r.name
    BY <1>1 DEF NamesOK
  <2>2. saved # None => \A f \in saved.doc.committed : r.name # f.name
    BY <1>1 DEF NamesOK
  <2> QED BY <1>1, <1>2, <2>1, <2>2 DEF NamesOK
<1>7. StoreOK'
  BY <1>2 DEF StoreOK
<1> QED BY <1>3, <1>4, <1>5, <1>6, <1>7

\* A morsel is encoded into the open file.
LEMMA AppendKeeps ==
  ASSUME TypeOK, FilesOK, Counted' = Counted,
         UNCHANGED <<committed, nextIndex, dest, puts, skipped, saved>>,
         NEW i \in Item, SeqOf[i] \notin given, given' = given \cup {SeqOf[i]},
         current # None, current' = [current EXCEPT !.data = @ \cup {i}]
  PROVE  FilesOK'
<1> USE DEF FilesOK
<1>1. current \in [name : Nat, data : SUBSET Item]
  BY DEF TypeOK
<1>2. current'.name = current.name /\ current'.data = current.data \cup {i}
  BY <1>1
<1>3. Open' \subseteq Open \cup {SeqOf[i]}
  BY <1>1, <1>2, SeqsFacts DEF Open
<1>4. Apart'
  BY <1>3 DEF Apart
<1>5. SettledOK'
  BY DEF SettledOK, Settled
<1>6. ManifestKeepsOutput'
  BY DEF ManifestKeepsOutput, Settled
<1>7. NamesOK'
  BY <1>2 DEF NamesOK
<1>8. StoreOK'
  BY <1>3 DEF StoreOK
<1> QED BY <1>4, <1>5, <1>6, <1>7, <1>8

\* A morsel is encoded into a new file, ...
LEMMA OpenKeeps ==
  ASSUME TypeOK, FilesOK, Counted' = Counted,
         UNCHANGED <<committed, dest, puts, skipped, saved>>,
         NEW i \in Item, SeqOf[i] \notin given, given' = given \cup {SeqOf[i]},
         current' = [name |-> nextIndex, data |-> {i}], nextIndex' = nextIndex + 1
  PROVE  FilesOK'
<1> USE DEF FilesOK
<1>1. Open' \subseteq {SeqOf[i]} /\ current'.name = nextIndex
  BY SeqsFacts DEF Open
<1>2. nextIndex \in Nat
  BY DEF TypeOK
<1>3. Apart'
  BY <1>1 DEF Apart
<1>4. SettledOK'
  BY DEF SettledOK, Settled
<1>5. ManifestKeepsOutput'
  BY DEF ManifestKeepsOutput, Settled
<1>6. NamesOK'
  BY <1>1, <1>2 DEF NamesOK, TypeOK
<1>7. StoreOK'
  BY <1>1 DEF StoreOK
<1> QED BY <1>3, <1>4, <1>5, <1>6, <1>7

\* ... after the open one was rolled.
LEMMA RollOpenKeeps ==
  ASSUME TypeOK, FilesOK, Counted' = Counted,
         UNCHANGED <<committed, dest, skipped, saved>>,
         NEW i \in Item, SeqOf[i] \notin given, given' = given \cup {SeqOf[i]},
         current # None, puts' = puts \cup {Put("write")},
         current' = [name |-> nextIndex, data |-> {i}], nextIndex' = nextIndex + 1
  PROVE  FilesOK'
<1> USE DEF FilesOK
<1>1. Open' \subseteq {SeqOf[i]} /\ current'.name = nextIndex
  BY SeqsFacts DEF Open
<1>2. nextIndex \in Nat
  BY DEF TypeOK
<1>3. PICK r : r = Put("write") /\ r.name = current.name /\ r.data = current.data /\ r.put = "sent"
  BY PutFacts
<1>4. Seqs(r.data) = Open /\ puts' = puts \cup {r}
  BY <1>3 DEF Open
<1>5. Apart'
  <2>1. Seqs(r.data) \subseteq given \ Counted /\ \A p \in puts : Seqs(p.data) \cap Seqs(r.data) = {}
    BY <1>4 DEF Apart
  <2>2. \A p \in puts' : Seqs(p.data) \subseteq given \ Counted
    BY <1>4, <2>1 DEF Apart
  <2>3. \A p, q \in puts' : p # q => Seqs(p.data) \cap Seqs(q.data) = {}
    BY <1>4, <2>1 DEF Apart
  <2>4. Counted \subseteq given /\ Open' \subseteq given' \ given
    BY <1>1 DEF Apart
  <2> QED BY <2>2, <2>3, <2>4 DEF Apart
<1>6. SettledOK'
  BY <1>3, <1>4 DEF SettledOK, Settled
<1>7. ManifestKeepsOutput'
  BY DEF ManifestKeepsOutput, Settled
<1>8. NamesOK'
  <2>1. r.name < nextIndex /\ \A x \in committed \cup puts \cup dest : x.name # r.name
    BY <1>3 DEF NamesOK
  <2>2. saved # None => \A f \in saved.doc.committed : r.name # f.name
    BY <1>3 DEF NamesOK
  <2> QED BY <1>1, <1>2, <1>3, <1>4, <2>1, <2>2 DEF NamesOK, TypeOK
<1>9. StoreOK'
  BY <1>1, <1>4 DEF StoreOK
<1> QED BY <1>5, <1>6, <1>7, <1>8, <1>9

\* finish opens an empty file and rolls it.
LEMMA EmptyKeeps ==
  ASSUME TypeOK, FilesOK, Counted' = Counted,
         UNCHANGED <<committed, dest, given, skipped, saved>>,
         NEW r, r.name = nextIndex, r.data = {}, r.put = "sent",
         puts' = puts \cup {r}, current' = None, nextIndex' = nextIndex + 1
  PROVE  FilesOK'
<1> USE DEF FilesOK
<1>1. Open' = {} /\ Seqs(r.data) = {}
  BY SeqsFacts DEF Open
<1>2. nextIndex \in Nat
  BY DEF TypeOK
<1>3. Apart'
  BY <1>1 DEF Apart
<1>4. SettledOK'
  BY DEF SettledOK, Settled
<1>5. ManifestKeepsOutput'
  BY DEF ManifestKeepsOutput, Settled
<1>6. NamesOK'
  <2>1. \A x \in committed \cup puts \cup dest : x.name < r.name
    BY DEF NamesOK
  <2>2. saved # None => \A f \in saved.doc.committed : f.name < r.name
    BY <1>2 DEF NamesOK, TypeOK
  <2>3. \A x \in committed \cup puts \cup dest : x.name \in Nat
    BY DEF TypeOK
  <2>4. \A x \in committed \cup puts \cup dest : x.name # r.name /\ x.name < nextIndex'
    BY <1>2, <2>1, <2>3
  <2>5. saved # None =>
          /\ saved.doc.nextIndex <= nextIndex'
          /\ \A f \in saved.doc.committed : f.name # r.name
    BY <1>2, <2>2 DEF NamesOK, TypeOK
  <2>6. r.name < nextIndex'
    BY <1>2
  <2> QED BY <2>4, <2>5, <2>6 DEF NamesOK
<1>7. StoreOK'
  BY <1>1 DEF StoreOK
<1> QED BY <1>3, <1>4, <1>5, <1>6, <1>7

\* The store answers for a file.
LEMMA AnswerKeeps ==
  ASSUME TypeOK, FilesOK, Counted' = Counted,
         UNCHANGED <<committed, current, nextIndex, given, skipped, saved>>,
         NEW p \in puts, p.put = "sent",
         NEW r, r.name = p.name, r.data = p.data, puts' = (puts \ {p}) \cup {r},
         \/ r.put = "stored" /\ dest' = dest \cup {[name |-> p.name, data |-> p.data]}
         \/ r.put = "refused" /\ dest' = dest
  PROVE  FilesOK'
<1> USE DEF FilesOK
<1>1. Open' = Open
  BY DEF Open
<1>2. PICK d : d = [name |-> p.name, data |-> p.data] /\ d.name = p.name /\ d.data = p.data
  <2> DEFINE e == [name |-> p.name, data |-> p.data]
  <2>1. e = [name |-> p.name, data |-> p.data] /\ e.name = p.name /\ e.data = p.data
    OBVIOUS
  <2> HIDE DEF e
  <2> QED BY <2>1
<1>3. dest' \in {dest, dest \cup {d}}
  BY <1>2
<1>4. \A x \in dest : x.name # p.name
  BY DEF NamesOK
<1>5. Apart'
  BY <1>1 DEF Apart
<1>6. \A n, files : Settled(n, files) => Settled(n, files)'
  BY <1>3 DEF Settled
<1>7. SettledOK'
  BY <1>6 DEF SettledOK
<1>8. ManifestKeepsOutput'
  BY <1>6 DEF ManifestKeepsOutput
<1>9. NamesOK'
  <2>1. \A q \in puts' : q = r \/ (q \in puts /\ q.name # p.name)
    BY DEF NamesOK
  <2>2. \A x \in dest' : x \in dest \/ x = d
    BY <1>3
  <2>3. r.put # "stored" => dest' = dest
    OBVIOUS
  <2> QED BY <1>2, <1>4, <2>1, <2>2, <2>3 DEF NamesOK
<1>10. StoreOK'
  <2>1. \A q \in puts' : q = r \/ (q \in puts /\ q # p)
    OBVIOUS
  <2>2. \A x \in dest' : x \in dest \/ x = d
    BY <1>3
  <2> QED BY <1>1, <1>2, <1>4, <2>1, <2>2 DEF StoreOK, Apart
<1> QED BY <1>5, <1>7, <1>8, <1>9, <1>10

\* The ledger records a file the store has.
LEMMA RecordKeeps ==
  ASSUME TypeOK, FilesOK, NEW p \in puts, p.put = "stored",
         Counted' \subseteq Counted \cup Seqs(p.data),
         committed' = committed \cup {[name |-> p.name, seqs |-> Seqs(p.data)]},
         puts' = puts \ {p},
         UNCHANGED <<current, nextIndex, dest, given, skipped, saved>>
  PROVE  FilesOK'
<1> USE DEF FilesOK
<1>1. PICK f : /\ committed' = committed \cup {f}
               /\ f.name = p.name /\ f.seqs = Seqs(p.data)
  <2> DEFINE e == [name |-> p.name, seqs |-> Seqs(p.data)]
  <2>1. committed' = committed \cup {e} /\ e.name = p.name /\ e.seqs = Seqs(p.data)
    OBVIOUS
  <2> HIDE DEF e
  <2> QED BY <2>1
<1>2. PICK d \in dest : d.name = p.name /\ d.data = p.data
  BY DEF SettledOK
<1>3. Open' = Open
  BY DEF Open
<1>4. Apart'
  <2>1. Seqs(p.data) \subseteq given \ Open
    BY DEF Apart
  <2>2. \A q \in puts' : Seqs(q.data) \cap Seqs(p.data) = {}
    BY DEF Apart
  <2> QED BY <1>3, <2>1, <2>2 DEF Apart
<1>5. \A n : Settled(n, committed) => Settled(n, committed')
  BY DEF Settled
<1>6. SettledOK'
  <2>1. \A n \in Seqs(p.data) : Settled(n, committed')
    BY <1>1, <1>2 DEF Settled
  <2>2. \A n \in Counted' : Settled(n, committed')
    BY <1>5, <2>1 DEF SettledOK
  <2>3. \A n \in Counted' : Settled(n, committed)'
    BY <2>2 DEF Settled
  <2> QED BY <2>3 DEF SettledOK
<1>7. ManifestKeepsOutput'
  BY DEF ManifestKeepsOutput, Settled
<1>8. NamesOK'
  <2>1. f.name < nextIndex /\ (current # None => current.name # f.name)
    BY <1>1 DEF NamesOK
  <2>2. \A q \in puts' : q.name # f.name
    BY <1>1 DEF NamesOK
  <2>3. \A e \in dest : e.name = f.name => Seqs(e.data) = f.seqs
    BY <1>1, <1>2 DEF NamesOK
  <2> QED BY <1>1, <2>1, <2>2, <2>3 DEF NamesOK
<1>9. StoreOK'
  BY <1>3 DEF StoreOK
<1> QED BY <1>4, <1>6, <1>7, <1>8, <1>9

\* A number that was given to nobody is skipped.
LEMMA SkippedKeeps ==
  ASSUME TypeOK, FilesOK, NEW n \in Seq0, n \notin given,
         Counted' \subseteq Counted \cup {n},
         given' = given \cup {n}, skipped' = skipped \cup {n},
         UNCHANGED <<committed, current, puts, nextIndex, dest, saved>>
  PROVE  FilesOK'
<1> USE DEF FilesOK
<1>1. Open' = Open
  BY DEF Open
<1>2. Apart'
  BY <1>1 DEF Apart
<1>3. \A k, files : Settled(k, files) => Settled(k, files)'
  BY DEF Settled
<1>4. Settled(n, committed)'
  BY DEF Settled
<1>5. SettledOK'
  <2>1. \A k \in Counted' : Settled(k, committed)'
    BY <1>3, <1>4 DEF SettledOK
  <2> QED BY <2>1 DEF SettledOK
<1>6. ManifestKeepsOutput'
  BY <1>3 DEF ManifestKeepsOutput
<1>7. NamesOK'
  BY DEF NamesOK
<1>8. StoreOK'
  BY <1>1 DEF StoreOK
<1> QED BY <1>2, <1>5, <1>6, <1>7, <1>8

\* The manifest: the watermark was read before the ledger's files.
LEMMA ReadStateKeeps ==
  ASSUME TypeOK, LedgerOK, MarksOK, FilesOK, Counted' = Counted, ReadState
  PROVE  FilesOK' /\ saved' \in [watermark : -1 .. N - 1,
             doc : [committed : SUBSET [name : Nat, seqs : SUBSET Seq0], nextIndex : Nat]]
<1> USE DEF FilesOK
<1>1. UNCHANGED <<committed, current, puts, nextIndex, dest, given, skipped>>
  BY DEF ReadState, sinkVars, ledgerVars
<1>2. PICK w : w = seen.watermark
  OBVIOUS
<1>3. w \in marks /\ w \in -1 .. N - 1
  BY <1>2 DEF ReadState, MarksOK, TypeOK
<1>4. /\ saved'.watermark = w /\ saved'.doc.committed = committed /\ saved'.doc.nextIndex = nextIndex
      /\ saved' \in [watermark : -1 .. N - 1,
             doc : [committed : SUBSET [name : Nat, seqs : SUBSET Seq0], nextIndex : Nat]]
  BY <1>2, <1>3 DEF ReadState, Document, TypeOK
<1>5. \A f \in committed : f.seqs \subseteq Seq0 /\ ~Straddles(f, w + 1)
  BY <1>3 DEF MarksOK, TypeOK
<1>6. PICK doc : doc = saved'.doc
  OBVIOUS
<1>7. \A f \in committed : (\A n \in f.seqs : n <= w) \/ (\A n \in f.seqs : n > w)
  BY <1>3, <1>5 DEF Straddles, Seq0
<1>8. Accepts(doc, w)
  BY <1>4, <1>6, <1>7 DEF Accepts, Kept, Above
<1>9. ASSUME NEW n \in 0 .. w PROVE Settled(n, Kept(doc, w))
  <2>1. n \in Counted
    BY <1>3 DEF Counted, MarksOK, LedgerOK, TypeOK
  <2>2. Settled(n, committed)
    BY <2>1 DEF SettledOK
  <2>3. \A f \in committed : n \in f.seqs => f \in Kept(doc, w)
    BY <1>3, <1>4, <1>6, <1>7 DEF Kept
  <2> QED BY <2>2, <2>3 DEF Settled
<1>10. ManifestKeepsOutput'
  <2>1. \A n \in 0 .. w : Settled(n, Kept(doc, w))'
    BY <1>1, <1>9 DEF Settled
  <2> QED BY <1>4, <1>6, <1>8, <2>1 DEF ManifestKeepsOutput
<1>11. Open' = Open
  BY <1>1 DEF Open
<1>12. Apart' /\ StoreOK' /\ SettledOK'
  BY <1>1, <1>11 DEF Apart, StoreOK, SettledOK, Settled
<1>13. NamesOK'
  <2>1. /\ saved'.doc.nextIndex <= nextIndex
        /\ \A f \in saved'.doc.committed :
             /\ f.name < saved'.doc.nextIndex
             /\ current # None => current.name # f.name
             /\ \A p \in puts : p.name # f.name
             /\ \A d \in dest : d.name = f.name => Seqs(d.data) = f.seqs
    <3>1. nextIndex <= nextIndex
      BY DEF TypeOK
    <3> QED BY <1>4, <3>1 DEF NamesOK
  <2> QED BY <1>1, <2>1 DEF NamesOK
<1> QED BY <1>4, <1>10, <1>12, <1>13

\* A resume keeps the files at or below the watermark and goes on after it.
LEMMA ResumeKeeps ==
  ASSUME IInv, Resume
  PROVE  IInv'
<1> USE DEF IInv
<1>1. PICK w, doc : w = saved.watermark /\ doc = saved.doc
  OBVIOUS
<1>2. /\ w \in -1 .. N - 1 /\ doc.nextIndex \in Nat
      /\ doc.committed \in SUBSET [name : Nat, seqs : SUBSET Seq0]
  BY <1>1 DEF Resume, TypeOK
<1>3. /\ phase' = "open" /\ nextIndex' = doc.nextIndex /\ done' = {}
      /\ contiguousNext' = w + 1 /\ openRanges' = {} /\ watermarkNext' = w + 1
      /\ current' = None /\ puts' = {} /\ given' = 0 .. w
      /\ skipped' = skipped \cap (0 .. w) /\ marks' = {w} /\ seen' = None /\ saved' = saved
      /\ committed' = Kept(doc, w)
      /\ dest' = {f \in dest : \E k \in Kept(doc, w) : k.name = f.name}
  <2>1. /\ SinkResume(doc, w) /\ given' = 0 .. w
        /\ skipped' = skipped \cap (0 .. w) /\ marks' = {w} /\ seen' = None /\ saved' = saved
    BY <1>1 DEF Resume
  <2> QED BY <2>1 DEF SinkResume, NextOf
<1>4. \A f \in committed' : f \in doc.committed /\ f.seqs \subseteq 0 .. w
  BY <1>2, <1>3 DEF Kept, Seq0
<1>5. w + 1 \in 0 .. N /\ (w + 1) - 1 = w
  BY <1>2
<1>6. Counted' = 0 .. w /\ Open' = {}
  <2>1. contiguousNext' - 1 = w
    BY <1>3, <1>5, Zenon
  <2> QED BY <1>3, <2>1 DEF Counted, Open
<1>7. TypeOK'
  <2>1. 0 .. w \subseteq Seq0
    BY <1>2 DEF Seq0
  <2>2. committed' \in SUBSET [name : Nat, seqs : SUBSET Seq0]
    BY <1>2, <1>4
  <2>3. dest' \in SUBSET [name : Nat, data : SUBSET Item]
    BY <1>3 DEF TypeOK
  <2>4. skipped' \subseteq given' /\ marks' \subseteq -1 .. N - 1
    BY <1>2, <1>3
  <2>5. manifests' \in Nat /\ resumes' \in Nat
    BY DEF Resume, TypeOK
  <2> QED BY <1>2, <1>3, <1>5, <2>1, <2>2, <2>3, <2>4, <2>5 DEF TypeOK
<1>8. LedgerOK'
  <2>1. Held(w + 1, w + 1, {})
    BY <1>5 DEF Held
  <2>2. NeverClamped'
    BY <1>3, <1>5, <2>1, HeldBackIs DEF NeverClamped
  <2>3. \A f \in committed' : \A b \in f.seqs : b < w + 1
    BY <1>2, <1>4
  <2> QED BY <1>3, <1>5, <2>2, <2>3 DEF LedgerOK
<1>9. MarksOK'
  <2>1. \A f \in committed' : ~Straddles(f, w + 1)
    BY <1>2, <1>4 DEF Straddles
  <2> QED BY <1>2, <1>3, <1>5, <2>1 DEF MarksOK
<1>10. Apart'
  BY <1>3, <1>6 DEF Apart
<1>11. \A n \in 0 .. w : Settled(n, Kept(doc, w)) => Settled(n, Kept(doc, w))'
  BY <1>3 DEF Settled
<1>12. \A n \in 0 .. w : Settled(n, Kept(doc, w))'
  BY <1>1, <1>11 DEF ManifestKeepsOutput, Resume
<1>13. SettledOK'
  BY <1>3, <1>6, <1>12 DEF SettledOK, Settled
<1>14. ManifestKeepsOutput'
  BY <1>1, <1>3, <1>12 DEF ManifestKeepsOutput
<1>15. \A d \in dest' : \E k \in doc.committed : k.name = d.name /\ k.seqs = Seqs(d.data) /\ k.seqs \subseteq 0 .. w
  BY <1>1, <1>3, <1>4 DEF NamesOK, Resume
<1>16. NamesOK'
  <2>1. \A f \in doc.committed : f.name < doc.nextIndex
    BY <1>1 DEF NamesOK, Resume
  <2>2. \A f \in doc.committed : \A d \in dest' : d.name = f.name => Seqs(d.data) = f.seqs
    BY <1>1, <1>3 DEF NamesOK, Resume
  <2>3. \A d, e \in dest' : d.name = e.name => d = e
    BY <1>3 DEF NamesOK
  <2>4. \A x \in committed' \cup dest' : x.name < nextIndex'
    BY <1>3, <1>4, <1>15, <2>1
  <2>5. saved' # None =>
          /\ saved'.doc.nextIndex <= nextIndex'
          /\ \A f \in saved'.doc.committed :
               /\ f.name < saved'.doc.nextIndex
               /\ \A d \in dest' : d.name = f.name => Seqs(d.data) = f.seqs
    BY <1>1, <1>2, <1>3, <2>1, <2>2
  <2>6. \A f \in committed' : \A d \in dest' : d.name = f.name => Seqs(d.data) = f.seqs
    BY <1>4, <2>2
  <2> QED BY <1>3, <2>3, <2>4, <2>5, <2>6 DEF NamesOK
<1>17. StoreOK'
  <2>1. \A d \in dest' : Seqs(d.data) \subseteq given' \ Open'
    BY <1>3, <1>6, <1>15
  <2>2. dest' \subseteq dest /\ puts' = {}
    BY <1>3
  <2> QED BY <2>1, <2>2 DEF StoreOK
<1> QED BY <1>7, <1>8, <1>9, <1>10, <1>13, <1>14, <1>16, <1>17

-----------------------------------------------------------------------------
\* A morsel is written.
LEMMA WriteKeeps ==
  ASSUME IInv, NEW i \in Item, NEW roll \in BOOLEAN, Write(i, roll),
         marks' = marks \cup {watermarkNext' - 1}
  PROVE  IInv'
<1> USE DEF IInv
<1>1. /\ UNCHANGED <<phase, committed, done, contiguousNext, openRanges, watermarkNext, dest>>
      /\ UNCHANGED <<skipped, seen, saved, manifests, resumes>>
      /\ SeqOf[i] \notin given /\ given' = given \cup {SeqOf[i]}
  BY DEF Write, Encode
<1>2. SeqOf[i] \in Seq0
  BY SeqsFacts
<1>3. LedgerOK' /\ MarksOK' /\ Counted' = Counted /\ marks' \subseteq -1 .. N - 1
  BY <1>1, LedgerFrame
<1>4. CASE current # None /\ ~roll
  <2>1. current' = [current EXCEPT !.data = @ \cup {i}] /\ UNCHANGED <<nextIndex, puts>>
    BY <1>4 DEF Write, Encode
  <2>2. FilesOK'
    BY <1>1, <1>3, <1>4, <2>1, AppendKeeps DEF FilesOK
  <2>3. current' \in [name : Nat, data : SUBSET Item]
    BY <1>4, <2>1 DEF TypeOK
  <2>4. TypeOK'
    BY <1>1, <1>2, <1>3, <2>1, <2>3 DEF TypeOK
  <2> QED BY <1>3, <2>2, <2>4 DEF FilesOK
<1>5. CASE ~(current # None /\ ~roll)
  <2>1. /\ current' = [name |-> nextIndex, data |-> {i}] /\ nextIndex' = nextIndex + 1
        /\ \/ puts' = puts
           \/ current # None /\ puts' = puts \cup {Put("write")}
    BY <1>5 DEF Write, Encode
  <2>2. FilesOK'
    BY <1>1, <1>3, <2>1, OpenKeeps, RollOpenKeeps DEF FilesOK
  <2>3. current' \in [name : Nat, data : SUBSET Item] /\ nextIndex' \in Nat
    <3>1. nextIndex \in Nat
      BY DEF TypeOK
    <3> QED BY <2>1, <3>1
  <2>4. puts' \in SUBSET [name : Nat, data : SUBSET Item,
                          by : {"write", "flush", "finish", "nobody"},
                          put : {"sent", "stored", "refused"}]
    <3>1. puts \in SUBSET [name : Nat, data : SUBSET Item,
                            by : {"write", "flush", "finish", "nobody"},
                            put : {"sent", "stored", "refused"}]
      BY DEF TypeOK
    <3>2. current # None =>
            Put("write") \in [name : Nat, data : SUBSET Item,
                              by : {"write", "flush", "finish", "nobody"},
                              put : {"sent", "stored", "refused"}]
      BY DEF TypeOK, Put
    <3> QED BY <2>1, <3>1, <3>2
  <2>5. TypeOK'
    BY <1>1, <1>2, <1>3, <2>3, <2>4 DEF TypeOK
  <2> QED BY <1>3, <2>2, <2>5 DEF FilesOK
<1> QED BY <1>4, <1>5

\* A number is skipped.
LEMMA SkipStep ==
  ASSUME IInv, NEW n \in Seq0, Skip(n), marks' = marks \cup {watermarkNext' - 1}
  PROVE  IInv'
<1> USE DEF IInv
<1>1. /\ UNCHANGED <<phase, committed, nextIndex, current, puts, dest, seen, saved, manifests, resumes>>
      /\ n \notin given /\ given' = given \cup {n} /\ skipped' = skipped \cup {n} /\ SinkSkip(n)
  BY DEF Skip, SinkSkip
<1>2. /\ LedgerOK' /\ MarksOK'
      /\ contiguousNext' \in 0 .. N /\ watermarkNext' \in 0 .. N
      /\ openRanges' \subseteq committed' /\ marks' \subseteq -1 .. N - 1
      /\ done' \subseteq Seq0
      /\ Counted' \subseteq Counted \cup {n}
  BY <1>1, SkipKeeps
<1>3. FilesOK'
  BY <1>1, <1>2, SkippedKeeps DEF FilesOK
<1>4. TypeOK'
  BY <1>1, <1>2 DEF TypeOK
<1> QED BY <1>2, <1>3, <1>4 DEF FilesOK

\* A file the store has is recorded, by a write, a flush or finish.
LEMMA CommitStep ==
  ASSUME IInv, NEW p \in puts, p.put = "stored", CommitFile(p.name, p.data), puts' = puts \ {p},
         phase' \in {"open", "failed", "finished"},
         UNCHANGED <<nextIndex, current, dest, checkpointVars>>,
         marks' = marks \cup {watermarkNext' - 1}
  PROVE  IInv'
<1> USE DEF IInv
<1>1. UNCHANGED <<given, skipped, seen, saved, manifests, resumes>>
  BY DEF checkpointVars
<1>2. /\ LedgerOK' /\ MarksOK'
      /\ contiguousNext' \in 0 .. N /\ watermarkNext' \in 0 .. N
      /\ openRanges' \subseteq committed' /\ marks' \subseteq -1 .. N - 1
      /\ done' \subseteq Seq0
      /\ Counted' \subseteq Counted \cup Seqs(p.data)
      /\ committed' = committed \cup {[name |-> p.name, seqs |-> Seqs(p.data)]}
  BY <1>1, CommitKeeps
<1>3. FilesOK'
  BY <1>1, <1>2, RecordKeeps DEF FilesOK
<1>4. committed' \in SUBSET [name : Nat, seqs : SUBSET Seq0]
  <2>1. p.name \in Nat /\ p.data \in SUBSET Item
    BY DEF TypeOK
  <2>2. Seqs(p.data) \in SUBSET Seq0
    BY <2>1, SeqsFacts
  <2>3. committed \in SUBSET [name : Nat, seqs : SUBSET Seq0]
    BY DEF TypeOK
  <2>4. [name |-> p.name, seqs |-> Seqs(p.data)] \in [name : Nat, seqs : SUBSET Seq0]
    BY <2>1, <2>2
  <2> QED BY <1>2, <2>3, <2>4
<1>5. puts' \in SUBSET [name : Nat, data : SUBSET Item,
                        by : {"write", "flush", "finish", "nobody"},
                        put : {"sent", "stored", "refused"}]
  BY DEF TypeOK
<1>6. TypeOK'
  BY <1>1, <1>2, <1>4, <1>5 DEF TypeOK
<1> QED BY <1>2, <1>3, <1>6 DEF FilesOK

\* A step that counts nothing and only moves files.
LEMMA FileStep ==
  ASSUME IInv, Counted' = Counted => FilesOK',
         UNCHANGED <<committed, done, contiguousNext, openRanges, watermarkNext, checkpointVars>>,
         phase' \in {"open", "failed", "finished"}, nextIndex' \in Nat,
         current' \in [name : Nat, data : SUBSET Item] \cup {None},
         puts' \in SUBSET [name : Nat, data : SUBSET Item,
                           by : {"write", "flush", "finish", "nobody"},
                           put : {"sent", "stored", "refused"}],
         dest' \in SUBSET [name : Nat, data : SUBSET Item],
         marks' = marks \cup {watermarkNext' - 1}
  PROVE  IInv'
<1> USE DEF IInv
<1>1. UNCHANGED <<given, skipped, seen, saved, manifests, resumes>>
  BY DEF checkpointVars
<1>2. LedgerOK' /\ MarksOK' /\ Counted' = Counted /\ marks' \subseteq -1 .. N - 1
  BY <1>1, LedgerFrame
<1>3. TypeOK'
  BY <1>1, <1>2 DEF TypeOK
<1> QED BY <1>2, <1>3 DEF FilesOK

\* The store answers, or an answer is taken up.
LEMMA StoreKeeps ==
  ASSUME IInv, StoreStep, marks' = marks \cup {watermarkNext' - 1}
  PROVE  IInv'
<1> USE DEF IInv
<1>1. PICK p \in puts : PutLands(p) \/ PutFails(p) \/ Commit(p) \/ PutRefused(p)
  BY DEF StoreStep
<1>2. UNCHANGED checkpointVars
  BY DEF StoreStep
<1>3. UNCHANGED <<given, skipped, saved>>
  BY <1>2 DEF checkpointVars
<1>4. p \in [name : Nat, data : SUBSET Item, by : {"write", "flush", "finish", "nobody"},
             put : {"sent", "stored", "refused"}]
  BY DEF TypeOK
<1>5. CASE PutLands(p)
  <2>1. PICK r : /\ r = [p EXCEPT !.put = "stored"]
                 /\ r.name = p.name /\ r.data = p.data /\ r.by = p.by /\ r.put = "stored"
    <3> DEFINE e == [p EXCEPT !.put = "stored"]
    <3>1. e.name = p.name /\ e.data = p.data /\ e.by = p.by /\ e.put = "stored"
      BY <1>4
    <3> HIDE DEF e
    <3> QED BY <3>1 DEF e
  <2>2. /\ puts' = (puts \ {p}) \cup {r} /\ p.put = "sent"
        /\ dest' = dest \cup {[name |-> p.name, data |-> p.data]}
        /\ UNCHANGED <<phase, committed, nextIndex, done, contiguousNext, openRanges, watermarkNext, current>>
    BY <1>5, <2>1 DEF PutLands, ledgerVars
  <2>3. Counted' = Counted => FilesOK'
    BY <1>3, <2>1, <2>2, AnswerKeeps DEF FilesOK
  <2>4. puts' \in SUBSET [name : Nat, data : SUBSET Item,
                          by : {"write", "flush", "finish", "nobody"},
                          put : {"sent", "stored", "refused"}]
    BY <1>4, <2>1, <2>2 DEF TypeOK
  <2>5. dest' \in SUBSET [name : Nat, data : SUBSET Item]
    <3>1. dest \in SUBSET [name : Nat, data : SUBSET Item]
      BY DEF TypeOK
    <3>2. [name |-> p.name, data |-> p.data] \in [name : Nat, data : SUBSET Item]
      BY <1>4
    <3> QED BY <2>2, <3>1, <3>2
  <2> QED BY <1>2, <2>2, <2>3, <2>4, <2>5, FileStep DEF TypeOK
<1>6. CASE PutFails(p)
  <2>1. PICK r : /\ r = [p EXCEPT !.put = "refused"]
                 /\ r.name = p.name /\ r.data = p.data /\ r.by = p.by /\ r.put = "refused"
    <3> DEFINE e == [p EXCEPT !.put = "refused"]
    <3>1. e.name = p.name /\ e.data = p.data /\ e.by = p.by /\ e.put = "refused"
      BY <1>4
    <3> HIDE DEF e
    <3> QED BY <3>1 DEF e
  <2>2. /\ puts' = (puts \ {p}) \cup {r} /\ p.put = "sent"
        /\ UNCHANGED <<phase, committed, nextIndex, done, contiguousNext, openRanges, watermarkNext, current, dest>>
    BY <1>6, <2>1 DEF PutFails, ledgerVars
  <2>3. Counted' = Counted => FilesOK'
    BY <1>3, <2>1, <2>2, AnswerKeeps DEF FilesOK
  <2>4. puts' \in SUBSET [name : Nat, data : SUBSET Item,
                          by : {"write", "flush", "finish", "nobody"},
                          put : {"sent", "stored", "refused"}]
    BY <1>4, <2>1, <2>2 DEF TypeOK
  <2> QED BY <1>2, <2>2, <2>3, <2>4, FileStep DEF TypeOK
<1>7. CASE Commit(p)
  BY <1>2, <1>7, CommitStep DEF Commit, TypeOK
<1>8. CASE PutRefused(p)
  <2>1. /\ puts' \subseteq puts /\ current' \in {current, None} /\ phase' \in {phase, "failed"}
        /\ UNCHANGED <<committed, nextIndex, done, contiguousNext, openRanges, watermarkNext, dest>>
    BY <1>8 DEF PutRefused, ledgerVars
  <2>2. Counted' = Counted => FilesOK'
    BY <1>3, <2>1, DropKeeps DEF FilesOK
  <2> QED BY <1>2, <2>1, <2>2, FileStep DEF TypeOK
<1> QED BY <1>1, <1>5, <1>6, <1>7, <1>8

\* A file is given up or handed to the store: a failed write, a flush, finish.
LEMMA CloseKeeps ==
  ASSUME IInv, WriteFails \/ FlushStep \/ FinishStep, marks' = marks \cup {watermarkNext' - 1}
  PROVE  IInv'
<1> USE DEF IInv
<1>1. UNCHANGED checkpointVars
  BY DEF WriteFails, FlushStep, FinishStep
<1>2. UNCHANGED <<given, skipped, saved>>
  BY <1>1 DEF checkpointVars
<1> DEFINE Same == UNCHANGED <<committed, done, contiguousNext, openRanges, watermarkNext, dest>>
           Puts == [name : Nat, data : SUBSET Item, by : {"write", "flush", "finish", "nobody"},
                    put : {"sent", "stored", "refused"}]
<1>3. ASSUME Same, nextIndex' = nextIndex, phase' \in {"open", "failed", "finished"},
             current' \in {current, None}, puts' \subseteq puts
      PROVE  IInv'
  <2>1. Counted' = Counted => FilesOK'
    BY <1>2, <1>3, DropKeeps DEF FilesOK
  <2> QED BY <1>1, <1>3, <2>1, FileStep DEF TypeOK
<1>4. ASSUME Same, nextIndex' = nextIndex, phase' \in {"open", "failed", "finished"},
             current # None, current' = None,
             NEW by \in {"flush", "finish", "nobody"}, puts' = puts \cup {Put(by)}
      PROVE  IInv'
  <2>1. Counted' = Counted => FilesOK'
    BY <1>2, <1>4, RollKeeps DEF FilesOK
  <2>2. Put(by) \in Puts
    BY <1>4 DEF Put, TypeOK
  <2> QED BY <1>1, <1>4, <2>1, <2>2, FileStep DEF TypeOK
<1>5. ASSUME Same, nextIndex' = nextIndex + 1, phase' = phase, current' = None,
             puts' = puts \cup {[name |-> nextIndex, data |-> {}, by |-> "finish", put |-> "sent"]}
      PROVE  IInv'
  <2>1. PICK r : /\ r = [name |-> nextIndex, data |-> {}, by |-> "finish", put |-> "sent"]
                 /\ r.name = nextIndex /\ r.data = {} /\ r.put = "sent" /\ r \in Puts
    <3> DEFINE e == [name |-> nextIndex, data |-> {}, by |-> "finish", put |-> "sent"]
    <3>1. e.name = nextIndex /\ e.data = {} /\ e.put = "sent" /\ e \in Puts
      BY DEF TypeOK
    <3> QED BY <3>1
  <2>2. Counted' = Counted => FilesOK'
    BY <1>2, <1>5, <2>1, EmptyKeeps DEF FilesOK
  <2>3. /\ phase \in {"open", "failed", "finished"} /\ nextIndex \in Nat /\ puts \in SUBSET Puts
        /\ dest \in SUBSET [name : Nat, data : SUBSET Item]
    BY DEF TypeOK
  <2>4. puts' \in SUBSET Puts /\ nextIndex' \in Nat
    <3>1. puts' = puts \cup {r} /\ nextIndex' = nextIndex + 1
      BY <1>5, <2>1
    <3> HIDE DEF Puts
    <3> QED BY <2>1, <2>3, <3>1
  <2> QED BY <1>1, <1>5, <2>2, <2>3, <2>4, FileStep
<1>6. CASE WriteFails
  BY <1>3, <1>4, <1>6 DEF WriteFails, EncodeFails, ledgerVars
<1>7. CASE FlushStep
  BY <1>3, <1>4, <1>7 DEF FlushStep, Flush, FlushFails, ledgerVars, TypeOK
<1>8. CASE FinishStep
  <2>1. CASE FinishRoll
    BY <1>4, <1>5, <2>1 DEF FinishRoll, TypeOK
  <2>2. CASE FinishFails
    BY <1>3, <2>2 DEF FinishFails, ledgerVars, TypeOK
  <2>3. ASSUME NEW marked \in BOOLEAN, FinishClosed(marked) PROVE IInv'
    BY <1>3, <2>3 DEF FinishClosed, ledgerVars
  <2>4. ASSUME NEW marked \in BOOLEAN, NEW p \in puts, FinishCommit(p, marked) PROVE IInv'
    BY <1>1, <2>4, CommitStep DEF FinishCommit
  <2> QED BY <1>8, <2>1, <2>2, <2>3, <2>4 DEF FinishStep
<1> QED BY <1>6, <1>7, <1>8

-----------------------------------------------------------------------------
\* A new sink and an empty store.
LEMMA InitKeeps == Init => IInv
<1> SUFFICES ASSUME Init PROVE IInv
  OBVIOUS
<1> USE DEF Init, SinkInit
<1>1. TypeOK
  <2>1. marks = {-1} /\ N \in Nat /\ 0 \in 0 .. N /\ -1 \in -1 .. N - 1
    BY DEF CommittedSeq
  <2>2. marks \subseteq -1 .. N - 1
    BY <2>1
  <2> QED BY <2>1, <2>2 DEF TypeOK
<1>2. Counted = {} /\ Open = {} /\ marks = {-1}
  BY DEF Counted, Open, CommittedSeq
<1>3. LedgerOK
  <2>1. Held(0, 0, {})
    BY DEF Held
  <2>2. NeverClamped
    BY <2>1, HeldBackIs DEF NeverClamped
  <2>3. watermarkNext = 0 /\ contiguousNext = 0 /\ committed = {}
    OBVIOUS
  <2> QED BY <2>2, <2>3 DEF LedgerOK
<1>4. MarksOK
  BY <1>2 DEF MarksOK
<1>5. Apart /\ SettledOK /\ ManifestKeepsOutput /\ NamesOK /\ StoreOK
  BY <1>2 DEF Apart, SettledOK, ManifestKeepsOutput, NamesOK, StoreOK
<1> QED BY <1>1, <1>3, <1>4, <1>5 DEF IInv

\* Every step of the sink, of its callers and of the store, and a resume.
LEMMA StepKeeps == IInv /\ [Next]_scVars => IInv'
<1> SUFFICES ASSUME IInv, [Next]_scVars PROVE IInv'
  OBVIOUS
<1> USE DEF IInv
<1>1. CASE UNCHANGED scVars
  <2>1. UNCHANGED <<phase, committed, nextIndex, done, contiguousNext, openRanges, watermarkNext,
                    current, puts, dest, given, skipped, marks, seen, saved, manifests, resumes>>
    BY <1>1 DEF scVars, sinkVars, ledgerVars, checkpointVars
  <2>2. TypeOK'
    BY <2>1 DEF TypeOK
  <2>3. LedgerOK'
    BY <2>1 DEF LedgerOK, NeverClamped
  <2>4. MarksOK'
    BY <2>1 DEF MarksOK
  <2>5. Apart' /\ SettledOK'
    BY <2>1, Zenon DEF Apart, Counted, Open, SettledOK, Settled
  <2>6. ManifestKeepsOutput'
    BY <2>1, Zenon DEF ManifestKeepsOutput, Settled
  <2>7. NamesOK' /\ StoreOK'
    BY <2>1, Zenon DEF NamesOK, StoreOK, Open
  <2> QED BY <2>2, <2>3, <2>4, <2>5, <2>6, <2>7
<1>2. CASE Resume
  BY <1>2, ResumeKeeps
<1>3. CASE LifeStep /\ marks' = marks \cup {watermarkNext' - 1}
  <2>1. ASSUME NEW i \in Item, Write(i, TRUE) \/ Write(i, FALSE) PROVE IInv'
    BY <1>3, <2>1, WriteKeeps
  <2>2. ASSUME NEW n \in Seq0, Skip(n) PROVE IInv'
    BY <1>3, <2>2, SkipStep
  <2>3. CASE WriteFails \/ FlushStep \/ FinishStep
    BY <1>3, <2>3, CloseKeeps
  <2>4. CASE StoreStep
    BY <1>3, <2>4, StoreKeeps
  <2>5. CASE ReadWatermark
    <3>1. /\ UNCHANGED <<phase, committed, nextIndex, done, contiguousNext, openRanges, watermarkNext,
                         current, puts, dest, given, skipped, saved, manifests, resumes>>
          /\ \E w \in marks : seen' = [watermark |-> w]
      BY <2>5 DEF ReadWatermark, sinkVars, ledgerVars
    <3>2. LedgerOK' /\ MarksOK' /\ Counted' = Counted /\ marks' \subseteq -1 .. N - 1
      BY <1>3, <3>1, LedgerFrame
    <3>3. FilesOK'
      BY <3>1, <3>2, DropKeeps DEF FilesOK
    <3>4. seen' \in [watermark : -1 .. N - 1]
      <4>1. marks \subseteq -1 .. N - 1
        BY DEF TypeOK
      <4>2. PICK w \in marks : seen' = [watermark |-> w]
        BY <3>1
      <4> QED BY <4>1, <4>2
    <3>5. TypeOK'
      BY <3>1, <3>2, <3>4 DEF TypeOK
    <3> QED BY <3>2, <3>3, <3>5 DEF FilesOK
  <2>6. CASE ReadState
    <3>1. /\ UNCHANGED <<phase, committed, nextIndex, done, contiguousNext, openRanges, watermarkNext,
                         current, puts, dest, given, skipped, resumes>>
          /\ seen' = None /\ manifests' = manifests + 1
      BY <2>6 DEF ReadState, sinkVars, ledgerVars
    <3>2. LedgerOK' /\ MarksOK' /\ Counted' = Counted /\ marks' \subseteq -1 .. N - 1
      BY <1>3, <3>1, LedgerFrame
    <3>3. FilesOK' /\ saved' \in [watermark : -1 .. N - 1,
             doc : [committed : SUBSET [name : Nat, seqs : SUBSET Seq0], nextIndex : Nat]]
      BY <2>6, <3>2, ReadStateKeeps DEF FilesOK
    <3>4. manifests' \in Nat
      BY <3>1 DEF TypeOK
    <3>5. TypeOK'
      BY <3>1, <3>2, <3>3, <3>4, Zenon DEF TypeOK
    <3> QED BY <3>2, <3>3, <3>5 DEF FilesOK
  <2> QED BY <1>3, <2>1, <2>2, <2>3, <2>4, <2>5, <2>6 DEF LifeStep
<1> QED BY <1>1, <1>2, <1>3 DEF Next

\* What the invariant says of the watermark and of the store.
LEMMA Promises == IInv => NeverOverstates /\ NoFileStraddles /\ WrittenOnce
<1> SUFFICES ASSUME IInv PROVE NeverOverstates /\ NoFileStraddles /\ WrittenOnce
  OBVIOUS
<1> USE DEF IInv
<1>1. watermarkNext \in 0 .. N /\ contiguousNext \in 0 .. N /\ watermarkNext <= contiguousNext
  BY DEF TypeOK, LedgerOK
<1>2. 0 .. CommittedSeq \subseteq Counted
  BY <1>1 DEF CommittedSeq, Counted
<1>3. NeverOverstates
  BY <1>2 DEF SettledOK, NeverOverstates
<1>4. watermarkNext - 1 \in marks /\ watermarkNext - 1 + 1 = watermarkNext
  BY <1>1, NumberBefore DEF MarksOK
<1>5. NoFileStraddles
  BY <1>4 DEF MarksOK, NoFileStraddles
<1>6. WrittenOnce
  <2> SUFFICES ASSUME NEW d \in dest, NEW e \in dest, NEW i \in d.data, NEW j \in e.data,
                      SeqOf[i] = SeqOf[j], d # e
               PROVE  FALSE
    BY DEF WrittenOnce
  <2>1. SeqOf[i] \in Seqs(d.data) /\ SeqOf[i] \in Seqs(e.data)
    BY DEF Seqs
  <2> QED BY <2>1 DEF StoreOK
<1> QED BY <1>3, <1>5, <1>6

-----------------------------------------------------------------------------
\* The ledger, the rolled files, the store and the manifest agree in every reachable state.
THEOREM Invariance == Spec => []IInv
BY InitKeeps, StepKeeps, PTL DEF Spec

\* Every reachable state of the sink, its ledger, the store and the manifest is well typed.
THEOREM SinkTypeCorrect == Spec => []TypeOK
<1>1. IInv => TypeOK
  BY DEF IInv
<1> QED BY <1>1, Invariance, PTL

\* committed_seq never overstates (SI-I8): whatever is written, skipped, rolled, refused, flushed and
\* resumed, and in whatever order, what lies at or below it is in the store or was skipped.
THEOREM WatermarkHolds == Spec => []NeverOverstates
BY Promises, Invariance, PTL

\* The loop of Ledger::advance holds the watermark back before every file that lies on both sides.
THEOREM WatermarkSplitsNoFile == Spec => []NoFileStraddles
BY Promises, Invariance, PTL

\* The maximum advance takes, and its debug_assert guards, never changes the watermark.
THEOREM WatermarkNeverClamped == Spec => []NeverClamped
<1>1. IInv => NeverClamped
  BY DEF IInv, LedgerOK
<1> QED BY <1>1, Invariance, PTL

\* checkpoint_now reads the watermark before the state, so Ledger::restore accepts the pair and keeps
\* everything the watermark covers, however much was committed between the two reads and since.
THEOREM ManifestHolds == Spec => []ManifestKeepsOutput
<1>1. IInv => ManifestKeepsOutput
  BY DEF IInv
<1> QED BY <1>1, Invariance, PTL

\* No number is in two files of the store, in any life of the run.
THEOREM StoreHoldsOnce == Spec => []WrittenOnce
BY Promises, Invariance, PTL
=============================================================================
