---------------------------- MODULE LedgerProofs ----------------------------
(***************************************************************************)
(* What the loops of the Ledger of crates/moruna-sinks/src/checkpoint.rs   *)
(* compute: the lemmas the proofs about SinkCheckpoint and RunResume share.*)
(***************************************************************************)
EXTENDS FileSink, WellFoundedInduction, TLAPS

USE ZenonT(3), SMTT(30)

\* The numbers the ledger has counted as committed or skipped.
Counted == done \cup (0 .. contiguousNext - 1)

\* A nonempty set of natural numbers has a least element.
LEMMA LeastExists ==
  ASSUME NEW S \in SUBSET Nat, S # {}
  PROVE  \E n \in S : \A k \in S : n <= k
<1>1. IsWellFoundedOn(OpToRel(<, Nat), Nat)
  BY NatLessThanWellFounded
<1>2. PICK n \in S : \A k \in S : ~(<<k, n>> \in OpToRel(<, Nat))
  BY <1>1, WFMin
<1>3. \A k \in S : ~(k < n)
  BY <1>2 DEF OpToRel
<1> QED BY <1>3

\* The loop of advance over done ends: it stops at the first number that is not there.
LEMMA ContiguousEnds ==
  ASSUME NEW c \in 0 .. N, NEW d \in SUBSET Seq0
  PROVE  /\ ContiguousFrom(c, d) \in c .. N
         /\ ContiguousFrom(c, d) \notin d
         /\ \A k \in c .. ContiguousFrom(c, d) - 1 : k \in d
<1> USE FileSinkAssumption DEF Seq0
<1> DEFINE S == {n \in c .. N : n \notin d}
<1>1. N \in S /\ S \in SUBSET Nat
  OBVIOUS
<1>2. PICK n \in S : \A k \in S : n <= k
  BY <1>1, LeastExists
<1>3. n \in c .. N /\ n \notin d /\ \A k \in c .. n - 1 : k \in d
  BY <1>2
<1> QED BY <1>3 DEF ContiguousFrom

\* What HeldBack is: the greatest number up to c that no file straddles.
Held(n, c, files) ==
  /\ n \in 0 .. c
  /\ \A f \in files : ~Straddles(f, n)
  /\ \A m \in 0 .. c : (\A f \in files : ~Straddles(f, m)) => m <= n

\* The other loop of advance ends: zero at the latest is straddled by nothing.
LEMMA HeldBackEnds ==
  ASSUME NEW c \in Nat, NEW files, \A f \in files : f.seqs \subseteq Nat
  PROVE  Held(HeldBack(c, files), c, files)
<1> DEFINE Free(n) == \A f \in files : ~Straddles(f, n)
<1> DEFINE S == {k \in 0 .. c : Free(c - k)}
<1>1. Free(0)
  BY DEF Straddles
<1>2. c \in S /\ S \in SUBSET Nat
  BY <1>1
<1>3. PICK k \in S : \A j \in S : k <= j
  BY <1>2, LeastExists
<1>4. c - k \in 0 .. c /\ Free(c - k)
  OBVIOUS
<1>5. ASSUME NEW m \in 0 .. c, Free(m) PROVE m <= c - k
  <2>1. c - m \in 0 .. c /\ c - (c - m) = m
    OBVIOUS
  <2>2. c - m \in S
    BY <1>5, <2>1
  <2>3. k <= c - m /\ k \in 0 .. c
    BY <1>3, <2>2
  <2> QED BY <2>3
<1> HIDE DEF S
<1>6. \E n \in 0 .. c : Free(n) /\ \A m \in 0 .. c : Free(m) => m <= n
  BY <1>4, <1>5
<1> QED BY <1>6 DEF HeldBack, Held

\* There is one such number.
LEMMA HeldBackIs ==
  ASSUME NEW c \in Nat, NEW files, NEW n, Held(n, c, files)
  PROVE  HeldBack(c, files) = n
BY DEF HeldBack, Held

USE FileSinkAssumption

\* The numbers of a file's morsels.
LEMMA SeqsFacts ==
  /\ Seqs({}) = {}
  /\ \A i \in Item : Seqs({i}) = {SeqOf[i]} /\ SeqOf[i] \in Seq0
  /\ \A data \in SUBSET Item : Seqs(data) \in SUBSET Seq0
  /\ \A data \in SUBSET Item : \A i \in Item : Seqs(data \cup {i}) = Seqs(data) \cup {SeqOf[i]}
BY DEF Seqs, Seq0

\* The number before a watermark.
LEMMA NumberBefore ==
  \A w \in 0 .. N : w - 1 \in -1 .. N - 1 /\ w - 1 < w /\ w - 1 + 1 = w
OBVIOUS

\* Ledger::advance, from any watermark: the contiguous number and the watermark only rise.
LEMMA AdvanceRange ==
  ASSUME contiguousNext \in 0 .. N, watermarkNext \in 0 .. contiguousNext,
         NEW d \in SUBSET Seq0, NEW files, \A f \in files : f.seqs \subseteq Seq0,
         Advance(d, files)
  PROVE  /\ contiguousNext' \in contiguousNext .. N
         /\ watermarkNext' \in watermarkNext .. contiguousNext'
         /\ done' \subseteq d
         /\ openRanges' \subseteq files
         /\ Counted' \subseteq d \cup (0 .. contiguousNext - 1)
<1> DEFINE c == ContiguousFrom(contiguousNext, d)
           h == HeldBack(c, files)
<1>1. c \in contiguousNext .. N /\ \A k \in contiguousNext .. c - 1 : k \in d
  BY ContiguousEnds
<1>2. Held(h, c, files)
  BY <1>1, HeldBackEnds DEF Seq0
<1>3. /\ contiguousNext' = c
      /\ done' = d \ (contiguousNext .. c - 1)
      /\ watermarkNext' = Max2(h, watermarkNext)
      /\ openRanges' = {f \in files : \E b \in f.seqs : watermarkNext' <= b}
  BY DEF Advance
<1> HIDE DEF c, h
<1>4. h \in 0 .. c
  BY <1>2 DEF Held
<1>5. watermarkNext' \in watermarkNext .. contiguousNext'
  BY <1>1, <1>3, <1>4 DEF Max2
<1>6. Counted' \subseteq d \cup (0 .. contiguousNext - 1)
  BY <1>1, <1>3 DEF Counted
<1> QED BY <1>1, <1>3, <1>5, <1>6

\* Ledger::advance, from a watermark no open range straddles.
LEMMA AdvanceLedger ==
  ASSUME contiguousNext \in 0 .. N, watermarkNext \in 0 .. contiguousNext,
         NEW d \in SUBSET Seq0, NEW files,
         \A f \in files : f.seqs \subseteq Seq0 /\ ~Straddles(f, watermarkNext),
         Advance(d, files)
  PROVE  /\ contiguousNext' \in contiguousNext .. N
         /\ watermarkNext' \in watermarkNext .. contiguousNext'
         /\ done' \subseteq d
         /\ Counted' \subseteq d \cup (0 .. contiguousNext - 1)
         /\ openRanges' \subseteq files
         /\ \A f \in files : ~Straddles(f, watermarkNext')
         /\ \A f \in files \ openRanges' : \A b \in f.seqs : b < watermarkNext'
         /\ Held(watermarkNext', contiguousNext', openRanges')
<1> DEFINE c == ContiguousFrom(contiguousNext, d)
           h == HeldBack(c, files)
<1>1. c \in contiguousNext .. N /\ \A k \in contiguousNext .. c - 1 : k \in d
  BY ContiguousEnds
<1>2. Held(h, c, files)
  BY <1>1, HeldBackEnds DEF Seq0
<1>3. /\ contiguousNext' = c
      /\ done' = d \ (contiguousNext .. c - 1)
      /\ watermarkNext' = Max2(h, watermarkNext)
      /\ openRanges' = {f \in files : \E b \in f.seqs : watermarkNext' <= b}
  BY DEF Advance
<1> HIDE DEF c, h
<1>4. watermarkNext <= h /\ h \in 0 .. c
  BY <1>1, <1>2 DEF Held
<1>5. watermarkNext' = h
  BY <1>3, <1>4 DEF Max2
<1>6. \A f \in files : ~Straddles(f, h)
  BY <1>2 DEF Held
<1>7. \A f \in files \ openRanges' : \A b \in f.seqs : b < h
  BY <1>3, <1>4, <1>5 DEF Seq0
<1>8. Held(h, c, openRanges')
  <2>1. ASSUME NEW m \in 0 .. c, \A f \in openRanges' : ~Straddles(f, m), m > h PROVE FALSE
    <3>1. ASSUME NEW f \in files PROVE ~Straddles(f, m)
      <4>1. CASE f \in openRanges'
        BY <2>1, <4>1
      <4>2. CASE f \notin openRanges'
        BY <1>4, <1>7, <2>1, <4>2 DEF Straddles, Seq0
      <4> QED BY <4>1, <4>2
    <3> QED BY <1>2, <1>4, <2>1, <3>1 DEF Held
  <2>2. openRanges' \subseteq files
    BY <1>3
  <2> QED BY <1>2, <1>4, <1>6, <2>1, <2>2 DEF Held
<1>9. Held(watermarkNext', contiguousNext', openRanges')
  BY <1>3, <1>5, <1>8
<1>10. Counted' \subseteq d \cup (0 .. contiguousNext - 1)
  BY <1>1, <1>3 DEF Counted
<1> QED BY <1>1, <1>3, <1>4, <1>5, <1>6, <1>7, <1>9, <1>10
=============================================================================
