------------------------------ MODULE FileSink ------------------------------
(***************************************************************************)
(* A sink that rolls files and tracks what it has committed:               *)
(* crates/moruna-sinks/src/parquet_sink.rs and the Ledger of               *)
(* crates/moruna-sinks/src/checkpoint.rs.                                  *)
(*                                                                         *)
(* A write encodes its morsel into the open file.  When the file is full   *)
(* the write rolls it first: it hands the file to the reactor, opens the   *)
(* next one and resolves only when the rolled file is in the store; the    *)
(* ledger then records the file.  The watermark is the number below which  *)
(* everything is committed or skipped, held back so that no committed file *)
(* lies on both sides of it.  A checkpoint reads the watermark, then the   *)
(* ledger's files; a resume keeps the files at or below that watermark and *)
(* removes all others.                                                     *)
(*                                                                         *)
(* The actions say what a call does to the sink; SinkCheckpoint, SinkDrive *)
(* and RunResume are the modules whose steps make the calls.               *)
(***************************************************************************)
EXTENDS Integers, FiniteSets

CONSTANTS
  N,           \* the morsels of the run are numbered 0 .. N-1
  Item,        \* what is written: the payloads, each with its number
  SeqOf,       \* [Item -> 0 .. N-1]
  MaxResumes   \* bound: how often a behaviour resumes

ASSUME FileSinkAssumption ==
  /\ N \in Nat
  /\ SeqOf \in [Item -> 0 .. N - 1]
  /\ MaxResumes \in Nat

Seq0 == 0 .. N - 1
None == [none |-> "none"]

VARIABLES
  phase,           \* Phase: "open", "failed" or "finished"
  committed,       \* Ledger.committed: [name, seqs], a file and its numbers
  nextIndex,       \* Ledger.next_index
  done,            \* Ledger.done
  contiguousNext,  \* Ledger.contiguous_next
  openRanges,      \* Ledger.open_ranges, by the files they are the ranges of
  watermarkNext,   \* Ledger.watermark_next
  current,         \* the file being written: [name, data], or None
  puts,            \* rolled files: [name, data, by, put]
  dest             \* the store: [name, data]

ledgerVars == <<committed, nextIndex, done, contiguousNext, openRanges, watermarkNext>>
sinkVars == <<phase, ledgerVars, current, puts, dest>>

Seqs(data) == {SeqOf[i] : i \in data}
NextOf(w) == w + 1  \* the number after a committed one; no commit yet is -1

SinkInit ==
  /\ phase = "open"
  /\ committed = {}
  /\ nextIndex = 0
  /\ done = {}
  /\ contiguousNext = 0
  /\ openRanges = {}
  /\ watermarkNext = 0
  /\ current = None
  /\ puts = {}
  /\ dest = {}

-----------------------------------------------------------------------------
(* The ledger *)

\* The first number at or after c that is not in d.
ContiguousFrom(c, d) == CHOOSE n \in c .. N : n \notin d /\ \A k \in c .. n - 1 : k \in d

\* File f has a number below n and one at or above it: seq_min < n <= seq_max.
Straddles(f, n) == \E a, b \in f.seqs : a < n /\ n <= b

\* Mutant: the watermark is not held back before a file that straddles it.
HeldBackNever(c, files) == c

\* Where the loop of advance stops: it steps down from c to the start of a file
\* that straddles, until none does, which is the greatest such number.
HeldBack(c, files) ==
  CHOOSE n \in 0 .. c :
    /\ \A f \in files : ~Straddles(f, n)
    /\ \A m \in 0 .. c : (\A f \in files : ~Straddles(f, m)) => m <= n

Max2(a, b) == IF a >= b THEN a ELSE b

\* Ledger::advance, with d and files the done set and open ranges it starts from.
Advance(d, files) ==
  LET c == ContiguousFrom(contiguousNext, d)
      w == Max2(HeldBack(c, files), watermarkNext)
  IN /\ contiguousNext' = c
     /\ done' = d \ (contiguousNext .. c - 1)
     /\ watermarkNext' = w
     /\ openRanges' = {f \in files : \E b \in f.seqs : w <= b}

\* Ledger::commit: a file without a number opens no range.
CommitFile(name, data) ==
  LET f == [name |-> name, seqs |-> Seqs(data)]
  IN /\ committed' = committed \cup {f}
     /\ Advance(done \cup f.seqs, IF f.seqs = {} THEN openRanges ELSE openRanges \cup {f})

\* Ledger::skip.
SinkSkip(n) ==
  /\ IF n >= contiguousNext
       THEN Advance(done \cup {n}, openRanges)
       ELSE UNCHANGED <<contiguousNext, done, watermarkNext, openRanges>>
  /\ UNCHANGED <<phase, committed, nextIndex, current, puts, dest>>

\* Ledger::committed_seq: -1 while nothing is committed or skipped.
CommittedSeq == watermarkNext - 1

-----------------------------------------------------------------------------
(* The files *)

Put(by) == [name |-> current.name, data |-> current.data, by |-> by, put |-> "sent"]

\* write, up to its first await: encode into the open file, opening it if there
\* is none and rolling it before if it would overflow.
Encode(i, roll) ==
  /\ phase = "open"
  /\ roll => current # None /\ current.data # {}
  /\ IF current # None /\ ~roll
       THEN /\ current' = [current EXCEPT !.data = @ \cup {i}]
            /\ UNCHANGED <<nextIndex, puts>>
       ELSE /\ current' = [name |-> nextIndex, data |-> {i}]
            /\ nextIndex' = nextIndex + 1
            /\ puts' = IF roll THEN puts \cup {Put("write")} ELSE puts
  /\ UNCHANGED <<phase, committed, done, contiguousNext, openRanges, watermarkNext, dest>>

\* The encoder or the allocation of the next file fails.  If the roll had handed
\* the file over already, nobody waits for it any more.  An index the next file
\* had taken stays unused: a failed sink opens no other.
EncodeFails ==
  /\ phase = "open"
  /\ phase' = "failed"
  /\ current' = None
  /\ \/ puts' = puts
     \/ /\ current # None /\ current.data # {}
        /\ puts' = puts \cup {Put("nobody")}
  /\ UNCHANGED <<ledgerVars, dest>>

\* The store answers.
PutLands(p) ==
  /\ p \in puts /\ p.put = "sent"
  /\ puts' = (puts \ {p}) \cup {[p EXCEPT !.put = "stored"]}
  /\ dest' = dest \cup {[name |-> p.name, data |-> p.data]}
  /\ UNCHANGED <<phase, ledgerVars, current>>

PutFails(p) ==
  /\ p \in puts /\ p.put = "sent"
  /\ puts' = (puts \ {p}) \cup {[p EXCEPT !.put = "refused"]}
  /\ UNCHANGED <<phase, ledgerVars, current, dest>>

\* Mutant: the file is recorded before the store has it.
CommitEarly(p) ==
  /\ p \in puts /\ p.put \in {"sent", "stored"} /\ p.by \in {"write", "flush"}
  /\ puts' = puts \ {p}
  /\ CommitFile(p.name, p.data)
  /\ UNCHANGED <<phase, nextIndex, current, dest>>

\* The rest of write, and of the flush: the rolled file is recorded, or the sink
\* fails.  A refused file moves the sink to Failed and drops the open file.
Commit(p) ==
  /\ p \in puts /\ p.put = "stored" /\ p.by \in {"write", "flush"}
  /\ puts' = puts \ {p}
  /\ CommitFile(p.name, p.data)
  /\ UNCHANGED <<phase, nextIndex, current, dest>>

PutRefused(p) ==
  /\ p \in puts /\ p.put = "refused"
  /\ puts' = puts \ {p}
  /\ phase' = IF p.by = "nobody" THEN phase ELSE "failed"
  /\ current' = IF p.by = "nobody" THEN current ELSE None
  /\ UNCHANGED <<ledgerVars, dest>>

\* checkpoint_flush: roll the open file without opening another.
Flush ==
  /\ phase = "open"
  /\ current # None /\ current.data # {}
  /\ puts' = puts \cup {Put("flush")}
  /\ current' = None
  /\ UNCHANGED <<phase, ledgerVars, dest>>

\* The open file cannot be closed.
FlushFails ==
  /\ phase = "open"
  /\ current # None /\ current.data # {}
  /\ phase' = "failed"
  /\ current' = None
  /\ UNCHANGED <<ledgerVars, puts, dest>>

\* finish, up to the wait for the last file: a run that wrote nothing opens an
\* empty one.
FinishRoll ==
  /\ phase = "open"
  /\ \/ /\ current # None
        /\ puts' = puts \cup {Put("finish")}
        /\ nextIndex' = nextIndex
     \/ /\ current = None /\ committed = {}
        /\ puts' = puts \cup {[name |-> nextIndex, data |-> {}, by |-> "finish", put |-> "sent"]}
        /\ nextIndex' = nextIndex + 1
  /\ current' = None
  /\ UNCHANGED <<phase, committed, done, contiguousNext, openRanges, watermarkNext, dest>>

\* The last file cannot be opened or closed; the phase stays.
FinishFails ==
  /\ phase = "open"
  /\ current # None \/ committed = {}
  /\ current' = None
  /\ UNCHANGED <<phase, ledgerVars, puts, dest>>

\* finish when every file is committed and none is open.  The phase is the last
\* thing to change, and stays if the success marker cannot be written.
FinishClosed(marked) ==
  /\ phase = "open"
  /\ current = None /\ committed # {}
  /\ phase' = IF marked THEN "finished" ELSE "open"
  /\ UNCHANGED <<ledgerVars, current, puts, dest>>

\* finish, after the wait.
FinishCommit(p, marked) ==
  /\ p \in puts /\ p.put = "stored" /\ p.by = "finish"
  /\ puts' = puts \ {p}
  /\ CommitFile(p.name, p.data)
  /\ phase' = IF marked THEN "finished" ELSE "open"
  /\ UNCHANGED <<nextIndex, current, dest>>

-----------------------------------------------------------------------------
(* Checkpoint and resume *)

\* Ledger::to_bytes: what a checkpoint keeps of the sink.
Document == [committed |-> committed, nextIndex |-> nextIndex]

\* Ledger::restore: the files at or below the watermark w stay, those above it
\* go, and one that is neither refuses the resume.
Kept(doc, w) == {f \in doc.committed : w # -1 /\ \A n \in f.seqs : n <= w}
Above(doc, w) == {f \in doc.committed : w = -1 \/ (f.seqs # {} /\ \A n \in f.seqs : n > w)}
Accepts(doc, w) == doc.committed = Kept(doc, w) \cup Above(doc, w)

\* Mutant: the open ranges of the ledger are not reset.
SinkResumeStaleRanges(doc, w) ==
  /\ Accepts(doc, w)
  /\ phase' = "open"
  /\ committed' = Kept(doc, w)
  /\ nextIndex' = doc.nextIndex
  /\ done' = {}
  /\ contiguousNext' = NextOf(w)
  /\ openRanges' = openRanges
  /\ watermarkNext' = NextOf(w)
  /\ current' = None
  /\ puts' = {}
  /\ dest' = {f \in dest : \E k \in Kept(doc, w) : k.name = f.name}

\* Mutant: what the store holds besides the kept files stays.
SinkResumeKeepsAll(doc, w) ==
  /\ Accepts(doc, w)
  /\ phase' = "open"
  /\ committed' = Kept(doc, w)
  /\ nextIndex' = doc.nextIndex
  /\ done' = {}
  /\ contiguousNext' = NextOf(w)
  /\ openRanges' = {}
  /\ watermarkNext' = NextOf(w)
  /\ current' = None
  /\ puts' = {}
  /\ dest' = dest

\* Mutant: restore sets contiguous_next and leaves watermark_next at zero.
SinkResumeFromZero(doc, w) ==
  /\ Accepts(doc, w)
  /\ phase' = "open"
  /\ committed' = Kept(doc, w)
  /\ nextIndex' = doc.nextIndex
  /\ done' = {}
  /\ contiguousNext' = NextOf(w)
  /\ openRanges' = {}
  /\ watermarkNext' = 0
  /\ current' = None
  /\ puts' = {}
  /\ dest' = {f \in dest : \E k \in Kept(doc, w) : k.name = f.name}

\* resume: everything in the store that is not kept is removed.
SinkResume(doc, w) ==
  /\ Accepts(doc, w)
  /\ phase' = "open"
  /\ committed' = Kept(doc, w)
  /\ nextIndex' = doc.nextIndex
  /\ done' = {}
  /\ contiguousNext' = NextOf(w)
  /\ openRanges' = {}
  /\ watermarkNext' = NextOf(w)
  /\ current' = None
  /\ puts' = {}
  /\ dest' = {f \in dest : \E k \in Kept(doc, w) : k.name = f.name}
=============================================================================
