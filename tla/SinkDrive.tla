----------------------------- MODULE SinkDrive -----------------------------
(***************************************************************************)
(* The sink drive of crates/moruna-scheduler/src/sink_drive.rs over the    *)
(* file sink, with or without the reorder buffer of                        *)
(* crates/moruna-sinks/src/reorder.rs between them.                        *)
(*                                                                         *)
(* Stages push morsels to the drive's queue in any order, and workers tell *)
(* the sink of the numbers that will not come.  The drive pops, keeps the  *)
(* write futures and polls them.  An ordered handle holds a write until    *)
(* its number is the expected one.  The steps of the sink itself are those *)
(* of SinkCheckpoint, and the drive implements it: the variables of the    *)
(* sink and of the checkpoint are shared.                                  *)
(***************************************************************************)
EXTENDS SinkCheckpoint, Sequences

CONSTANTS
  Concurrency,   \* sink_concurrency: open writes of a plain handle
  BufferBytes    \* buffer_bytes of the reorder buffer; every morsel has one byte

\* Every number is given to one morsel.
ASSUME SinkDriveAssumption ==
  /\ Concurrency \in Nat \ {0}
  /\ BufferBytes \in Nat
  /\ \A i, j \in Item : SeqOf[i] = SeqOf[j] => i = j
  /\ \A n \in Seq0 : \E i \in Item : SeqOf[i] = n

VARIABLES
  ordered,    \* whether the handle is a ReorderBuffer
  coming,     \* the morsels the stages still have
  queue,      \* the sink's queue
  write,      \* [Item -> where its write future is]
  file,       \* [Item -> the rolled file its inner write waits for, or -1]
  expected,   \* State.next_expected
  ahead,      \* State.skipped_ahead
  stalled,    \* State.stalled
  cancelled,  \* State.cancelled
  skipping,   \* numbers skipped in the inner sink and not yet in the buffer
  floor,      \* SinkEnd.floor: the watermark this life was resumed at, or -1
  barrier,    \* whether a portable checkpoint has its barrier
  exit        \* "none", "ending" (terminate or cancel), "finishing", "over"

bufferVars == <<expected, ahead, stalled, cancelled>>
driveVars == <<ordered, coming, queue, write, file, bufferVars, skipping, floor, barrier, exit>>
allVars == <<scVars, driveVars>>

DriveInit ==
  /\ Init
  /\ ordered \in BOOLEAN
  /\ coming = Item
  /\ queue = <<>>
  /\ write = [i \in Item |-> "none"]
  /\ file = [i \in Item |-> -1]
  /\ expected = 0
  /\ ahead = {}
  /\ stalled = FALSE
  /\ cancelled = FALSE
  /\ skipping = {}
  /\ floor = -1
  /\ barrier = FALSE
  /\ exit = "none"

InFlight == {i \in Item : write[i] # "none"}

\* State.held with write futures w; a cancelled buffer has dropped every payload.
Queued(w) == {i \in Item : w[i] = "turn" /\ ~cancelled}
HeldBytes(w) == Cardinality(Queued(w))

\* Every step leaves the checkpoint's own variables alone but records the mark.
Mark == marks' = marks \cup {watermarkNext' - 1}
SinkIdle == UNCHANGED <<sinkVars, given, skipped, marks>>
CheckpointIdle == UNCHANGED <<seen, saved, manifests, resumes>>

-----------------------------------------------------------------------------
(* The reorder buffer *)

\* State::advance: over the numbers skipped ahead, unless their payload is held.
NextTurn(e, held, a) ==
  CHOOSE n \in e .. N :
    /\ n \in held \/ n \notin a
    /\ \A k \in e .. n - 1 : k \in a \ held

\* Advance from e with the write futures w and the numbers a skipped ahead.
AdvanceTurn(e, w, a) ==
  LET n == NextTurn(e, Seqs(Queued(w)), a)
  IN expected' = n /\ ahead' = {k \in a : k >= n}

\* State::relax.
Relaxed(w) == stalled /\ 2 * HeldBytes(w) > BufferBytes

\* The end of ReorderBuffer::write: the turn passes on, failed or not.
PassTurn(n, w) ==
  IF ordered
    THEN /\ AdvanceTurn(n + 1, w, ahead)
         /\ stalled' = Relaxed(w)
         /\ UNCHANGED cancelled
    ELSE UNCHANGED bufferVars

-----------------------------------------------------------------------------
(* The stages *)

\* Nothing is popped once the run is ending, so a push after that is left out.
Push(i) ==
  /\ i \in coming /\ ~barrier /\ exit = "none"
  /\ coming' = coming \ {i}
  /\ queue' = Append(queue, i)
  /\ SinkIdle /\ CheckpointIdle
  /\ UNCHANGED <<ordered, write, file, bufferVars, skipping, floor, barrier, exit>>

\* apply_policy drops a morsel: the inner sink's skip, ...
SkipInner(i) ==
  /\ i \in coming /\ ~barrier /\ exit # "over"
  /\ coming' = coming \ {i}
  /\ given' = given \cup {SeqOf[i]}
  /\ skipped' = skipped \cup ({SeqOf[i]} \ given)
  /\ SinkSkip(SeqOf[i]) /\ Mark
  /\ skipping' = IF ordered THEN skipping \cup {SeqOf[i]} ELSE skipping
  /\ CheckpointIdle
  /\ UNCHANGED <<ordered, queue, write, file, bufferVars, floor, barrier, exit>>

\* Mutant: a skip ahead of the turn moves the turn to it.
SkipTurnJumps(n) ==
  /\ n \in skipping
  /\ skipping' = skipping \ {n}
  /\ IF n < expected
       THEN UNCHANGED <<expected, ahead>>
       ELSE AdvanceTurn(n + 1, write, ahead)
  /\ SinkIdle /\ CheckpointIdle
  /\ UNCHANGED <<ordered, coming, queue, write, file, stalled, cancelled, floor, barrier, exit>>

\* ... and the buffer's, under its lock.
SkipTurn(n) ==
  /\ n \in skipping
  /\ skipping' = skipping \ {n}
  /\ IF n < expected
       THEN UNCHANGED <<expected, ahead>>
       ELSE IF n = expected /\ n \notin Seqs(Queued(write))
         THEN AdvanceTurn(n + 1, write, ahead)
         ELSE AdvanceTurn(expected, write, ahead \cup {n})
  /\ SinkIdle /\ CheckpointIdle
  /\ UNCHANGED <<ordered, coming, queue, write, file, stalled, cancelled, floor, barrier, exit>>

\* terminate or cancel, from any thread, unless the exit is claimed already.
End ==
  /\ exit = "none"
  /\ exit' = "ending"
  /\ SinkIdle /\ CheckpointIdle
  /\ UNCHANGED <<ordered, coming, queue, write, file, bufferVars, skipping, floor, barrier>>

-----------------------------------------------------------------------------
(* The drive *)

\* A held write does not count against the concurrency of an ordered handle.
Room == Cardinality(InFlight) < Concurrency \/ (ordered /\ ~stalled)

\* Pop: the loop has polled every write since the last pop.  What a resumed sink
\* had committed before is dropped.
Pop ==
  /\ exit = "none" /\ ~barrier /\ Room /\ queue # <<>>
  /\ \A i \in Item : write[i] # "new"
  /\ queue' = Tail(queue)
  /\ write' = IF SeqOf[Head(queue)] <= floor THEN write
              ELSE [write EXCEPT ![Head(queue)] = "new"]
  /\ SinkIdle /\ CheckpointIdle
  /\ UNCHANGED <<ordered, coming, file, bufferVars, skipping, floor, barrier, exit>>

\* ReorderBuffer::admit accepts the number.
InRange(i) ==
  /\ SeqOf[i] >= expected
  /\ SeqOf[i] \notin ahead
  /\ SeqOf[i] \notin Seqs(Queued(write))

\* A write is polled before its turn: admitted and held.
Admit(i) ==
  /\ write[i] = "new" /\ ordered /\ ~cancelled
  /\ InRange(i) /\ SeqOf[i] # expected
  /\ write' = [write EXCEPT ![i] = "turn"]
  /\ stalled' = (stalled \/ HeldBytes(write') > BufferBytes)
  /\ AdvanceTurn(expected, write', ahead)
  /\ SinkIdle /\ CheckpointIdle
  /\ UNCHANGED <<ordered, coming, queue, file, cancelled, skipping, floor, barrier, exit>>

\* terminate from poll_writes.
Terminated == exit' = IF exit = "none" THEN "ending" ELSE exit

\* A write is refused or cancelled.
Refuse(i) ==
  /\ ordered
  /\ \/ write[i] = "new" /\ (cancelled \/ ~InRange(i))
     \/ write[i] = "turn" /\ cancelled
  /\ write' = [write EXCEPT ![i] = "none"]
  /\ Terminated
  /\ SinkIdle /\ CheckpointIdle
  /\ UNCHANGED <<ordered, coming, queue, file, bufferVars, skipping, floor, barrier>>

\* Mutant: any held write has the turn once the buffer is over its bound.
HasTurnStalled(i) ==
  \/ write[i] = "new" /\ ~ordered
  \/ write[i] = "new" /\ ordered /\ ~cancelled /\ InRange(i) /\ SeqOf[i] = expected
  \/ write[i] = "turn" /\ ~cancelled /\ (stalled \/ SeqOf[i] = expected)

\* The future of i is polled into the inner sink's write.
HasTurn(i) ==
  \/ write[i] = "new" /\ ~ordered
  \/ write[i] = "new" /\ ordered /\ ~cancelled /\ InRange(i) /\ SeqOf[i] = expected
  \/ write[i] = "turn" /\ ~cancelled /\ SeqOf[i] = expected

\* The inner write encodes and resolves at once, ...
WriteThrough(i) ==
  /\ HasTurn(i)
  /\ Encode(i, FALSE) /\ given' = given \cup {SeqOf[i]} /\ Mark
  /\ write' = [write EXCEPT ![i] = "none"]
  /\ PassTurn(SeqOf[i], write')
  /\ CheckpointIdle
  /\ UNCHANGED <<skipped, ordered, coming, queue, file, skipping, floor, barrier, exit>>

\* ... or rolls the file and waits for the store, ...
WriteRolls(i) ==
  /\ HasTurn(i)
  /\ Encode(i, TRUE) /\ given' = given \cup {SeqOf[i]} /\ Mark
  /\ write' = [write EXCEPT ![i] = "inner"]
  /\ file' = [file EXCEPT ![i] = current.name]
  /\ stalled' = (ordered /\ Relaxed(write'))
  /\ CheckpointIdle
  /\ UNCHANGED <<skipped, ordered, coming, queue, expected, ahead, cancelled,
                 skipping, floor, barrier, exit>>

\* ... or fails, or is refused: the sink has failed, or the payload does not fit it.
WriteInnerFails(i) ==
  /\ HasTurn(i)
  /\ EncodeFails \/ UNCHANGED sinkVars
  /\ write' = [write EXCEPT ![i] = "none"]
  /\ PassTurn(SeqOf[i], write')
  /\ Terminated /\ Mark
  /\ CheckpointIdle
  /\ UNCHANGED <<given, skipped, ordered, coming, queue, file, skipping, floor, barrier>>

\* The store has answered for the rolled file p.
Resolve(i, p) ==
  /\ write[i] = "inner" /\ p.by = "write" /\ p.name = file[i]
  /\ \/ Commit(p) /\ UNCHANGED exit
     \/ PutRefused(p) /\ Terminated
  /\ write' = [write EXCEPT ![i] = "none"]
  /\ file' = [file EXCEPT ![i] = -1]
  /\ PassTurn(SeqOf[i], write')
  /\ Mark /\ CheckpointIdle
  /\ UNCHANGED <<given, skipped, ordered, coming, queue, skipping, floor, barrier>>

\* Mutant: only a stalled buffer is cancelled.
CancelQueuedStalled ==
  /\ exit = "ending" /\ ordered /\ ~cancelled /\ stalled
  /\ cancelled' = TRUE
  /\ stalled' = FALSE
  /\ SinkIdle /\ CheckpointIdle
  /\ UNCHANGED <<ordered, coming, queue, write, file, expected, ahead, skipping, floor, barrier, exit>>

\* cancel_queued_writes, once the run is ending.
CancelQueued ==
  /\ exit = "ending" /\ ordered /\ ~cancelled
  /\ cancelled' = TRUE
  /\ stalled' = FALSE
  /\ SinkIdle /\ CheckpointIdle
  /\ UNCHANGED <<ordered, coming, queue, write, file, expected, ahead, skipping, floor, barrier, exit>>

\* The drive stops without finishing once no write is in flight.
Stop ==
  /\ exit = "ending" /\ InFlight = {}
  /\ exit' = "over"
  /\ SinkIdle /\ CheckpointIdle
  /\ UNCHANGED <<ordered, coming, queue, write, file, bufferVars, skipping, floor, barrier>>

\* Mutant: the drive finishes with writes still in flight.
StartFinishEarly ==
  /\ exit = "none" /\ ~barrier
  /\ coming = {} /\ skipping = {} /\ queue = <<>>
  /\ exit' = "finishing"
  /\ SinkIdle /\ CheckpointIdle
  /\ UNCHANGED <<ordered, coming, queue, write, file, bufferVars, skipping, floor, barrier>>

\* Mutant: the drive finishes once the queue is closed, drained or not.
StartFinishUndrained ==
  /\ exit = "none" /\ ~barrier
  /\ coming = {} /\ skipping = {} /\ InFlight = {}
  /\ exit' = "finishing"
  /\ SinkIdle /\ CheckpointIdle
  /\ UNCHANGED <<ordered, coming, queue, write, file, bufferVars, skipping, floor, barrier>>

\* The queue is closed and drained: the drive claims the exit and finishes.
StartFinish ==
  /\ exit = "none" /\ ~barrier
  /\ coming = {} /\ skipping = {} /\ queue = <<>> /\ InFlight = {}
  /\ exit' = "finishing"
  /\ SinkIdle /\ CheckpointIdle
  /\ UNCHANGED <<ordered, coming, queue, write, file, bufferVars, skipping, floor, barrier>>

\* finish of the sink, and the exit published with what it returned.  A failed sink
\* answers with its failure, and here keeps the phase that says so.
Finish ==
  /\ exit = "finishing"
  /\ \/ puts = {} /\ FinishRoll /\ UNCHANGED exit
     \/ puts = {} /\ (FinishClosed(TRUE) \/ FinishClosed(FALSE) \/ FinishFails) /\ exit' = "over"
     \/ phase # "open" /\ UNCHANGED sinkVars /\ exit' = "over"
     \/ \E p \in puts : (FinishCommit(p, TRUE) \/ FinishCommit(p, FALSE)) /\ exit' = "over"
     \/ \E p \in puts : p.by = "finish" /\ PutRefused(p) /\ exit' = "over"
  /\ Mark /\ CheckpointIdle
  /\ UNCHANGED <<given, skipped, ordered, coming, queue, write, file, bufferVars,
                 skipping, floor, barrier>>

\* The reactor and the store, for every rolled file.
Store ==
  /\ \E p \in puts : PutLands(p) \/ PutFails(p) \/ (p.by = "nobody" /\ PutRefused(p))
  /\ Mark /\ CheckpointIdle
  /\ UNCHANGED <<given, skipped, driveVars>>

-----------------------------------------------------------------------------
(* The checkpoint thread *)

\* Barrier::enter succeeds once the workers and the drive are idle; asking for it
\* or giving up only delays the drive.  It is dropped when the checkpoint is over.
EnterBarrier ==
  /\ ~barrier /\ exit = "none" /\ InFlight = {} /\ skipping = {}
  /\ barrier' = TRUE
  /\ SinkIdle /\ CheckpointIdle
  /\ UNCHANGED <<ordered, coming, queue, write, file, bufferVars, skipping, floor, exit>>

LeaveBarrier ==
  /\ barrier /\ \A p \in puts : p.by # "flush"
  /\ barrier' = FALSE
  /\ SinkIdle /\ CheckpointIdle
  /\ UNCHANGED <<ordered, coming, queue, write, file, bufferVars, skipping, floor, exit>>

\* checkpoint_flush behind the barrier, and its wait for the store.
FlushBehindBarrier ==
  /\ barrier
  /\ Flush \/ FlushFails \/ \E p \in puts : p.by = "flush" /\ (Commit(p) \/ PutRefused(p))
  /\ Mark /\ CheckpointIdle
  /\ UNCHANGED <<given, skipped, driveVars>>

ReadSink ==
  /\ ReadWatermark \/ ReadState
  /\ UNCHANGED <<marks, driveVars>>

\* apply_resume_point; a source replays its morsels to every sink.
DriveResume ==
  /\ Resume
  /\ coming' = Item
  /\ queue' = <<>>
  /\ write' = [i \in Item |-> "none"]
  /\ file' = [i \in Item |-> -1]
  /\ expected' = NextOf(saved.watermark)
  /\ ahead' = {}
  /\ stalled' = FALSE
  /\ cancelled' = FALSE
  /\ skipping' = {}
  /\ floor' = saved.watermark
  /\ barrier' = FALSE
  /\ exit' = "none"
  /\ UNCHANGED ordered

StageStep == \E i \in Item : Push(i)
WorkerStep == \E n \in Seq0 : SkipTurn(n)

\* What the drive does with the futures it has.
PollStep ==
  \/ \E i \in Item : Admit(i) \/ Refuse(i) \/ WriteThrough(i) \/ WriteRolls(i) \/ WriteInnerFails(i)
  \/ \E i \in Item, p \in puts : Resolve(i, p)
  \/ CancelQueued
  \/ Stop
  \/ Finish

DriveNext ==
  \/ StageStep
  \/ \E i \in Item : SkipInner(i)
  \/ WorkerStep
  \/ End
  \/ Pop
  \/ PollStep
  \/ StartFinish
  \/ Store
  \/ EnterBarrier
  \/ LeaveBarrier
  \/ FlushBehindBarrier
  \/ ReadSink
  \/ DriveResume

\* Workers, store and drive do not stop with work in hand; a barrier gives up or
\* ends; and the stages and the drive get on between two barriers (the drive parks
\* for 1 ms, a checkpoint interval is longer).
DriveSpec ==
  /\ DriveInit /\ [][DriveNext]_allVars
  /\ WF_allVars(WorkerStep \/ Store \/ PollStep)
  /\ WF_allVars(LeaveBarrier \/ FlushBehindBarrier)
  /\ SF_allVars(StageStep \/ Pop \/ StartFinish)

-----------------------------------------------------------------------------
DriveTypeOK ==
  /\ TypeOK
  /\ ordered \in BOOLEAN
  /\ coming \subseteq Item
  /\ queue \in Seq(Item)
  /\ write \in [Item -> {"none", "new", "turn", "inner"}]
  /\ file \in [Item -> Nat \cup {-1}]
  /\ expected \in 0 .. N
  /\ ahead \subseteq Seq0
  /\ stalled \in BOOLEAN /\ cancelled \in BOOLEAN
  /\ skipping \subseteq Seq0
  /\ floor \in -1 .. N - 1
  /\ barrier \in BOOLEAN
  /\ exit \in {"none", "ending", "finishing", "over"}

(* The drive and the reorder buffer use the sink as SinkCheckpoint allows:  *)
(* each number is written or skipped at most once, and never while finish   *)
(* has the sink.                                                            *)
Implements == Spec

(* An ordered handle writes a number only when no higher one has been       *)
(* written and every lower one has been written or skipped (SI-I5), across  *)
(* skips, rolls and resumes; a lower one is missing only if its write       *)
(* failed and the run is ending.                                            *)
OrderKept ==
  [][\A i \in Item :
       ordered /\ current' # None /\ i \in current'.data
         /\ (current = None \/ i \notin current.data) =>
           \A k \in Seq0 : /\ k < SeqOf[i] => k \in given \/ exit = "ending"
                           /\ k > SeqOf[i] => k \notin given \ skipped]_allVars

(* The reorder buffer never answers "sequence out of range" to a write the  *)
(* drive hands it, wherever the skips of the workers fall.                  *)
NeverOutOfRange ==
  ordered /\ ~cancelled => \A i \in Item : write[i] = "new" => InRange(i)

(* A sink that finished holds every morsel that was not skipped.            *)
FinishedHoldsAll == phase = "finished" => \A n \in Seq0 : Settled(n, committed)

\* The buffer is over its bound and the open writes fill the concurrency.
Wedged == ordered /\ stalled /\ ~Room

(* Every run ends, or stands for ever before a stalled buffer whose held    *)
(* writes take all of sink_concurrency.                                     *)
EndsOrWedges == <>[](exit = "over" \/ Wedged)

(* Every run ends: the drive pops the number the buffer waits for.          *)
EveryRunEnds == <>(exit = "over")
=============================================================================
