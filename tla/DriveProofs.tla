---------------------------- MODULE DriveProofs ----------------------------
(***************************************************************************)
(* Proofs about SinkDrive, for any number of morsels and any concurrency:  *)
(* the drive and the reorder buffer use the sink as SinkCheckpoint allows, *)
(* so that what SinkProofs shows of the sink holds under the drive, and an *)
(* ordered handle writes in order.                                         *)
(***************************************************************************)
EXTENDS SinkDrive, SinkProofs

USE ZenonT(3), SMTT(30)

OnQueue(q) == {q[k] : k \in 1 .. Len(q)}
Single(q) == \A j, k \in 1 .. Len(q) : q[j] = q[k] => j = k

\* Not in the hands of the drive yet.
Waiting == coming \cup OnQueue(queue)

\* In a write future that the inner sink has not seen.
Popped == {i \in Item : write[i] \in {"new", "turn"}}

\* A morsel is with the stages, in the queue or in a write, and the sink has been
\* given its number by none of them, unless it was committed before the resume.
PlacesOK ==
  /\ Single(queue)
  /\ coming \cap OnQueue(queue) = {}
  /\ \A i \in Waiting : write[i] = "none"
  /\ \A i \in Waiting : SeqOf[i] \in given => SeqOf[i] <= floor
  /\ \A i \in Popped : SeqOf[i] \notin given
  /\ \A i \in Item : write[i] = "inner" => SeqOf[i] \in given
  /\ \A i \in InFlight : SeqOf[i] > floor
  /\ floor < contiguousNext

\* finish has the sink and its one file to itself, and the drive ends with no write.
ExitOK ==
  /\ Finishing => exit = "finishing" /\ phase = "open" /\ \A p, q \in puts : p = q
  /\ exit \in {"finishing", "over"} => InFlight = {}
  /\ exit = "finishing" => coming = {} /\ queue = <<>> /\ ~barrier

\* The turn is at the least number that may still be written, ...
TurnOK ==
  /\ \A i \in Waiting : SeqOf[i] > floor => expected <= SeqOf[i]
  /\ \A i \in Popped : expected <= SeqOf[i]
  /\ \A i \in Item : write[i] = "inner" => SeqOf[i] = expected /\ expected \notin ahead \cup skipping
  /\ ahead \cup skipping \subseteq given

\* ... what is below it was given, or its write failed, and what is above it was skipped at most.
OrderOK ==
  /\ \A k \in Seq0 : k < expected => k \in given \/ exit \in {"ending", "over"}
  /\ \A k \in given \ skipped : k <= expected

DInv == IInv /\ DriveTypeOK /\ PlacesOK /\ ExitOK /\ (ordered => TurnOK /\ OrderOK)

-----------------------------------------------------------------------------
\* A resume starts from a watermark of the manifest.
LEMMA ResumeMark ==
  ASSUME TypeOK, Resume
  PROVE  /\ saved.watermark \in -1 .. N - 1
         /\ saved.watermark + 1 \in 0 .. N /\ saved.watermark + 1 > saved.watermark
<1>1. saved.watermark \in -1 .. N - 1
  BY DEF TypeOK, Resume
<1> QED BY <1>1, FileSinkAssumption

\* A step of the drive that changes nothing of the sink, its marks or the checkpoint.
LEMMA IdleMaps == SinkIdle /\ CheckpointIdle => UNCHANGED scVars
BY DEF SinkIdle, CheckpointIdle, scVars, checkpointVars

\* The steps of the stages, of the barrier, and those of the drive on its own state.
Quiet ==
  \/ \E i \in Item : Push(i) \/ Admit(i) \/ Refuse(i)
  \/ \E n \in Seq0 : SkipTurn(n)
  \/ End \/ Pop \/ CancelQueued \/ Stop \/ StartFinish \/ EnterBarrier \/ LeaveBarrier

LEMMA QuietIdle == Quiet => SinkIdle /\ CheckpointIdle
<1>1. \A i \in Item : Push(i) \/ Admit(i) \/ Refuse(i) => SinkIdle /\ CheckpointIdle
  BY DEF Push, Admit, Refuse
<1>2. \A n \in Seq0 : SkipTurn(n) => SinkIdle /\ CheckpointIdle
  BY DEF SkipTurn
<1>3. End \/ Pop \/ CancelQueued \/ Stop \/ StartFinish => SinkIdle /\ CheckpointIdle
  BY DEF End, Pop, CancelQueued, Stop, StartFinish
<1>4. EnterBarrier \/ LeaveBarrier => SinkIdle /\ CheckpointIdle
  BY DEF EnterBarrier, LeaveBarrier
<1> QED BY <1>1, <1>2, <1>3, <1>4 DEF Quiet

\* The steps of the drive that call the sink.
Calls ==
  \/ \E i \in Item : SkipInner(i) \/ WriteThrough(i) \/ WriteRolls(i) \/ WriteInnerFails(i)
  \/ \E i \in Item, p \in puts : Resolve(i, p)
  \/ Finish \/ Store \/ FlushBehindBarrier \/ ReadSink

LEMMA DriveSteps == DriveNext => Quiet \/ Calls \/ DriveResume
BY DEF DriveNext, StageStep, WorkerStep, PollStep, Quiet, Calls

\* A call that leaves the sink as it is.
LEMMA NoCallMaps ==
  ASSUME MarksOK, UNCHANGED sinkVars, UNCHANGED <<given, skipped>>, Mark, CheckpointIdle
  PROVE  UNCHANGED scVars
<1>1. watermarkNext' = watermarkNext
  BY DEF sinkVars, ledgerVars
<1>2. marks' = marks
  BY <1>1 DEF Mark, MarksOK
<1> QED BY <1>2 DEF scVars, checkpointVars, CheckpointIdle

\* Every call of the drive is one the sink allows: a number is written or skipped once, and
\* none while finish has the sink.
LEMMA CallMaps ==
  ASSUME DInv, Calls
  PROVE  [Next]_scVars
<1> USE DEF DInv
<1>0. /\ InFlight # {} => ~Finishing
      /\ coming # {} => ~Finishing
      /\ barrier => ~Finishing
  BY DEF ExitOK
<1>1. ASSUME NEW i \in Item, HasTurn(i)
      PROVE  SeqOf[i] \notin given /\ ~Finishing
  <2>1. write[i] \in {"new", "turn"}
    BY <1>1 DEF HasTurn
  <2> QED BY <1>0, <2>1 DEF PlacesOK, Popped, InFlight
<1>2. ASSUME NEW i \in Item, SkipInner(i) PROVE [Next]_scVars
  <2>1. i \in coming /\ ~Finishing /\ SeqOf[i] \in Seq0
    BY <1>0, <1>2, FileSinkAssumption DEF SkipInner, Seq0
  <2>2. CASE SeqOf[i] \notin given
    <3>1. Skip(SeqOf[i]) /\ Mark
      BY <1>2, <2>1, <2>2 DEF SkipInner, Skip, CheckpointIdle
    <3> QED BY <2>1, <3>1 DEF Next, LifeStep, Mark
  <2>3. CASE SeqOf[i] \in given
    <3>1. SeqOf[i] <= floor /\ floor < contiguousNext
      BY <2>1, <2>3 DEF PlacesOK, Waiting
    <3>2. ~(SeqOf[i] >= contiguousNext)
      BY <2>1, <3>1 DEF Seq0, DriveTypeOK, TypeOK
    <3>3. UNCHANGED sinkVars /\ UNCHANGED <<given, skipped>>
      BY <1>2, <2>3, <3>2 DEF SkipInner, SinkSkip, sinkVars, ledgerVars
    <3> QED BY <1>2, <3>3, NoCallMaps DEF SkipInner, IInv
  <2> QED BY <2>2, <2>3
<1>3. ASSUME NEW i \in Item, WriteThrough(i) \/ WriteRolls(i) PROVE [Next]_scVars
  <2>1. HasTurn(i)
    BY <1>3 DEF WriteThrough, WriteRolls
  <2>2. (Write(i, FALSE) \/ Write(i, TRUE)) /\ Mark
    BY <1>1, <1>3, <2>1 DEF WriteThrough, WriteRolls, Write, CheckpointIdle
  <2> QED BY <2>2 DEF Next, LifeStep, Mark
<1>4. ASSUME NEW i \in Item, WriteInnerFails(i) PROVE [Next]_scVars
  <2>1. CASE EncodeFails
    <3>1. WriteFails /\ Mark
      BY <1>4, <2>1 DEF WriteInnerFails, WriteFails, checkpointVars, CheckpointIdle
    <3> QED BY <3>1 DEF Next, LifeStep, Mark
  <2>2. CASE UNCHANGED sinkVars
    BY <1>4, <2>2, NoCallMaps DEF WriteInnerFails, IInv
  <2> QED BY <1>4, <2>1, <2>2 DEF WriteInnerFails
<1>5. ASSUME NEW i \in Item, NEW p \in puts, Resolve(i, p) PROVE [Next]_scVars
  <2>1. StoreStep /\ Mark
    BY <1>5 DEF Resolve, StoreStep, checkpointVars, CheckpointIdle
  <2> QED BY <2>1 DEF Next, LifeStep, Mark
<1>6. CASE Finish
  <2>1. Mark /\ UNCHANGED checkpointVars
    BY <1>6 DEF Finish, checkpointVars, CheckpointIdle
  <2>2. CASE phase # "open" /\ UNCHANGED sinkVars
    BY <1>6, <2>2, NoCallMaps DEF Finish, IInv
  <2>3. CASE \/ puts = {} /\ (FinishRoll \/ FinishClosed(TRUE) \/ FinishClosed(FALSE) \/ FinishFails)
             \/ \E p \in puts : FinishCommit(p, TRUE) \/ FinishCommit(p, FALSE)
    <3>1. FinishStep
      BY <2>1, <2>3 DEF FinishStep
    <3> QED BY <2>1, <3>1 DEF Next, LifeStep, Mark
  <2>4. CASE \E p \in puts : PutRefused(p)
    <3>1. StoreStep
      BY <2>1, <2>4 DEF StoreStep
    <3> QED BY <2>1, <3>1 DEF Next, LifeStep, Mark
  <2> QED BY <1>6, <2>2, <2>3, <2>4 DEF Finish
<1>7. CASE Store
  <2>1. StoreStep /\ Mark
    BY <1>7 DEF Store, StoreStep, checkpointVars, CheckpointIdle
  <2> QED BY <2>1 DEF Next, LifeStep, Mark
<1>8. CASE FlushBehindBarrier
  <2>1. Mark /\ UNCHANGED checkpointVars /\ ~Finishing
    BY <1>0, <1>8 DEF FlushBehindBarrier, checkpointVars, CheckpointIdle
  <2>2. FlushStep \/ StoreStep
    BY <1>8, <2>1 DEF FlushBehindBarrier, FlushStep, StoreStep
  <2> QED BY <2>1, <2>2 DEF Next, LifeStep, Mark
<1>9. CASE ReadSink
  <2>1. watermarkNext' = watermarkNext /\ marks' = marks
    BY <1>9 DEF ReadSink, ReadWatermark, ReadState, sinkVars, ledgerVars
  <2>2. Mark
    BY <2>1 DEF Mark, MarksOK, IInv
  <2> QED BY <1>9, <2>2 DEF ReadSink, Next, LifeStep, Mark
<1> QED BY <1>2, <1>3, <1>4, <1>5, <1>6, <1>7, <1>8, <1>9 DEF Calls

\* Every step of the drive is a step of SinkCheckpoint or leaves its variables alone.
LEMMA DriveMaps == DInv /\ [DriveNext]_allVars => [Next]_scVars
<1> SUFFICES ASSUME DInv, [DriveNext]_allVars PROVE [Next]_scVars
  OBVIOUS
<1>1. CASE Quiet
  BY <1>1, QuietIdle, IdleMaps
<1>2. CASE Calls
  BY <1>2, CallMaps
<1>3. CASE DriveResume
  BY <1>3 DEF DriveResume, Next
<1>4. CASE UNCHANGED allVars
  BY <1>4 DEF allVars
<1> QED BY <1>1, <1>2, <1>3, <1>4, DriveSteps

-----------------------------------------------------------------------------
\* The loop of State::advance ends at the first number that is held or not skipped ahead.
LEMMA TurnEnds ==
  ASSUME NEW e \in 0 .. N, NEW held, NEW a \in SUBSET Seq0
  PROVE  /\ NextTurn(e, held, a) \in e .. N
         /\ \A k \in Seq0 : e <= k /\ k < NextTurn(e, held, a) => k \in a \ held
<1> USE FileSinkAssumption DEF Seq0
<1> DEFINE S == {n \in e .. N : n \in held \/ n \notin a}
<1>1. N \in S /\ S \in SUBSET Nat
  OBVIOUS
<1>2. PICK n \in S : \A k \in S : n <= k
  BY <1>1, LeastExists
<1>3. n \in e .. N /\ (n \in held \/ n \notin a) /\ \A k \in e .. n - 1 : k \in a \ held
  BY <1>2
<1> HIDE DEF S
<1>4. \E m \in e .. N : (m \in held \/ m \notin a) /\ \A k \in e .. m - 1 : k \in a \ held
  BY <1>3
<1> DEFINE m == NextTurn(e, held, a)
<1>5. m \in e .. N /\ \A k \in e .. m - 1 : k \in a \ held
  BY <1>4 DEF NextTurn
<1> HIDE DEF m
<1>6. m \in e .. N /\ \A k \in Seq0 : e <= k /\ k < m => k \in a \ held
  BY <1>5
<1> QED BY <1>6 DEF m

\* State::advance leaves a turn at or after e, over numbers that were skipped ahead only.
LEMMA TurnFacts ==
  ASSUME NEW e \in 0 .. N, NEW w, NEW a \in SUBSET Seq0, AdvanceTurn(e, w, a)
  PROVE  /\ expected' \in e .. N
         /\ ahead' \subseteq a
         /\ \A k \in ahead' : k >= expected'
         /\ \A k \in Seq0 : e <= k /\ k < expected' => k \in a \ Seqs(Queued(w))
<1> DEFINE n == NextTurn(e, Seqs(Queued(w)), a)
<1>1. n \in e .. N /\ \A k \in Seq0 : e <= k /\ k < n => k \in a \ Seqs(Queued(w))
  BY TurnEnds
<1>2. expected' = n /\ ahead' = {k \in a : k >= n}
  BY DEF AdvanceTurn
<1> HIDE DEF n
<1> QED BY <1>1, <1>2

\* The end of a write moves the turn past its number, or there is no turn.
LEMMA PassFacts ==
  ASSUME DriveTypeOK, NEW n \in Seq0, NEW w, PassTurn(n, w)
  PROVE  /\ expected' \in 0 .. N /\ ahead' \subseteq ahead
         /\ stalled' \in BOOLEAN /\ cancelled' = cancelled
         /\ ordered => /\ expected' \in n + 1 .. N
                       /\ \A k \in ahead' : k >= expected'
                       /\ \A k \in Seq0 : n + 1 <= k /\ k < expected' => k \in ahead \ Seqs(Queued(w))
<1> USE DEF DriveTypeOK
<1>1. CASE ordered
  <2>1. n + 1 \in 0 .. N /\ AdvanceTurn(n + 1, w, ahead)
    BY <1>1, FileSinkAssumption DEF PassTurn, Seq0
  <2>2. ahead \in SUBSET Seq0
    OBVIOUS
  <2>3. /\ expected' \in n + 1 .. N /\ ahead' \subseteq ahead
        /\ \A k \in ahead' : k >= expected'
        /\ \A k \in Seq0 : n + 1 <= k /\ k < expected' => k \in ahead \ Seqs(Queued(w))
    BY <2>1, <2>2, TurnFacts
  <2>4. stalled' \in BOOLEAN /\ cancelled' = cancelled
    BY <1>1 DEF PassTurn, Relaxed
  <2>5. expected' \in 0 .. N
    BY <2>1, <2>3
  <2> QED BY <2>3, <2>4, <2>5
<1>2. CASE ~ordered
  BY <1>2 DEF PassTurn, bufferVars
<1> QED BY <1>1, <1>2

\* The queue with a morsel at its end, and without its first.
LEMMA QueueFacts ==
  ASSUME NEW q \in Seq(Item), Single(q)
  PROVE  /\ \A i \in Item \ OnQueue(q) : /\ Append(q, i) \in Seq(Item) /\ Single(Append(q, i))
                                         /\ OnQueue(Append(q, i)) = OnQueue(q) \cup {i}
         /\ q # <<>> => /\ Head(q) \in OnQueue(q) /\ Head(q) \in Item
                        /\ Tail(q) \in Seq(Item) /\ Single(Tail(q))
                        /\ OnQueue(Tail(q)) = OnQueue(q) \ {Head(q)}
         /\ OnQueue(q) \subseteq Item
<1> USE DEF OnQueue, Single
<1>1. ASSUME NEW i \in Item \ OnQueue(q)
      PROVE  /\ Append(q, i) \in Seq(Item) /\ Single(Append(q, i))
             /\ OnQueue(Append(q, i)) = OnQueue(q) \cup {i}
  <2> DEFINE r == Append(q, i)
  <2>1. /\ r \in Seq(Item) /\ Len(r) = Len(q) + 1 /\ r[Len(q) + 1] = i
        /\ \A k \in 1 .. Len(q) : r[k] = q[k]
    OBVIOUS
  <2>2. \A k \in 1 .. Len(q) : q[k] # i
    OBVIOUS
  <2>0. Len(q) \in Nat
    OBVIOUS
  <2> HIDE DEF r
  <2>3. Single(r)
    BY <2>0, <2>1, <2>2
  <2>4. OnQueue(r) = OnQueue(q) \cup {i}
    BY <2>0, <2>1
  <2> QED BY <2>1, <2>3, <2>4 DEF r
<1>2. ASSUME q # <<>>
      PROVE  /\ Head(q) \in OnQueue(q) /\ Head(q) \in Item
             /\ Tail(q) \in Seq(Item) /\ Single(Tail(q))
             /\ OnQueue(Tail(q)) = OnQueue(q) \ {Head(q)}
  <2> DEFINE r == Tail(q)
             m == Len(q)
  <2>1. /\ r \in Seq(Item) /\ Len(r) = m - 1 /\ Head(q) = q[1]
        /\ \A k \in 1 .. m - 1 : r[k] = q[k + 1]
        /\ m \in Nat /\ m >= 1
    BY <1>2
  <2>2. q[1] \in Item
    BY <1>2
  <2> HIDE DEF r
  <2>3. Head(q) \in OnQueue(q)
    BY <2>1
  <2>4. Single(r)
    BY <2>1
  <2>5. OnQueue(r) = OnQueue(q) \ {q[1]}
    <3>1. \A k \in 1 .. m - 1 : r[k] \in OnQueue(q) \ {q[1]}
      BY <2>1
    <3>2. ASSUME NEW k \in 1 .. m, q[k] # q[1] PROVE q[k] \in OnQueue(r)
      <4>1. k - 1 \in 1 .. m - 1 /\ (k - 1) + 1 = k
        BY <2>1, <3>2
      <4>2. r[k - 1] = q[k]
        BY <2>1, <4>1
      <4> QED BY <2>1, <4>1, <4>2
    <3>3. OnQueue(r) \subseteq OnQueue(q) \ {q[1]}
      BY <2>1, <3>1
    <3>4. ASSUME NEW x \in OnQueue(q) \ {q[1]} PROVE x \in OnQueue(r)
      <4>1. PICK k \in 1 .. m : x = q[k]
        OBVIOUS
      <4> HIDE DEF OnQueue
      <4> QED BY <3>2, <4>1
    <3> HIDE DEF OnQueue
    <3> QED BY <3>3, <3>4
  <2> QED BY <2>1, <2>2, <2>3, <2>4, <2>5 DEF r
<1>3. OnQueue(q) \subseteq Item
  OBVIOUS
<1> QED BY <1>1, <1>2, <1>3

-----------------------------------------------------------------------------
\* The fields of the drive keep their types.
LEMMA TypeKeeps ==
  ASSUME DInv, [DriveNext]_allVars, TypeOK'
  PROVE  DriveTypeOK'
<1> USE DEF DInv, DriveTypeOK
<1>0. queue \in Seq(Item) /\ Single(queue) /\ coming \cap OnQueue(queue) = {}
      /\ \A i \in Item : SeqOf[i] \in Seq0
  BY FileSinkAssumption DEF PlacesOK, Seq0
<1>1. ASSUME NEW i \in Item, Push(i) PROVE DriveTypeOK'
  <2>1. queue' \in Seq(Item)
    BY <1>0, <1>1, QueueFacts DEF Push
  <2> QED BY <1>1, <2>1 DEF Push, bufferVars
<1>2. ASSUME NEW i \in Item, SkipInner(i) PROVE DriveTypeOK'
  BY <1>0, <1>2 DEF SkipInner, bufferVars
<1>3. ASSUME NEW n \in Seq0, SkipTurn(n) PROVE DriveTypeOK'
  <2>1. expected' \in 0 .. N /\ ahead' \subseteq Seq0
    <3>1. CASE n < expected
      BY <1>3, <3>1 DEF SkipTurn
    <3>2. CASE AdvanceTurn(n + 1, write, ahead)
      <4>1. n + 1 \in 0 .. N /\ ahead \in SUBSET Seq0
        BY FileSinkAssumption DEF Seq0
      <4>2. expected' \in n + 1 .. N /\ ahead' \subseteq ahead
        BY <3>2, <4>1, TurnFacts
      <4> QED BY <4>1, <4>2
    <3>3. CASE AdvanceTurn(expected, write, ahead \cup {n})
      <4>1. ahead \cup {n} \in SUBSET Seq0
        OBVIOUS
      <4>2. expected' \in expected .. N /\ ahead' \subseteq ahead \cup {n}
        BY <3>3, <4>1, TurnFacts
      <4> QED BY <4>1, <4>2
    <3> QED BY <1>3, <3>1, <3>2, <3>3 DEF SkipTurn
  <2> QED BY <1>3, <2>1 DEF SkipTurn
<1>4. ASSUME NEW i \in Item, Admit(i) PROVE DriveTypeOK'
  <2>1. expected' \in expected .. N /\ ahead' \subseteq ahead
    BY <1>4, TurnFacts DEF Admit
  <2>2. write' \in [Item -> {"none", "new", "turn", "inner"}] /\ stalled' \in BOOLEAN
    BY <1>4 DEF Admit
  <2> QED BY <1>4, <2>1, <2>2 DEF Admit
<1>5. ASSUME NEW i \in Item, Refuse(i) PROVE DriveTypeOK'
  BY <1>5 DEF Refuse, Terminated, bufferVars
<1>6. CASE Pop
  <2>1. queue' \in Seq(Item) /\ Head(queue) \in Item
    BY <1>0, <1>6, QueueFacts DEF Pop
  <2>2. write' \in [Item -> {"none", "new", "turn", "inner"}]
    BY <1>6, <2>1 DEF Pop
  <2> QED BY <1>6, <2>1, <2>2 DEF Pop, bufferVars
<1>7. CASE End \/ CancelQueued \/ Stop \/ StartFinish \/ EnterBarrier \/ LeaveBarrier
  BY <1>7 DEF End, CancelQueued, Stop, StartFinish, EnterBarrier, LeaveBarrier, bufferVars
<1>8. ASSUME NEW i \in Item, WriteThrough(i) \/ WriteInnerFails(i) PROVE DriveTypeOK'
  <2>1. expected' \in 0 .. N /\ ahead' \subseteq ahead /\ stalled' \in BOOLEAN /\ cancelled' = cancelled
    BY <1>0, <1>8, PassFacts DEF WriteThrough, WriteInnerFails
  <2> QED BY <1>8, <2>1 DEF WriteThrough, WriteInnerFails, Terminated
<1>9. ASSUME NEW i \in Item, WriteRolls(i) PROVE DriveTypeOK'
  <2>1. current.name \in Nat
    BY <1>9 DEF WriteRolls, Encode, TypeOK
  <2>2. stalled' \in BOOLEAN
    BY <1>9 DEF WriteRolls, Relaxed
  <2> QED BY <1>9, <2>1, <2>2 DEF WriteRolls
<1>10. ASSUME NEW i \in Item, NEW p \in puts, Resolve(i, p) PROVE DriveTypeOK'
  <2>1. expected' \in 0 .. N /\ ahead' \subseteq ahead /\ stalled' \in BOOLEAN /\ cancelled' = cancelled
    BY <1>0, <1>10, PassFacts DEF Resolve
  <2>2. exit' \in {"none", "ending", "finishing", "over"}
    BY <1>10 DEF Resolve, Terminated
  <2> QED BY <1>10, <2>1, <2>2 DEF Resolve
<1>11. CASE Finish
  <2>1. exit' \in {"none", "ending", "finishing", "over"}
    BY <1>11 DEF Finish
  <2> QED BY <1>11, <2>1 DEF Finish, bufferVars
<1>12. CASE Store \/ FlushBehindBarrier \/ ReadSink
  <2>1. UNCHANGED driveVars
    BY <1>12, Zenon DEF Store, FlushBehindBarrier, ReadSink
  <2> QED BY <2>1 DEF driveVars, bufferVars
<1>13. CASE DriveResume
  <2>1. saved.watermark \in -1 .. N - 1 /\ saved.watermark + 1 \in 0 .. N
    BY <1>13, ResumeMark DEF DriveResume
  <2>2. <<>> \in Seq(Item)
    OBVIOUS
  <2> QED BY <1>13, <2>1, <2>2 DEF DriveResume, NextOf
<1>14. CASE UNCHANGED allVars
  BY <1>14 DEF allVars, driveVars, bufferVars
<1> QED BY <1>1, <1>2, <1>3, <1>4, <1>5, <1>6, <1>7, <1>8, <1>9, <1>10, <1>11, <1>12, <1>13, <1>14,
           DriveSteps DEF Quiet, Calls

-----------------------------------------------------------------------------
\* The contiguous number never falls within a life.
LEMMA ContiguousGrows ==
  ASSUME TypeOK, [Next]_scVars, resumes' = resumes
  PROVE  contiguousNext' >= contiguousNext
<1> USE DEF TypeOK
<1>0. contiguousNext >= contiguousNext
  OBVIOUS
<1>1. ASSUME NEW d \in SUBSET Seq0, NEW files, Advance(d, files) PROVE contiguousNext' >= contiguousNext
  <2>1. ContiguousFrom(contiguousNext, d) \in contiguousNext .. N
    BY ContiguousEnds
  <2> QED BY <1>1, <2>1 DEF Advance
<1>2. ASSUME NEW p \in puts, CommitFile(p.name, p.data) PROVE contiguousNext' >= contiguousNext
  <2>1. done \cup Seqs(p.data) \in SUBSET Seq0
    BY SeqsFacts
  <2> QED BY <1>1, <1>2, <2>1 DEF CommitFile
<1>3. CASE UNCHANGED scVars
  BY <1>0, <1>3 DEF scVars, sinkVars, ledgerVars
<1>4. ASSUME NEW i \in Item, Write(i, TRUE) \/ Write(i, FALSE) PROVE contiguousNext' >= contiguousNext
  BY <1>0, <1>4 DEF Write, Encode
<1>5. ASSUME NEW n \in Seq0, Skip(n) PROVE contiguousNext' >= contiguousNext
  <2>1. done \cup {n} \in SUBSET Seq0
    OBVIOUS
  <2> QED BY <1>0, <1>1, <1>5, <2>1 DEF Skip, SinkSkip
<1>6. CASE WriteFails \/ FlushStep \/ ReadWatermark \/ ReadState
  BY <1>0, <1>6 DEF WriteFails, EncodeFails, FlushStep, Flush, FlushFails, ReadWatermark, ReadState,
                    sinkVars, ledgerVars
<1>7. CASE StoreStep
  BY <1>0, <1>2, <1>7 DEF StoreStep, PutLands, PutFails, Commit, PutRefused, ledgerVars
<1>8. CASE FinishStep
  BY <1>0, <1>2, <1>8 DEF FinishStep, FinishRoll, FinishFails, FinishClosed, FinishCommit, ledgerVars
<1>9. CASE Resume
  BY <1>9 DEF Resume
<1> QED BY <1>3, <1>4, <1>5, <1>6, <1>7, <1>8, <1>9 DEF Next, LifeStep

\* A morsel is in one place, and its number is given at most once.
LEMMA PlacesKeep ==
  ASSUME DInv, [DriveNext]_allVars
  PROVE  PlacesOK'
<1> USE DEF DInv
<1>0. /\ queue \in Seq(Item) /\ coming \subseteq Item /\ OnQueue(queue) \subseteq Item
      /\ write \in [Item -> {"none", "new", "turn", "inner"}]
      /\ floor \in -1 .. N - 1 /\ contiguousNext \in 0 .. N /\ given \subseteq Seq0
      /\ \A i \in Item : SeqOf[i] \in Seq0
      /\ \A i, j \in Item : SeqOf[i] = SeqOf[j] => i = j
  BY FileSinkAssumption, SinkDriveAssumption, QueueFacts DEF DriveTypeOK, TypeOK, PlacesOK, Seq0
<1>1. ASSUME resumes' = resumes, floor' = floor, contiguousNext' \in 0 .. N
      PROVE  floor' < contiguousNext'
  <2>1. contiguousNext' >= contiguousNext
    BY <1>1, DriveMaps, ContiguousGrows DEF IInv
  <2> QED BY <1>0, <1>1, <2>1 DEF PlacesOK
<1>2. contiguousNext' \in 0 .. N
  BY DriveMaps, StepKeeps DEF IInv, TypeOK
<1>3. Quiet \/ Calls => resumes' = resumes
  <2>1. Quiet => resumes' = resumes
    BY QuietIdle DEF CheckpointIdle
  <2>2. Calls => resumes' = resumes
    BY DEF Calls, SkipInner, WriteThrough, WriteRolls, WriteInnerFails, Resolve, Finish, Store,
           FlushBehindBarrier, ReadSink, ReadWatermark, ReadState, CheckpointIdle
  <2> QED BY <2>1, <2>2
<1>4. Quiet => given' = given
  BY QuietIdle DEF SinkIdle
<1>5. ASSUME UNCHANGED <<coming, queue, write, given, floor>>, resumes' = resumes PROVE PlacesOK'
  BY <1>1, <1>2, <1>5 DEF PlacesOK, Waiting, Popped, InFlight
<1>6. ASSUME NEW i \in Item, Push(i) PROVE PlacesOK'
  <2>1. given' = given /\ floor' < contiguousNext'
    BY <1>1, <1>2, <1>3, <1>4, <1>6 DEF Quiet, Push
  <2>2. i \in coming /\ i \notin OnQueue(queue)
    BY <1>6 DEF Push, PlacesOK
  <2>3. Single(queue') /\ OnQueue(queue') = OnQueue(queue) \cup {i} /\ coming' = coming \ {i}
    BY <1>0, <1>6, <2>2, QueueFacts DEF Push, PlacesOK
  <2>4. Waiting' = Waiting
    BY <2>2, <2>3 DEF Waiting
  <2>5. UNCHANGED <<write, floor>>
    BY <1>6 DEF Push
  <2> QED BY <2>1, <2>2, <2>3, <2>4, <2>5 DEF PlacesOK, Popped, InFlight
<1>7. ASSUME NEW i \in Item, SkipInner(i) PROVE PlacesOK'
  <2>1. /\ i \in coming /\ i \notin OnQueue(queue) /\ write[i] = "none"
        /\ coming' = coming \ {i} /\ given' = given \cup {SeqOf[i]} /\ UNCHANGED <<queue, write, floor>>
    BY <1>7 DEF SkipInner, PlacesOK, Waiting
  <2>2. floor' < contiguousNext'
    BY <1>1, <1>2, <1>3, <1>7, <2>1 DEF Calls
  <2>3. Waiting' = Waiting \ {i} /\ Popped' = Popped /\ InFlight' = InFlight /\ i \notin Popped
    BY <2>1 DEF Waiting, Popped, InFlight
  <2>4. Waiting \subseteq Item /\ Popped \subseteq Item
    BY <1>0 DEF Waiting, Popped
  <2>5. /\ \A j \in Waiting' : SeqOf[j] \in given' => SeqOf[j] <= floor'
        /\ \A j \in Popped' : SeqOf[j] \notin given'
    BY <1>0, <2>1, <2>3, <2>4 DEF PlacesOK
  <2> QED BY <2>1, <2>2, <2>3, <2>5 DEF PlacesOK
<1>8. ASSUME NEW i \in Item, Admit(i) \/ Refuse(i) PROVE PlacesOK'
  <2>1. given' = given /\ floor' < contiguousNext' /\ UNCHANGED <<coming, queue, floor>>
    BY <1>1, <1>2, <1>3, <1>4, <1>8 DEF Quiet, Admit, Refuse
  <2>2. write[i] \in {"new", "turn"}
        /\ (write' = [write EXCEPT ![i] = "turn"] \/ write' = [write EXCEPT ![i] = "none"])
    BY <1>8 DEF Admit, Refuse
  <2>3. Waiting' = Waiting /\ Popped' \subseteq Popped /\ InFlight' \subseteq InFlight
        /\ i \notin Waiting /\ \A j \in Item : write'[j] = "inner" => write[j] = "inner"
    BY <1>0, <2>1, <2>2 DEF Waiting, Popped, InFlight, PlacesOK
  <2>4. \A j \in Waiting' : write'[j] = "none"
    BY <1>0, <2>2, <2>3 DEF PlacesOK, Waiting
  <2> QED BY <2>1, <2>3, <2>4 DEF PlacesOK
<1>9. CASE Pop
  <2> DEFINE i == Head(queue)
  <2>1. given' = given /\ floor' < contiguousNext' /\ UNCHANGED <<coming, floor>>
    BY <1>1, <1>2, <1>3, <1>4, <1>9 DEF Quiet, Pop
  <2>2. i \in OnQueue(queue) /\ Single(queue') /\ OnQueue(queue') = OnQueue(queue) \ {i}
    BY <1>0, <1>9, QueueFacts DEF Pop, PlacesOK
  <2>3. write' = IF SeqOf[i] <= floor THEN write ELSE [write EXCEPT ![i] = "new"]
    BY <1>9 DEF Pop
  <2> HIDE DEF i
  <2>4. i \in Item /\ i \in Waiting /\ i \notin coming /\ Waiting' = Waiting \ {i} /\ Waiting \subseteq Item
    <3>1. coming \cap OnQueue(queue) = {} /\ coming \subseteq Item /\ OnQueue(queue) \subseteq Item
      BY <1>0 DEF PlacesOK
    <3> QED BY <2>1, <2>2, <3>1 DEF Waiting
  <2>5. \A j \in Waiting' : write'[j] = "none"
    BY <1>0, <2>3, <2>4 DEF PlacesOK
  <2>6. \A j \in Popped' : j \in Popped \/ (j = i /\ ~(SeqOf[i] <= floor))
    BY <1>0, <2>3, <2>4 DEF Popped
  <2>7. \A j \in InFlight' : j \in InFlight \/ (j = i /\ ~(SeqOf[i] <= floor))
    BY <1>0, <2>3, <2>4 DEF InFlight
  <2>8. \A j \in Item : write'[j] = "inner" => write[j] = "inner"
    BY <1>0, <2>3, <2>4
  <2>9. ~(SeqOf[i] <= floor) => SeqOf[i] > floor /\ SeqOf[i] \notin given
    BY <1>0, <2>4 DEF PlacesOK, Seq0
  <2> QED BY <2>1, <2>2, <2>4, <2>5, <2>6, <2>7, <2>8, <2>9 DEF PlacesOK
<1>10. ASSUME NEW i \in Item, WriteThrough(i) \/ WriteRolls(i) PROVE PlacesOK'
  <2>1. floor' < contiguousNext' /\ UNCHANGED <<coming, queue, floor>> /\ given' = given \cup {SeqOf[i]}
    BY <1>1, <1>2, <1>3, <1>10 DEF Calls, WriteThrough, WriteRolls
  <2>2. write[i] \in {"new", "turn"}
        /\ (write' = [write EXCEPT ![i] = "none"] \/ write' = [write EXCEPT ![i] = "inner"])
    BY <1>10 DEF WriteThrough, WriteRolls, HasTurn
  <2>3. Waiting' = Waiting /\ Popped' = Popped \ {i} /\ InFlight' \subseteq InFlight /\ i \notin Waiting
    BY <1>0, <2>1, <2>2 DEF Waiting, Popped, InFlight, PlacesOK
  <2>4. Waiting \subseteq Item /\ Popped \subseteq Item
    BY <1>0 DEF Waiting, Popped
  <2>5. /\ \A j \in Waiting' : SeqOf[j] \in given' => SeqOf[j] <= floor'
        /\ \A j \in Popped' : SeqOf[j] \notin given'
    BY <1>0, <2>1, <2>3, <2>4 DEF PlacesOK
  <2>6. \A j \in Waiting' : write'[j] = "none"
    BY <1>0, <2>2, <2>3, <2>4 DEF PlacesOK
  <2>7. \A j \in Item : write'[j] = "inner" => SeqOf[j] \in given'
    BY <1>0, <2>1, <2>2 DEF PlacesOK
  <2> QED BY <2>1, <2>3, <2>5, <2>6, <2>7 DEF PlacesOK
<1>11. ASSUME NEW i \in Item, WriteInnerFails(i) \/ \E p \in puts : Resolve(i, p) PROVE PlacesOK'
  <2>1. floor' < contiguousNext' /\ UNCHANGED <<coming, queue, floor, given>>
    BY <1>1, <1>2, <1>3, <1>11 DEF Calls, WriteInnerFails, Resolve
  <2>2. write[i] # "none" /\ write' = [write EXCEPT ![i] = "none"]
    BY <1>11 DEF WriteInnerFails, Resolve, HasTurn
  <2>3. Waiting' = Waiting /\ Popped' \subseteq Popped /\ InFlight' \subseteq InFlight
        /\ i \notin Waiting /\ \A j \in Item : write'[j] = "inner" => write[j] = "inner"
    BY <1>0, <2>1, <2>2 DEF Waiting, Popped, InFlight, PlacesOK
  <2>4. \A j \in Waiting' : write'[j] = "none"
    BY <1>0, <2>2, <2>3 DEF PlacesOK, Waiting
  <2> QED BY <2>1, <2>3, <2>4 DEF PlacesOK
<1>12. CASE \/ End \/ CancelQueued \/ Stop \/ StartFinish \/ EnterBarrier \/ LeaveBarrier
            \/ \E n \in Seq0 : SkipTurn(n)
  <2>1. UNCHANGED <<coming, queue, write, floor>>
    BY <1>12 DEF End, CancelQueued, Stop, StartFinish, EnterBarrier, LeaveBarrier, SkipTurn
  <2> QED BY <1>3, <1>4, <1>5, <1>12, <2>1 DEF Quiet
<1>13. CASE Finish \/ Store \/ FlushBehindBarrier \/ ReadSink
  <2>1. ASSUME Finish PROVE UNCHANGED <<coming, queue, write, floor, given>>
    BY <2>1, Zenon DEF Finish
  <2>2. ASSUME Store \/ FlushBehindBarrier \/ ReadSink PROVE UNCHANGED <<coming, queue, write, floor, given>>
    <3>1. UNCHANGED driveVars /\ UNCHANGED given
      BY <2>2, Zenon DEF Store, FlushBehindBarrier, ReadSink, ReadWatermark, ReadState
    <3> QED BY <3>1 DEF driveVars
  <2>3. UNCHANGED <<coming, queue, write, floor, given>>
    BY <1>13, <2>1, <2>2
  <2> QED BY <1>3, <1>5, <1>13, <2>3 DEF Calls
<1>14. CASE DriveResume
  <2>1. saved.watermark \in -1 .. N - 1 /\ saved.watermark + 1 > saved.watermark
    BY <1>14, ResumeMark DEF DriveResume, IInv
  <2>2. /\ coming' = Item /\ queue' = <<>> /\ write' = [i \in Item |-> "none"]
        /\ floor' = saved.watermark /\ given' = 0 .. saved.watermark
        /\ contiguousNext' = saved.watermark + 1
    BY <1>14 DEF DriveResume, Resume, SinkResume, NextOf
  <2>3. OnQueue(queue') = {} /\ Single(queue')
    BY <2>2 DEF OnQueue, Single
  <2>4. Waiting' = Item /\ Popped' = {} /\ InFlight' = {}
    BY <2>2, <2>3 DEF Waiting, Popped, InFlight
  <2>5. \A i \in Item : SeqOf[i] \in given' => SeqOf[i] <= floor'
    BY <2>1, <2>2
  <2>6. floor' < contiguousNext' /\ coming' \cap OnQueue(queue') = {} /\ \A i \in Item : write'[i] = "none"
    BY <2>1, <2>2, <2>3
  <2> QED BY <2>3, <2>4, <2>5, <2>6 DEF PlacesOK
<1>15. CASE UNCHANGED allVars
  BY <1>5, <1>15 DEF allVars, scVars, checkpointVars, driveVars
<1> QED BY <1>6, <1>7, <1>8, <1>9, <1>10, <1>11, <1>12, <1>13, <1>14, <1>15, DriveSteps DEF Quiet, Calls

-----------------------------------------------------------------------------
\* finish starts when nothing is left to write, and nothing comes after it.
LEMMA ExitKeeps ==
  ASSUME DInv, [DriveNext]_allVars
  PROVE  ExitOK'
<1> USE DEF DInv
<1>0. /\ write \in [Item -> {"none", "new", "turn", "inner"}]
      /\ exit \in {"none", "ending", "finishing", "over"}
  BY DEF DriveTypeOK
<1>1. ASSUME UNCHANGED <<puts, phase, exit, write, coming, queue, barrier>> PROVE ExitOK'
  BY <1>1 DEF ExitOK, Finishing, InFlight
<1>2. ASSUME exit' \in {"none", "ending"}, ~Finishing' PROVE ExitOK'
  BY <1>2 DEF ExitOK
<1>3. ASSUME exit \in {"none", "ending"}, \A q \in puts' : q \in puts \/ q.by # "finish"
      PROVE  ~Finishing'
  BY <1>3 DEF ExitOK, Finishing
<1>4. Quiet => puts' = puts /\ phase' = phase
  BY QuietIdle DEF SinkIdle, sinkVars
<1>5. ASSUME NEW i \in Item, Push(i) \/ Admit(i) \/ Refuse(i) PROVE ExitOK'
  <2>1. exit \in {"none", "ending"} /\ exit' \in {"none", "ending"}
    BY <1>0, <1>5 DEF Push, Admit, Refuse, Terminated, ExitOK, InFlight
  <2> QED BY <1>2, <1>3, <1>4, <1>5, <2>1 DEF Quiet
<1>6. CASE End \/ Pop
  <2>1. exit = "none" /\ exit' \in {"none", "ending"}
    BY <1>6 DEF End, Pop
  <2> QED BY <1>2, <1>3, <1>4, <1>6, <2>1 DEF Quiet
<1>7. CASE Stop \/ StartFinish
  <2>1. ~Finishing' /\ InFlight' = {} /\ exit' \in {"over", "finishing"}
    BY <1>3, <1>4, <1>7 DEF Quiet, Stop, StartFinish, InFlight
  <2>2. exit' = "finishing" => coming' = {} /\ queue' = <<>> /\ ~barrier'
    BY <1>7 DEF Stop, StartFinish
  <2> QED BY <2>1, <2>2 DEF ExitOK
<1>8. CASE EnterBarrier \/ CancelQueued
  <2>1. exit \in {"none", "ending"} /\ exit' = exit
    BY <1>8 DEF EnterBarrier, CancelQueued
  <2> QED BY <1>2, <1>3, <1>4, <1>8, <2>1 DEF Quiet
<1>9. CASE LeaveBarrier
  <2>1. puts' = puts /\ phase' = phase
    BY <1>4, <1>9 DEF Quiet
  <2> QED BY <1>9, <2>1 DEF LeaveBarrier, ExitOK, Finishing, InFlight
<1>10. ASSUME NEW n \in Seq0, SkipTurn(n) PROVE ExitOK'
  BY <1>1, <1>4, <1>10 DEF Quiet, SkipTurn
<1>11. ASSUME NEW i \in Item, SkipInner(i) PROVE ExitOK'
  <2>1. exit \in {"none", "ending"} /\ exit' = exit /\ puts' = puts
    BY <1>0, <1>11 DEF SkipInner, SinkSkip, ExitOK
  <2> QED BY <1>2, <1>3, <2>1
<1>12. ASSUME NEW i \in Item, write[i] # "none" PROVE exit \in {"none", "ending"}
  BY <1>0, <1>12 DEF ExitOK, InFlight
<1>13. ASSUME NEW i \in Item, WriteThrough(i) \/ WriteRolls(i) \/ WriteInnerFails(i) PROVE ExitOK'
  <2>1. exit \in {"none", "ending"}
    BY <1>12, <1>13 DEF WriteThrough, WriteRolls, WriteInnerFails, HasTurn
  <2>2. exit' \in {"none", "ending"}
    BY <1>13, <2>1 DEF WriteThrough, WriteRolls, WriteInnerFails, Terminated
  <2>3. \A q \in puts' : q \in puts \/ q.by # "finish"
    BY <1>13 DEF WriteThrough, WriteRolls, WriteInnerFails, Encode, EncodeFails, Put, sinkVars
  <2> QED BY <1>2, <1>3, <2>1, <2>2, <2>3
<1>14. ASSUME NEW i \in Item, NEW p \in puts, Resolve(i, p) PROVE ExitOK'
  <2>1. exit \in {"none", "ending"}
    BY <1>12, <1>14 DEF Resolve
  <2>2. exit' \in {"none", "ending"} /\ puts' \subseteq puts
    BY <1>14, <2>1 DEF Resolve, Commit, PutRefused, Terminated
  <2> QED BY <1>2, <1>3, <2>1, <2>2
<1>15. CASE Finish
  <2>1. exit = "finishing" /\ InFlight' = {} /\ UNCHANGED <<coming, queue, barrier>>
    BY <1>15 DEF Finish, ExitOK, InFlight
  <2>2. CASE puts = {} /\ FinishRoll /\ UNCHANGED exit
    <3>1. (\E p : puts' = {p}) /\ phase' = "open"
      BY <2>2 DEF FinishRoll
    <3> QED BY <2>1, <2>2, <3>1 DEF ExitOK
  <2>3. ASSUME exit' = "over", ~Finishing' PROVE ExitOK'
    BY <2>1, <2>3 DEF ExitOK
  <2>4. CASE /\ puts = {} /\ (FinishClosed(TRUE) \/ FinishClosed(FALSE) \/ FinishFails)
             /\ exit' = "over"
    <3>1. puts' = {}
      BY <2>4 DEF FinishClosed, FinishFails
    <3> QED BY <2>3, <2>4, <3>1 DEF Finishing
  <2>5. CASE phase # "open" /\ UNCHANGED sinkVars /\ exit' = "over"
    BY <2>3, <2>5 DEF ExitOK, Finishing, sinkVars
  <2>6. CASE /\ exit' = "over"
             /\ \E p \in puts : \/ FinishCommit(p, TRUE) \/ FinishCommit(p, FALSE)
                                \/ p.by = "finish" /\ PutRefused(p)
    <3>1. PICK p \in puts : p.by = "finish" /\ puts' = puts \ {p}
      BY <2>6 DEF FinishCommit, PutRefused
    <3> QED BY <2>3, <2>6, <3>1 DEF ExitOK, Finishing
  <2>7. \/ puts = {} /\ FinishRoll /\ UNCHANGED exit
        \/ puts = {} /\ (FinishClosed(TRUE) \/ FinishClosed(FALSE) \/ FinishFails) /\ exit' = "over"
        \/ phase # "open" /\ UNCHANGED sinkVars /\ exit' = "over"
        \/ \E p \in puts : (FinishCommit(p, TRUE) \/ FinishCommit(p, FALSE)) /\ exit' = "over"
        \/ \E p \in puts : p.by = "finish" /\ PutRefused(p) /\ exit' = "over"
    BY <1>15, Zenon DEF Finish
  <2> QED BY <2>2, <2>4, <2>5, <2>6, <2>7, Zenon
<1>16. CASE Store
  <2>1. UNCHANGED <<coming, queue, barrier, exit, write>>
    BY <1>16 DEF Store, driveVars
  <2>2. PICK p \in puts : PutLands(p) \/ PutFails(p) \/ (p.by = "nobody" /\ PutRefused(p))
    BY <1>16 DEF Store
  <2>3. CASE ~Finishing
    <3>1. ASSUME NEW v PROVE [p EXCEPT !.put = v].by = p.by
      BY DEF IInv, TypeOK
    <3>2. ~Finishing'
      BY <2>2, <2>3, <3>1 DEF Finishing, PutLands, PutFails, PutRefused
    <3> QED BY <2>1, <3>2 DEF ExitOK, InFlight
  <2>4. CASE Finishing
    <3>1. puts = {p} /\ p.by = "finish"
      BY <2>4 DEF ExitOK, Finishing
    <3>2. phase' = phase /\ \E v : puts' = {[p EXCEPT !.put = v]}
      BY <2>2, <3>1 DEF PutLands, PutFails
    <3> QED BY <2>1, <2>4, <3>2 DEF ExitOK, InFlight
  <2> QED BY <2>3, <2>4
<1>17. CASE FlushBehindBarrier
  <2>1. UNCHANGED <<coming, queue, barrier, exit, write>> /\ ~Finishing
    BY <1>17 DEF FlushBehindBarrier, driveVars, ExitOK
  <2>2. \A q \in puts' : q \in puts \/ q.by # "finish"
    <3>1. CASE Flush
      <4>1. puts' = puts \cup {Put("flush")} /\ Put("flush").by = "flush"
        BY <3>1 DEF Flush, Put
      <4> QED BY <4>1
    <3>2. CASE FlushFails
      BY <3>2 DEF FlushFails
    <3>3. ASSUME NEW p \in puts, Commit(p) \/ PutRefused(p) PROVE puts' \subseteq puts
      BY <3>3 DEF Commit, PutRefused
    <3> QED BY <1>17, <3>1, <3>2, <3>3 DEF FlushBehindBarrier
  <2>3. ~Finishing'
    BY <2>1, <2>2 DEF Finishing
  <2> QED BY <2>1, <2>3 DEF ExitOK, InFlight
<1>18. CASE ReadSink
  BY <1>1, <1>18 DEF ReadSink, ReadWatermark, ReadState, sinkVars, driveVars
<1>19. CASE DriveResume
  <2>1. exit' = "none" /\ puts' = {}
    BY <1>19 DEF DriveResume, Resume, SinkResume
  <2> QED BY <1>2, <2>1 DEF Finishing
<1>20. CASE UNCHANGED allVars
  BY <1>1, <1>20 DEF allVars, scVars, sinkVars, driveVars
<1> QED BY <1>5, <1>6, <1>7, <1>8, <1>9, <1>10, <1>11, <1>13, <1>14, <1>15, <1>16, <1>17, <1>18,
           <1>19, <1>20, DriveSteps DEF Quiet, Calls

-----------------------------------------------------------------------------
\* A turn that moves from e over numbers that were given passes none that may still be written.
LEMMA TurnMoves ==
  ASSUME DInv, ordered, NEW e \in 0 .. N,
         expected' \in e .. N, \A k \in Seq0 : e <= k /\ k < expected' => k \in given
  PROVE  /\ \A i \in Waiting : SeqOf[i] > floor /\ e <= SeqOf[i] => expected' <= SeqOf[i]
         /\ \A i \in Popped : e <= SeqOf[i] => expected' <= SeqOf[i]
<1>1. Waiting \subseteq Item /\ Popped \subseteq Item /\ \A i \in Item : SeqOf[i] \in Seq0 /\ SeqOf[i] \in Int
  <2>1. coming \subseteq Item /\ queue \in Seq(Item) /\ Single(queue)
    BY DEF DInv, DriveTypeOK, PlacesOK
  <2>2. OnQueue(queue) \subseteq Item
    BY <2>1, QueueFacts
  <2>3. \A i \in Item : SeqOf[i] \in Seq0 /\ SeqOf[i] \in Int
    BY FileSinkAssumption DEF Seq0
  <2> QED BY <2>1, <2>2, <2>3 DEF Waiting, Popped
<1>2. floor \in -1 .. N - 1
  BY DEF DInv, DriveTypeOK
<1>3. ASSUME NEW i \in Item, SeqOf[i] \notin given, e <= SeqOf[i] PROVE expected' <= SeqOf[i]
  BY <1>1, <1>3
<1>4. ASSUME NEW i \in Waiting, SeqOf[i] > floor PROVE SeqOf[i] \notin given
  <2>1. ~(SeqOf[i] <= floor)
    BY <1>1, <1>2, <1>4
  <2> QED BY <2>1 DEF DInv, PlacesOK
<1>5. \A i \in Popped : SeqOf[i] \notin given
  BY DEF DInv, PlacesOK
<1> QED BY <1>1, <1>3, <1>4, <1>5

\* The turn moves over numbers that were given, and what is given with it is the number it was at.
LEMMA OrderMoves ==
  ASSUME OrderOK, expected \in 0 .. N, expected' \in expected .. N,
         given \subseteq Seq0, given \subseteq given', given' \subseteq given \cup {expected}, skipped' = skipped,
         \A k \in Seq0 : expected <= k /\ k < expected' => k \in given' \/ exit' \in {"ending", "over"},
         exit \in {"ending", "over"} => exit' \in {"ending", "over"}
  PROVE  OrderOK'
<1> USE FileSinkAssumption DEF Seq0
<1>1. ASSUME NEW k \in Seq0, k < expected' PROVE k \in given' \/ exit' \in {"ending", "over"}
  <2>1. CASE k < expected
    BY <2>1 DEF OrderOK
  <2>2. CASE ~(k < expected)
    BY <1>1, <2>2
  <2> QED BY <2>1, <2>2
<1>2. ASSUME NEW k \in given' \ skipped' PROVE k <= expected'
  <2>1. k <= expected /\ k \in Int
    BY DEF OrderOK
  <2> QED BY <2>1
<1> QED BY <1>1, <1>2 DEF OrderOK

\* An ordered handle: the turn stays where the next write is, and the writes stay in order.
LEMMA OrderKeeps ==
  ASSUME DInv, [DriveNext]_allVars, ordered
  PROVE  TurnOK' /\ OrderOK'
<1> USE DEF DInv
<1>0. /\ coming \subseteq Item /\ OnQueue(queue) \subseteq Item /\ queue \in Seq(Item)
      /\ Waiting \subseteq Item /\ Popped \subseteq Item
      /\ write \in [Item -> {"none", "new", "turn", "inner"}]
      /\ floor \in -1 .. N - 1 /\ expected \in 0 .. N /\ given \subseteq Seq0
      /\ ahead \in SUBSET Seq0 /\ ahead \subseteq given /\ skipping \subseteq given
      /\ \A i \in Item : SeqOf[i] \in Seq0 /\ SeqOf[i] \in Int
      /\ \A i, j \in Item : SeqOf[i] = SeqOf[j] => i = j
      /\ exit \in {"none", "ending", "finishing", "over"}
  <2>1. coming \subseteq Item /\ queue \in Seq(Item) /\ Single(queue)
    BY DEF DriveTypeOK, PlacesOK
  <2>2. OnQueue(queue) \subseteq Item
    BY <2>1, QueueFacts
  <2>3. Waiting \subseteq Item /\ Popped \subseteq Item
    BY <2>1, <2>2 DEF Waiting, Popped
  <2>4. /\ write \in [Item -> {"none", "new", "turn", "inner"}]
        /\ floor \in -1 .. N - 1 /\ expected \in 0 .. N
        /\ exit \in {"none", "ending", "finishing", "over"}
    BY DEF DriveTypeOK
  <2>5. given \subseteq Seq0 /\ ahead \subseteq given /\ skipping \subseteq given
    BY DEF IInv, TypeOK, TurnOK
  <2>6. \A i \in Item : SeqOf[i] \in Seq0 /\ SeqOf[i] \in Int
    BY FileSinkAssumption DEF Seq0
  <2>7. \A i, j \in Item : SeqOf[i] = SeqOf[j] => i = j
    BY SinkDriveAssumption
  <2> QED BY <2>1, <2>2, <2>3, <2>4, <2>5, <2>6, <2>7
<1>1. Quiet => UNCHANGED <<given, skipped>>
  BY QuietIdle DEF SinkIdle
<1>2. ASSUME UNCHANGED <<given, skipped, expected>>, exit \in {"ending", "over"} => exit' \in {"ending", "over"}
      PROVE  OrderOK'
  BY <1>2 DEF OrderOK
<1>3. ASSUME UNCHANGED <<given, skipped, expected, ahead, skipping, floor>>,
             Waiting' \subseteq Waiting, Popped' \subseteq Popped,
             \A i \in Item : write'[i] = "inner" => write[i] = "inner"
      PROVE  TurnOK'
  BY <1>3 DEF TurnOK
<1>4. ASSUME NEW e \in 0 .. N, e >= expected, NEW a \in SUBSET Seq0, a \subseteq given,
             NEW w, AdvanceTurn(e, w, a)
      PROVE  /\ expected' \in e .. N /\ ahead' \subseteq given
             /\ \A k \in Seq0 : e <= k /\ k < expected' => k \in given
             /\ ahead' \subseteq a /\ \A k \in Seq0 : e <= k /\ k < expected' => k \in a
  <2>1. /\ expected' \in e .. N /\ ahead' \subseteq a
        /\ \A k \in Seq0 : e <= k /\ k < expected' => k \in a \ Seqs(Queued(w))
    BY <1>4, TurnFacts
  <2> QED BY <1>4, <2>1
<1>5. ASSUME NEW i \in Item, Push(i) PROVE TurnOK' /\ OrderOK'
  <2>1. i \in coming /\ i \notin OnQueue(queue)
    BY <1>5 DEF Push, PlacesOK
  <2>2. OnQueue(queue') = OnQueue(queue) \cup {i} /\ coming' = coming \ {i}
    BY <1>0, <1>5, <2>1, QueueFacts DEF Push, PlacesOK
  <2>3. Waiting' = Waiting
    BY <2>1, <2>2 DEF Waiting
  <2>4. UNCHANGED <<given, skipped, expected, ahead, skipping, floor, write, exit>>
    BY <1>1, <1>5 DEF Quiet, Push, bufferVars
  <2> QED BY <1>2, <1>3, <2>3, <2>4 DEF Popped
<1>6. ASSUME NEW i \in Item, SkipInner(i) PROVE TurnOK' /\ OrderOK'
  <2>1. /\ i \in coming /\ i \notin OnQueue(queue) /\ write[i] = "none"
        /\ coming' = coming \ {i} /\ given' = given \cup {SeqOf[i]}
        /\ skipped' = skipped \cup ({SeqOf[i]} \ given) /\ skipping' = skipping \cup {SeqOf[i]}
        /\ UNCHANGED <<queue, write, floor, expected, ahead, exit>>
    BY <1>6 DEF SkipInner, PlacesOK, Waiting, bufferVars
  <2>2. Waiting' \subseteq Waiting /\ Popped' = Popped
    BY <2>1 DEF Waiting, Popped
  <2>3. ASSUME NEW j \in Item, write[j] = "inner" PROVE SeqOf[j] # SeqOf[i]
    BY <1>0, <2>1, <2>3
  <2>4. TurnOK'
    BY <2>1, <2>2, <2>3 DEF TurnOK
  <2>5. OrderOK'
    BY <2>1 DEF OrderOK
  <2> QED BY <2>4, <2>5
<1>7. ASSUME NEW n \in Seq0, SkipTurn(n) PROVE TurnOK' /\ OrderOK'
  <2>1. /\ UNCHANGED <<given, skipped, floor, write, coming, queue, exit>>
        /\ skipping' \subseteq skipping /\ n \in skipping /\ n \in given
    BY <1>0, <1>1, <1>7 DEF Quiet, SkipTurn
  <2>2. Waiting' = Waiting /\ Popped' = Popped
    BY <2>1 DEF Waiting, Popped
  <2>3. CASE n < expected
    <3>1. expected' = expected /\ ahead' = ahead
      BY <1>7, <2>3 DEF SkipTurn
    <3>2. TurnOK'
      BY <2>1, <2>2, <3>1 DEF TurnOK
    <3> QED BY <1>2, <2>1, <3>1, <3>2
  <2>4. CASE n = expected /\ AdvanceTurn(n + 1, write, ahead)
    <3>1. n + 1 \in 0 .. N /\ n + 1 >= expected
      BY <2>4, FileSinkAssumption DEF Seq0
    <3>2. /\ expected' \in n + 1 .. N /\ ahead' \subseteq given
          /\ \A k \in Seq0 : n + 1 <= k /\ k < expected' => k \in given
      BY <1>0, <1>4, <2>4, <3>1
    <3>3. expected' \in expected .. N /\ \A k \in Seq0 : expected <= k /\ k < expected' => k \in given
      <4>1. expected' \in expected .. N
        BY <1>0, <2>4, <3>2
      <4>2. ASSUME NEW k \in Seq0, expected <= k, k < expected' PROVE k \in given
        <5>1. k = n \/ n + 1 <= k
          BY <2>4, <4>2 DEF Seq0
        <5> QED BY <2>1, <3>2, <4>2, <5>1
      <4> QED BY <4>1, <4>2
    <3>4. /\ \A i \in Waiting : SeqOf[i] > floor => expected' <= SeqOf[i]
          /\ \A i \in Popped : expected' <= SeqOf[i]
      BY <1>0, <3>3, TurnMoves DEF TurnOK
    <3>5. \A i \in Item : write[i] # "inner"
      BY <2>1, <2>4 DEF TurnOK
    <3>6. TurnOK'
      BY <1>0, <2>1, <2>2, <3>2, <3>4, <3>5 DEF TurnOK
    <3>7. OrderOK'
      BY <1>0, <2>1, <3>3, OrderMoves
    <3> QED BY <3>6, <3>7
  <2>5. CASE AdvanceTurn(expected, write, ahead \cup {n})
    <3>1. ahead \cup {n} \in SUBSET Seq0 /\ ahead \cup {n} \subseteq given /\ expected >= expected
      BY <1>0, <2>1
    <3>2. /\ expected' \in expected .. N /\ ahead' \subseteq given
          /\ \A k \in Seq0 : expected <= k /\ k < expected' => k \in given
          /\ ahead' \subseteq ahead \cup {n}
          /\ \A k \in Seq0 : expected <= k /\ k < expected' => k \in ahead \cup {n}
      BY <1>0, <1>4, <2>5, <3>1
    <3>3. /\ \A i \in Waiting : SeqOf[i] > floor => expected' <= SeqOf[i]
          /\ \A i \in Popped : expected' <= SeqOf[i]
      BY <1>0, <3>2, TurnMoves DEF TurnOK
    <3>4. ASSUME NEW i \in Item, write[i] = "inner"
          PROVE  expected' = expected /\ expected \notin ahead' \cup skipping'
      <4>1. expected \notin ahead \cup {n} /\ expected \notin skipping /\ expected \in Seq0
        BY <1>0, <2>1, <3>4 DEF TurnOK
      <4>2. expected' = expected
        BY <1>0, <3>2, <4>1
      <4> QED BY <2>1, <3>2, <4>1, <4>2
    <3>5. TurnOK'
      BY <1>0, <2>1, <2>2, <3>2, <3>3, <3>4 DEF TurnOK
    <3>6. OrderOK'
      BY <1>0, <2>1, <3>2, OrderMoves
    <3> QED BY <3>5, <3>6
  <2> QED BY <1>7, <2>3, <2>4, <2>5 DEF SkipTurn
<1>8. ASSUME NEW i \in Item, Admit(i) PROVE TurnOK' /\ OrderOK'
  <2>1. /\ UNCHANGED <<given, skipped, floor, skipping, coming, queue, exit>>
        /\ write[i] = "new" /\ write' = [write EXCEPT ![i] = "turn"]
        /\ AdvanceTurn(expected, write', ahead)
    BY <1>1, <1>8 DEF Quiet, Admit
  <2>2. Waiting' = Waiting /\ Popped' = Popped /\ \A j \in Item : write'[j] = "inner" => write[j] = "inner"
    BY <1>0, <2>1 DEF Waiting, Popped
  <2>3. /\ expected' \in expected .. N /\ ahead' \subseteq given
        /\ \A k \in Seq0 : expected <= k /\ k < expected' => k \in given
        /\ ahead' \subseteq ahead /\ \A k \in Seq0 : expected <= k /\ k < expected' => k \in ahead
    <3>1. expected >= expected
      BY <1>0
    <3> QED BY <1>0, <1>4, <2>1, <3>1
  <2>4. /\ \A j \in Waiting : SeqOf[j] > floor => expected' <= SeqOf[j]
        /\ \A j \in Popped : expected' <= SeqOf[j]
    BY <1>0, <2>3, TurnMoves DEF TurnOK
  <2>5. ASSUME NEW j \in Item, write[j] = "inner" PROVE expected' = expected
    <3>1. expected \notin ahead /\ expected \in Seq0
      BY <1>0, <2>5 DEF TurnOK
    <3> QED BY <1>0, <2>3, <3>1
  <2>6. TurnOK'
    <3>1. ASSUME NEW j \in Item, write'[j] = "inner"
          PROVE  SeqOf[j] = expected' /\ expected' \notin ahead' \cup skipping'
      <4>1. write[j] = "inner" /\ expected' = expected
        BY <2>2, <2>5, <3>1
      <4>2. SeqOf[j] = expected /\ expected \notin ahead \cup skipping
        BY <4>1 DEF TurnOK
      <4> QED BY <2>1, <2>3, <4>1, <4>2
    <3>2. ahead' \cup skipping' \subseteq given'
      BY <1>0, <2>1, <2>3
    <3> QED BY <2>1, <2>2, <2>4, <3>1, <3>2 DEF TurnOK
  <2>7. OrderOK'
    BY <1>0, <2>1, <2>3, OrderMoves
  <2> QED BY <2>6, <2>7
<1>9. ASSUME NEW i \in Item, Refuse(i) PROVE TurnOK' /\ OrderOK'
  <2>1. /\ UNCHANGED <<given, skipped, floor, skipping, coming, queue, expected, ahead>>
        /\ write' = [write EXCEPT ![i] = "none"]
        /\ exit \in {"ending", "over"} => exit' \in {"ending", "over"}
    BY <1>1, <1>9 DEF Quiet, Refuse, bufferVars, Terminated
  <2>2. Waiting' = Waiting /\ Popped' \subseteq Popped
        /\ \A j \in Item : write'[j] = "inner" => write[j] = "inner"
    BY <1>0, <2>1 DEF Waiting, Popped
  <2> QED BY <1>2, <1>3, <2>1, <2>2
<1>10. CASE Pop
  <2> DEFINE i == Head(queue)
  <2>1. UNCHANGED <<given, skipped, floor, skipping, coming, exit, expected, ahead>>
    BY <1>1, <1>10 DEF Quiet, Pop, bufferVars
  <2>2. i \in OnQueue(queue) /\ OnQueue(queue') = OnQueue(queue) \ {i}
    BY <1>0, <1>10, QueueFacts DEF Pop, PlacesOK
  <2>3. write' = IF SeqOf[i] <= floor THEN write ELSE [write EXCEPT ![i] = "new"]
    BY <1>10 DEF Pop
  <2> HIDE DEF i
  <2>4. i \in Item /\ i \in Waiting /\ Waiting' \subseteq Waiting
    BY <1>0, <2>1, <2>2 DEF Waiting
  <2>5. \A j \in Popped' : j \in Popped \/ (j = i /\ SeqOf[i] > floor)
    BY <1>0, <2>3, <2>4 DEF Popped
  <2>6. \A j \in Item : write'[j] = "inner" => write[j] = "inner"
    BY <1>0, <2>3, <2>4
  <2>7. TurnOK'
    BY <2>1, <2>4, <2>5, <2>6 DEF TurnOK
  <2> QED BY <1>2, <2>1, <2>7
<1>11. CASE End \/ CancelQueued \/ Stop \/ StartFinish \/ EnterBarrier \/ LeaveBarrier
  <2>1. UNCHANGED <<given, skipped, floor, skipping, coming, queue, write, expected, ahead>>
    BY <1>1, <1>11 DEF Quiet, End, CancelQueued, Stop, StartFinish, EnterBarrier, LeaveBarrier, bufferVars
  <2>2. exit \in {"ending", "over"} => exit' \in {"ending", "over"}
    BY <1>11 DEF End, CancelQueued, Stop, StartFinish, EnterBarrier, LeaveBarrier
  <2> QED BY <1>2, <1>3, <2>1, <2>2 DEF Waiting, Popped
<1>12. ASSUME NEW i \in Item, HasTurn(i)
       PROVE  SeqOf[i] = expected /\ i \in Popped /\ i \notin Waiting
  BY <1>12 DEF HasTurn, Popped, PlacesOK
<1>13. ASSUME NEW i \in Item, write[i] # "none", SeqOf[i] = expected, PassTurn(SeqOf[i], write'),
              write' = [write EXCEPT ![i] = "none"],
              given' = given \/ given' = given \cup {SeqOf[i]},
              UNCHANGED <<floor, skipping, coming, queue>>
       PROVE  TurnOK' /\ expected' \in expected + 1 .. N
              /\ \A k \in Seq0 : expected + 1 <= k /\ k < expected' => k \in given
  <2>1. expected + 1 \in 0 .. N
    <3>1. expected \in Seq0 /\ N \in Nat
      BY <1>0, <1>13, FileSinkAssumption
    <3> QED BY <3>1 DEF Seq0
  <2>2. /\ expected' \in expected + 1 .. N /\ ahead' \subseteq ahead
        /\ \A k \in Seq0 : expected + 1 <= k /\ k < expected' => k \in ahead
    BY <1>0, <1>13, PassFacts
  <2>3. Waiting' = Waiting /\ Popped' = Popped \ {i} /\ i \notin Waiting
    BY <1>0, <1>13 DEF Waiting, Popped, PlacesOK
  <2>4. \A j \in Item : write'[j] # "inner"
    BY <1>0, <1>13 DEF TurnOK
  <2>5. \A j \in Item : j # i /\ expected <= SeqOf[j] => expected + 1 <= SeqOf[j]
    BY <1>0, <1>13
  <2>6. \A k \in Seq0 : expected + 1 <= k /\ k < expected' => k \in given
    BY <1>0, <2>2
  <2>7. /\ \A j \in Waiting : SeqOf[j] > floor /\ expected + 1 <= SeqOf[j] => expected' <= SeqOf[j]
        /\ \A j \in Popped : expected + 1 <= SeqOf[j] => expected' <= SeqOf[j]
    BY <2>1, <2>2, <2>6, TurnMoves
  <2>8. /\ \A j \in Waiting' : SeqOf[j] > floor => expected' <= SeqOf[j]
        /\ \A j \in Popped' : expected' <= SeqOf[j]
    BY <1>0, <2>3, <2>5, <2>7 DEF TurnOK
  <2>9. ahead' \cup skipping' \subseteq given'
    BY <1>0, <1>13, <2>2
  <2> QED BY <1>13, <2>2, <2>4, <2>6, <2>8, <2>9 DEF TurnOK
<1>14. ASSUME NEW i \in Item, WriteThrough(i) PROVE TurnOK' /\ OrderOK'
  <2>1. SeqOf[i] = expected /\ write[i] # "none"
    BY <1>12, <1>14 DEF WriteThrough, Popped
  <2>2. /\ UNCHANGED <<skipped, floor, skipping, coming, queue, exit>> /\ given' = given \cup {SeqOf[i]}
        /\ write' = [write EXCEPT ![i] = "none"] /\ PassTurn(SeqOf[i], write')
    BY <1>14 DEF WriteThrough
  <2>3. /\ TurnOK' /\ expected' \in expected + 1 .. N
        /\ \A k \in Seq0 : expected + 1 <= k /\ k < expected' => k \in given
    BY <1>13, <2>1, <2>2
  <2>4. OrderOK'
    <3>1. expected' \in expected .. N
      BY <1>0, <2>3
    <3>2. \A k \in Seq0 : expected <= k /\ k < expected' => k \in given'
      <4>1. expected \in given' /\ \A k \in Seq0 : expected + 1 <= k /\ k < expected' => k \in given'
        BY <2>1, <2>2, <2>3
      <4>2. \A k \in Seq0 : expected <= k => k = expected \/ expected + 1 <= k
        BY <1>0 DEF Seq0
      <4> QED BY <4>1, <4>2
    <3> QED BY <1>0, <2>1, <2>2, <3>1, <3>2, OrderMoves
  <2> QED BY <2>3, <2>4
<1>15. ASSUME NEW i \in Item, WriteRolls(i) PROVE TurnOK' /\ OrderOK'
  <2>1. SeqOf[i] = expected /\ SeqOf[i] \notin given
    BY <1>12, <1>15 DEF WriteRolls, PlacesOK
  <2>2. /\ UNCHANGED <<skipped, floor, skipping, coming, queue, exit, expected, ahead>>
        /\ given' = given \cup {SeqOf[i]} /\ write' = [write EXCEPT ![i] = "inner"]
    BY <1>15 DEF WriteRolls
  <2>3. Waiting' = Waiting /\ Popped' \subseteq Popped
        /\ \A j \in Item : write'[j] = "inner" => write[j] = "inner" \/ j = i
    BY <1>0, <2>2 DEF Waiting, Popped
  <2>4. expected \notin ahead \cup skipping
    BY <1>0, <2>1
  <2>5. TurnOK'
    BY <2>1, <2>2, <2>3, <2>4 DEF TurnOK
  <2>6. OrderOK'
    <3>1. expected' \in expected .. N /\ \A k \in Seq0 : ~(expected <= k /\ k < expected')
      <4>1. expected' = expected /\ expected \in 0 .. N
        BY <1>0, <2>2
      <4> QED BY <4>1 DEF Seq0
    <3> QED BY <1>0, <2>1, <2>2, <3>1, OrderMoves
  <2> QED BY <2>5, <2>6
<1>16. ASSUME NEW i \in Item, WriteInnerFails(i) PROVE TurnOK' /\ OrderOK'
  <2>1. SeqOf[i] = expected /\ write[i] # "none"
    BY <1>12, <1>16 DEF WriteInnerFails, Popped
  <2>2. /\ UNCHANGED <<skipped, given, floor, skipping, coming, queue>>
        /\ write' = [write EXCEPT ![i] = "none"] /\ PassTurn(SeqOf[i], write')
    BY <1>16 DEF WriteInnerFails
  <2>3. TurnOK' /\ expected' \in expected + 1 .. N
    BY <1>13, <2>1, <2>2
  <2>4. exit' = "ending"
    BY <1>0, <1>16, <2>1 DEF WriteInnerFails, Terminated, ExitOK, InFlight
  <2>5. OrderOK'
    <3>1. expected' \in expected .. N
      BY <1>0, <2>3
    <3> QED BY <1>0, <2>2, <2>4, <3>1, OrderMoves
  <2> QED BY <2>3, <2>5
<1>17. ASSUME NEW i \in Item, NEW p \in puts, Resolve(i, p) PROVE TurnOK' /\ OrderOK'
  <2>1. SeqOf[i] = expected /\ write[i] = "inner" /\ expected \in given
    BY <1>17 DEF Resolve, TurnOK, PlacesOK
  <2>2. /\ UNCHANGED <<skipped, given, floor, skipping, coming, queue>>
        /\ write' = [write EXCEPT ![i] = "none"] /\ PassTurn(SeqOf[i], write')
        /\ exit \in {"ending", "over"} => exit' \in {"ending", "over"}
    BY <1>17 DEF Resolve, Terminated
  <2>3. /\ TurnOK' /\ expected' \in expected + 1 .. N
        /\ \A k \in Seq0 : expected + 1 <= k /\ k < expected' => k \in given
    BY <1>13, <2>1, <2>2
  <2>4. OrderOK'
    <3>1. expected' \in expected .. N
      BY <1>0, <2>3
    <3>2. \A k \in Seq0 : expected <= k /\ k < expected' => k \in given'
      <4>1. expected \in given' /\ \A k \in Seq0 : expected + 1 <= k /\ k < expected' => k \in given'
        BY <2>1, <2>2, <2>3
      <4>2. \A k \in Seq0 : expected <= k => k = expected \/ expected + 1 <= k
        BY <1>0 DEF Seq0
      <4> QED BY <4>1, <4>2
    <3> QED BY <1>0, <2>1, <2>2, <3>1, <3>2, OrderMoves
  <2> QED BY <2>3, <2>4
<1>18. CASE Finish \/ Store \/ FlushBehindBarrier \/ ReadSink
  <2>1. UNCHANGED <<given, skipped, floor, skipping, coming, queue, write, expected, ahead>>
    BY <1>18 DEF Finish, Store, FlushBehindBarrier, ReadSink, ReadWatermark, ReadState, driveVars, bufferVars
  <2>2. exit \in {"ending", "over"} => exit' \in {"ending", "over"}
    BY <1>18 DEF Finish, Store, FlushBehindBarrier, ReadSink, driveVars
  <2> QED BY <1>2, <1>3, <2>1, <2>2 DEF Waiting, Popped
<1>19. CASE DriveResume
  <2>1. saved.watermark \in -1 .. N - 1
    BY <1>19, ResumeMark DEF DriveResume, IInv
  <2>2. /\ write' = [i \in Item |-> "none"] /\ ahead' = {} /\ skipping' = {}
        /\ floor' = saved.watermark /\ given' = 0 .. saved.watermark
        /\ expected' = saved.watermark + 1 /\ coming' = Item /\ queue' = <<>>
    BY <1>19 DEF DriveResume, Resume, NextOf
  <2>3. Waiting' = Item /\ Popped' = {} /\ \A i \in Item : write'[i] # "inner"
    BY <2>2 DEF Waiting, Popped, OnQueue
  <2>4. TurnOK'
    <3>1. \A i \in Item : SeqOf[i] > floor' => expected' <= SeqOf[i]
      BY <1>0, <2>1, <2>2
    <3>2. ahead' \cup skipping' \subseteq given'
      BY <2>2
    <3> QED BY <2>3, <3>1, <3>2 DEF TurnOK
  <2>5. OrderOK'
    BY <2>1, <2>2, FileSinkAssumption DEF OrderOK, Seq0
  <2> QED BY <2>4, <2>5
<1>20. CASE UNCHANGED allVars
  <2>1. UNCHANGED <<given, skipped, floor, skipping, coming, queue, write, expected, ahead, exit>>
    BY <1>20 DEF allVars, scVars, checkpointVars, driveVars, bufferVars
  <2> QED BY <1>2, <1>3, <2>1 DEF Waiting, Popped
<1> QED BY <1>5, <1>6, <1>7, <1>8, <1>9, <1>10, <1>11, <1>14, <1>15, <1>16, <1>17, <1>18, <1>19, <1>20,
           DriveSteps DEF Quiet, Calls

-----------------------------------------------------------------------------
\* A new run.
LEMMA DriveInitKeeps == DriveInit => DInv
<1> SUFFICES ASSUME DriveInit PROVE DInv
  OBVIOUS
<1> USE DEF DriveInit
<1>1. IInv /\ TypeOK
  BY InitKeeps DEF IInv
<1>2. /\ given = {} /\ puts = {} /\ contiguousNext = 0
  BY DEF Init, SinkInit
<1>3. OnQueue(queue) = {} /\ Single(queue) /\ queue \in Seq(Item)
  BY DEF OnQueue, Single
<1>4. Popped = {} /\ InFlight = {} /\ \A i \in Item : SeqOf[i] \in Seq0
  BY FileSinkAssumption DEF Popped, InFlight, Seq0
<1>5. DriveTypeOK
  <2>1. write \in [Item -> {"none", "new", "turn", "inner"}] /\ file \in [Item -> Nat \cup {-1}]
    OBVIOUS
  <2>2. expected \in 0 .. N /\ floor \in -1 .. N - 1
    BY FileSinkAssumption
  <2> QED BY <1>1, <1>3, <2>1, <2>2 DEF DriveTypeOK
<1>6. PlacesOK
  BY <1>2, <1>3, <1>4 DEF PlacesOK, Waiting
<1>7. ExitOK
  BY <1>2 DEF ExitOK, Finishing
<1>8. TurnOK /\ OrderOK
  BY <1>2, <1>3, <1>4 DEF TurnOK, OrderOK, Waiting, Seq0
<1> QED BY <1>1, <1>5, <1>6, <1>7, <1>8 DEF DInv

\* Every step of the drive, of the stages, of the store and of the checkpoint.
LEMMA DriveStepKeeps == DInv /\ [DriveNext]_allVars => DInv'
<1> SUFFICES ASSUME DInv, [DriveNext]_allVars PROVE DInv'
  OBVIOUS
<1>1. IInv'
  BY DriveMaps, StepKeeps DEF DInv
<1>2. DriveTypeOK'
  BY <1>1, TypeKeeps DEF IInv
<1>3. PlacesOK' /\ ExitOK'
  BY PlacesKeep, ExitKeeps
<1>4. ordered' = ordered
  BY DriveSteps DEF Quiet, Calls, Push, Admit, Refuse, SkipTurn, End, Pop, CancelQueued, Stop, StartFinish,
     EnterBarrier, LeaveBarrier, SkipInner, WriteThrough, WriteRolls, WriteInnerFails, Resolve, Finish,
     Store, FlushBehindBarrier, ReadSink, DriveResume, allVars, driveVars
<1>5. ordered' => TurnOK' /\ OrderOK'
  BY <1>4, OrderKeeps
<1> QED BY <1>1, <1>2, <1>3, <1>5 DEF DInv

\* The reorder buffer takes what the drive pops, and the inner sink gets it in order.
LEMMA OrderPromises == DInv => NeverOutOfRange
<1> SUFFICES ASSUME DInv, ordered, ~cancelled, NEW i \in Item, write[i] = "new" PROVE InRange(i)
  BY DEF NeverOutOfRange
<1>1. i \in Popped /\ SeqOf[i] \notin given /\ SeqOf[i] >= expected /\ SeqOf[i] \notin ahead
  BY FileSinkAssumption DEF DInv, PlacesOK, TurnOK, Popped, DriveTypeOK
<1>2. SeqOf[i] \notin Seqs(Queued(write))
  BY SinkDriveAssumption DEF Seqs, Queued
<1> QED BY <1>1, <1>2 DEF InRange

\* A morsel enters the open file in a write that has the turn.
LEMMA OnlyWritesEnter ==
  ASSUME TypeOK, [DriveNext]_allVars, NEW i \in Item, current' # None, i \in current'.data,
         current = None \/ i \notin current.data
  PROVE  HasTurn(i)
<1>1. current' # current
  OBVIOUS
<1>2. ~Quiet
  BY <1>1, QuietIdle DEF SinkIdle, sinkVars
<1>3. ASSUME NEW j \in Item, WriteThrough(j) \/ WriteRolls(j) PROVE HasTurn(i)
  <2>1. HasTurn(j) /\ (Encode(j, TRUE) \/ Encode(j, FALSE))
    BY <1>3 DEF WriteThrough, WriteRolls
  <2>2. \/ current # None /\ current' = [current EXCEPT !.data = @ \cup {j}]
        \/ current' = [name |-> nextIndex, data |-> {j}]
    BY <2>1 DEF Encode
  <2>3. CASE current # None /\ current' = [current EXCEPT !.data = @ \cup {j}]
    <3>1. current'.data = current.data \cup {j}
      BY <2>3 DEF TypeOK
    <3> QED BY <2>1, <2>3, <3>1
  <2>4. CASE current' = [name |-> nextIndex, data |-> {j}]
    BY <2>1, <2>4
  <2> QED BY <2>2, <2>3, <2>4
<1>4. ASSUME NEW j \in Item, SkipInner(j) \/ WriteInnerFails(j) PROVE FALSE
  BY <1>1, <1>4 DEF SkipInner, SinkSkip, WriteInnerFails, EncodeFails, sinkVars
<1>5. ASSUME NEW j \in Item, NEW p \in puts, Resolve(j, p) PROVE FALSE
  BY <1>1, <1>5 DEF Resolve, Commit, PutRefused
<1>6. ~(Finish \/ Store \/ FlushBehindBarrier \/ ReadSink \/ DriveResume)
  BY <1>1 DEF Finish, FinishRoll, FinishFails, FinishClosed, FinishCommit, PutRefused, Store, PutLands,
     PutFails, FlushBehindBarrier, Flush, FlushFails, Commit, ReadSink, ReadWatermark, ReadState, sinkVars,
     DriveResume, Resume, SinkResume
<1>7. ~UNCHANGED allVars
  BY <1>1 DEF allVars, scVars, sinkVars
<1> QED BY <1>2, <1>3, <1>4, <1>5, <1>6, <1>7, DriveSteps DEF Calls

-----------------------------------------------------------------------------
\* Where a morsel is, what the sink was given and whose turn it is agree in every reachable state.
THEOREM DriveInvariance == DriveSpec => []DInv
BY DriveInitKeeps, DriveStepKeeps, PTL DEF DriveSpec

\* Every reachable state of the drive and of the reorder buffer is well typed.
THEOREM DriveTypeCorrect == DriveSpec => []DriveTypeOK
<1>1. DInv => DriveTypeOK
  BY DEF DInv
<1> QED BY <1>1, DriveInvariance, PTL

\* run_sink_drive and ReorderBuffer call the sink as SinkCheckpoint allows, whatever the queue, the
\* skips, the barrier, the store and a resume do: each number once, and none while finish has the sink.
THEOREM DriveImplements == DriveSpec => Implements
<1>1. DriveInit => Init
  BY DEF DriveInit
<1> QED BY <1>1, DriveInvariance, DriveMaps, PTL DEF DriveSpec, Implements, Spec

\* What the manifest and the store hold is right under the drive too.
THEOREM DriveKeepsOutput == DriveSpec => [](NeverOverstates /\ ManifestKeepsOutput /\ WrittenOnce)
<1>1. DInv => NeverOverstates /\ ManifestKeepsOutput /\ WrittenOnce
  BY Promises DEF DInv, IInv
<1> QED BY <1>1, DriveInvariance, PTL

\* ReorderBuffer::admit never answers "sequence out of range" to a write the drive hands it.
THEOREM DriveInRange == DriveSpec => []NeverOutOfRange
BY OrderPromises, DriveInvariance, PTL

\* An ordered handle writes in ascending order and leaves no number out (SI-I5), unless a write
\* failed and the run is ending.
THEOREM DriveKeepsOrder == DriveSpec => OrderKept
<1> DEFINE Ordered ==
      \A i \in Item :
        ordered /\ current' # None /\ i \in current'.data
          /\ (current = None \/ i \notin current.data) =>
            \A k \in Seq0 : /\ k < SeqOf[i] => k \in given \/ exit = "ending"
                            /\ k > SeqOf[i] => k \notin given \ skipped
<1> HIDE DEF Ordered
<1>1. DInv /\ [DriveNext]_allVars => Ordered
  <2> SUFFICES ASSUME DInv, [DriveNext]_allVars, NEW i \in Item, ordered, current' # None,
                      i \in current'.data, current = None \/ i \notin current.data, NEW k \in Seq0
               PROVE  /\ k < SeqOf[i] => k \in given \/ exit = "ending"
                      /\ k > SeqOf[i] => k \notin given \ skipped
    BY DEF Ordered
  <2>1. HasTurn(i)
    BY OnlyWritesEnter DEF DInv, IInv
  <2>2. SeqOf[i] = expected /\ write[i] # "none" /\ expected \in 0 .. N
    BY <2>1 DEF HasTurn, DInv, DriveTypeOK
  <2>3. exit # "over"
    BY <2>2 DEF DInv, ExitOK, InFlight
  <2>4. /\ k < expected => k \in given \/ exit \in {"ending", "over"}
        /\ k \in given \ skipped => k <= expected
    BY DEF DInv, OrderOK
  <2>5. k \in Int /\ expected \in Int
    BY <2>2 DEF Seq0
  <2>6. k < SeqOf[i] => k \in given \/ exit = "ending"
    BY <2>2, <2>3, <2>4
  <2>7. ASSUME k > SeqOf[i] PROVE k \notin given \ skipped
    <3>1. ~(k <= expected)
      BY <2>2, <2>5, <2>7
    <3> QED BY <2>4, <3>1
  <2> QED BY <2>6, <2>7
<1>2. DInv /\ [DriveNext]_allVars => [Ordered]_allVars
  BY <1>1
<1>3. OrderKept <=> [][Ordered]_allVars
  BY DEF OrderKept, Ordered
<1> QED BY <1>2, <1>3, DriveInvariance, PTL DEF DriveSpec
=============================================================================
