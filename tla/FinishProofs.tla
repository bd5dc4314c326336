---------------------------- MODULE FinishProofs ----------------------------
(***************************************************************************)
(* Proof that a sink the drive has finished holds every morsel that was    *)
(* not skipped: finish is called when every morsel has been written or     *)
(* skipped, and answers when every file is in the store.                   *)
(***************************************************************************)
EXTENDS DriveProofs

USE ZenonT(3), SMTT(30)

\* No morsel is lost on its way to the sink, unless the run is ending; no number is lost in a sink
\* that is open, until finish gives up; and a finished sink has counted them all.
ReachedOK ==
  /\ 0 .. floor \subseteq given
  /\ \A i \in Item : SeqOf[i] \in given \/ i \in Waiting \cup Popped \/ exit \in {"ending", "over"}

HoldsOK ==
  /\ \A p \in puts : p.by = "nobody" => phase # "open"
  /\ phase = "open" /\ exit # "over" =>
       \A n \in given : n \in Counted \cup Open \/ \E p \in puts : n \in Seqs(p.data)
  /\ Finishing => current = None

FinishedOK == phase = "finished" => exit = "over" /\ puts = {} /\ Seq0 \subseteq Counted

FInv == DInv /\ ReachedOK /\ HoldsOK /\ FinishedOK

-----------------------------------------------------------------------------
\* Ledger::advance counts what it is given and forgets nothing it had counted.
LEMMA AdvanceCounts ==
  ASSUME TypeOK, NEW d \in SUBSET Seq0, NEW files, Advance(d, files)
  PROVE  d \cup (0 .. contiguousNext - 1) \subseteq Counted'
<1> DEFINE c == ContiguousFrom(contiguousNext, d)
<1>1. contiguousNext \in 0 .. N /\ c \in contiguousNext .. N
  BY ContiguousEnds DEF TypeOK
<1>2. contiguousNext' = c /\ done' = d \ (contiguousNext .. c - 1)
  BY DEF Advance
<1> HIDE DEF c
<1>3. Counted' = (d \ (contiguousNext .. c - 1)) \cup (0 .. c - 1)
  BY <1>2 DEF Counted
<1> QED BY <1>1, <1>3, FileSinkAssumption

\* Ledger::commit counts the numbers of the file.
LEMMA CommitCounts ==
  ASSUME TypeOK, NEW p \in puts, CommitFile(p.name, p.data)
  PROVE  Counted \cup Seqs(p.data) \subseteq Counted'
<1>1. done \cup Seqs(p.data) \in SUBSET Seq0
  BY SeqsFacts DEF TypeOK
<1>2. \E files : Advance(done \cup Seqs(p.data), files)
  BY DEF CommitFile
<1>3. (done \cup Seqs(p.data)) \cup (0 .. contiguousNext - 1) \subseteq Counted'
  BY <1>1, <1>2, AdvanceCounts
<1> QED BY <1>3 DEF Counted

\* Ledger::skip counts the number.
LEMMA SkipCounts ==
  ASSUME TypeOK, NEW n \in Seq0, SinkSkip(n)
  PROVE  Counted \cup {n} \subseteq Counted'
<1>1. CASE n >= contiguousNext
  <2>1. done \cup {n} \in SUBSET Seq0 /\ Advance(done \cup {n}, openRanges)
    BY <1>1 DEF SinkSkip, TypeOK
  <2>2. (done \cup {n}) \cup (0 .. contiguousNext - 1) \subseteq Counted'
    BY <2>1, AdvanceCounts
  <2> QED BY <2>2 DEF Counted
<1>2. CASE ~(n >= contiguousNext)
  <2>1. Counted' = Counted
    BY <1>2 DEF SinkSkip, Counted
  <2>2. n \in 0 .. contiguousNext - 1
    BY <1>2 DEF TypeOK, Seq0
  <2> QED BY <2>1, <2>2 DEF Counted
<1> QED BY <1>1, <1>2

-----------------------------------------------------------------------------
\* No morsel is lost before the sink has it, unless the run is ending.
LEMMA ReachedKeeps ==
  ASSUME FInv, [DriveNext]_allVars
  PROVE  ReachedOK'
<1> USE DEF FInv
<1>0. /\ coming \subseteq Item /\ OnQueue(queue) \subseteq Item /\ queue \in Seq(Item) /\ Single(queue)
      /\ write \in [Item -> {"none", "new", "turn", "inner"}]
      /\ floor \in -1 .. N - 1
      /\ \A i \in Item : SeqOf[i] \in 0 .. N - 1
      /\ exit \in {"none", "ending", "finishing", "over"}
  BY FileSinkAssumption, QueueFacts DEF DInv, DriveTypeOK, PlacesOK
<1>1. ASSUME given \subseteq given', floor' = floor,
             \A i \in Waiting \cup Popped : i \in Waiting' \cup Popped' \/ SeqOf[i] \in given'
                                            \/ exit' \in {"ending", "over"},
             exit \in {"ending", "over"} => exit' \in {"ending", "over"}
      PROVE  ReachedOK'
  BY <1>1 DEF ReachedOK
<1>2. Quiet => given' = given
  BY QuietIdle DEF SinkIdle
<1>3. ASSUME NEW i \in Item, Push(i) PROVE ReachedOK'
  <2>1. i \in coming /\ i \notin OnQueue(queue)
    BY <1>3 DEF Push, DInv, PlacesOK
  <2>2. OnQueue(queue') = OnQueue(queue) \cup {i} /\ coming' = coming \ {i}
    BY <1>0, <1>3, <2>1, QueueFacts DEF Push
  <2>3. Waiting' = Waiting
    BY <2>1, <2>2 DEF Waiting
  <2>4. UNCHANGED <<given, floor, write, exit>>
    BY <1>2, <1>3 DEF Quiet, Push
  <2> QED BY <1>1, <2>3, <2>4 DEF Popped
<1>4. CASE Pop
  <2> DEFINE i == Head(queue)
  <2>1. i \in Item /\ OnQueue(queue') = OnQueue(queue) \ {i}
    BY <1>0, <1>4, QueueFacts DEF Pop
  <2>2. write' = IF SeqOf[i] <= floor THEN write ELSE [write EXCEPT ![i] = "new"]
    BY <1>4 DEF Pop
  <2>3. UNCHANGED <<given, floor, coming, exit>>
    BY <1>2, <1>4 DEF Quiet, Pop
  <2> HIDE DEF i
  <2>4. SeqOf[i] <= floor => SeqOf[i] \in given'
    BY <1>0, <2>1, <2>3 DEF ReachedOK
  <2>5. ~(SeqOf[i] <= floor) => i \in Popped'
    BY <1>0, <2>1, <2>2 DEF Popped
  <2>6. Waiting \subseteq Waiting' \cup {i} /\ Popped \subseteq Popped'
    BY <1>0, <2>1, <2>2, <2>3 DEF Waiting, Popped
  <2> QED BY <1>1, <2>3, <2>4, <2>5, <2>6
<1>5. ASSUME NEW i \in Item, Admit(i) PROVE ReachedOK'
  <2>1. UNCHANGED <<given, floor, coming, queue, exit>> /\ write' = [write EXCEPT ![i] = "turn"]
    BY <1>2, <1>5 DEF Quiet, Admit
  <2>2. Waiting' = Waiting /\ Popped \subseteq Popped'
    BY <1>0, <2>1 DEF Waiting, Popped
  <2> QED BY <1>1, <2>1, <2>2
<1>6. ASSUME NEW i \in Item, write[i] # "none", Terminated PROVE exit' = "ending"
  BY <1>0, <1>6 DEF Terminated, DInv, ExitOK, InFlight
<1>7. ASSUME NEW i \in Item, Refuse(i) \/ WriteInnerFails(i) PROVE ReachedOK'
  <2>1. given' = given /\ floor' = floor /\ Terminated /\ write[i] # "none"
    BY <1>2, <1>7 DEF Quiet, Refuse, WriteInnerFails, HasTurn
  <2>2. exit' = "ending"
    BY <1>6, <2>1
  <2> QED BY <1>1, <2>1, <2>2
<1>8. CASE \/ End \/ CancelQueued \/ Stop \/ StartFinish \/ EnterBarrier \/ LeaveBarrier
           \/ \E n \in Seq0 : SkipTurn(n)
  <2>1. UNCHANGED <<given, floor, coming, queue, write>>
    BY <1>2, <1>8 DEF Quiet, End, CancelQueued, Stop, StartFinish, EnterBarrier, LeaveBarrier, SkipTurn
  <2>2. exit \in {"ending", "over"} => exit' \in {"ending", "over"}
    BY <1>8 DEF End, CancelQueued, Stop, StartFinish, EnterBarrier, LeaveBarrier, SkipTurn
  <2> QED BY <1>1, <2>1, <2>2 DEF Waiting, Popped
<1>9. ASSUME NEW i \in Item, SkipInner(i) PROVE ReachedOK'
  <2>1. /\ coming' = coming \ {i} /\ given' = given \cup {SeqOf[i]}
        /\ UNCHANGED <<queue, write, floor, exit>>
    BY <1>9 DEF SkipInner
  <2>2. Waiting \subseteq Waiting' \cup {i} /\ Popped' = Popped
    BY <2>1 DEF Waiting, Popped
  <2> QED BY <1>1, <2>1, <2>2
<1>10. ASSUME NEW i \in Item, WriteThrough(i) \/ WriteRolls(i) PROVE ReachedOK'
  <2>1. /\ given' = given \cup {SeqOf[i]} /\ UNCHANGED <<coming, queue, floor, exit>>
        /\ write' = [write EXCEPT ![i] = "none"] \/ write' = [write EXCEPT ![i] = "inner"]
    BY <1>10 DEF WriteThrough, WriteRolls
  <2>2. Waiting' = Waiting /\ Popped \subseteq Popped' \cup {i}
    BY <1>0, <2>1 DEF Waiting, Popped
  <2> QED BY <1>1, <2>1, <2>2
<1>11. ASSUME NEW i \in Item, NEW p \in puts, Resolve(i, p) PROVE ReachedOK'
  <2>1. /\ UNCHANGED <<given, coming, queue, floor>> /\ write[i] = "inner"
        /\ write' = [write EXCEPT ![i] = "none"]
        /\ exit \in {"ending", "over"} => exit' \in {"ending", "over"}
    BY <1>11 DEF Resolve, Terminated
  <2>2. Waiting' = Waiting /\ Popped \subseteq Popped'
    BY <1>0, <2>1 DEF Waiting, Popped
  <2> QED BY <1>1, <2>1, <2>2
<1>12. CASE Finish \/ Store \/ FlushBehindBarrier \/ ReadSink
  <2>1. UNCHANGED <<given, floor, coming, queue, write>>
    BY <1>12 DEF Finish, Store, FlushBehindBarrier, ReadSink, ReadWatermark, ReadState, driveVars
  <2>2. exit \in {"ending", "over"} => exit' \in {"ending", "over"}
    BY <1>12 DEF Finish, Store, FlushBehindBarrier, ReadSink, driveVars
  <2> QED BY <1>1, <2>1, <2>2 DEF Waiting, Popped
<1>13. CASE DriveResume
  <2>1. coming' = Item /\ floor' = saved.watermark /\ given' = 0 .. saved.watermark
    BY <1>13 DEF DriveResume, Resume
  <2> QED BY <2>1 DEF ReachedOK, Waiting
<1>14. CASE UNCHANGED allVars
  BY <1>1, <1>14 DEF allVars, scVars, checkpointVars, driveVars, Waiting, Popped
<1> QED BY <1>3, <1>4, <1>5, <1>7, <1>8, <1>9, <1>10, <1>11, <1>12, <1>13, <1>14, DriveSteps DEF Quiet, Calls

-----------------------------------------------------------------------------
\* No number is lost in an open sink, until finish gives up.
LEMMA HoldsKeeps ==
  ASSUME FInv, [DriveNext]_allVars
  PROVE  HoldsOK'
<1> USE DEF FInv
<1>0. /\ TypeOK /\ exit \in {"none", "ending", "finishing", "over"}
      /\ \A i \in Item : SeqOf[i] \in Seq0
      /\ \A i \in Item : write[i] # "none" => exit \in {"none", "ending"} /\ ~Finishing
  BY FileSinkAssumption DEF DInv, DriveTypeOK, ExitOK, InFlight, Seq0
<1>1. ASSUME UNCHANGED <<puts, phase, current, given, done, contiguousNext>>, exit = "over" => exit' = "over"
      PROVE  HoldsOK'
  <2>1. Counted' = Counted /\ Open' = Open /\ (Finishing' <=> Finishing)
    BY <1>1 DEF Counted, Open, Finishing
  <2> QED BY <1>1, <2>1 DEF HoldsOK
<1>2. ASSUME phase' # "open", ~Finishing' PROVE HoldsOK'
  BY <1>2 DEF HoldsOK
<1>3. ASSUME exit' = "over", ~Finishing', puts' \subseteq puts, phase = "open" \/ phase' = phase
      PROVE  HoldsOK'
  BY <1>3 DEF HoldsOK
<1>4. CASE Quiet
  <2>1. UNCHANGED <<puts, phase, current, given, done, contiguousNext>>
    BY <1>4, QuietIdle DEF SinkIdle, sinkVars, ledgerVars
  <2>2. exit = "over" => exit' = "over"
    BY <1>0, <1>4 DEF Quiet, Push, Admit, Refuse, Terminated, SkipTurn, End, Pop, CancelQueued, Stop,
                      StartFinish, EnterBarrier, LeaveBarrier
  <2> QED BY <1>1, <2>1, <2>2
<1>5. ASSUME NEW i \in Item, SkipInner(i) PROVE HoldsOK'
  <2>1. /\ SinkSkip(SeqOf[i]) /\ given' = given \cup {SeqOf[i]}
        /\ UNCHANGED <<phase, current, puts, exit>>
    BY <1>5 DEF SkipInner, SinkSkip
  <2>2. Counted \cup {SeqOf[i]} \subseteq Counted' /\ Open' = Open /\ (Finishing' <=> Finishing)
    BY <1>0, <2>1, SkipCounts DEF Open, Finishing
  <2> QED BY <2>1, <2>2 DEF HoldsOK
<1>6. ASSUME NEW i \in Item, WriteThrough(i) \/ WriteRolls(i) PROVE HoldsOK'
  <2>1. /\ HasTurn(i) /\ (Encode(i, FALSE) \/ Encode(i, TRUE)) /\ given' = given \cup {SeqOf[i]}
        /\ exit' = exit
    BY <1>6 DEF WriteThrough, WriteRolls
  <2>2. phase = "open" /\ phase' = "open" /\ Counted' = Counted
    BY <2>1 DEF Encode, Counted
  <2>3. ~Finishing /\ exit # "over"
    BY <1>0, <2>1 DEF HasTurn
  <2>4. CASE /\ current # None /\ current' = [current EXCEPT !.data = @ \cup {i}]
             /\ puts' = puts
    <3>1. current'.data = current.data \cup {i} /\ current' # None /\ current.data \in SUBSET Item
      <4>1. current \in [name : Nat, data : SUBSET Item]
        BY <1>0, <2>4 DEF TypeOK
      <4>2. current' \in [name : Nat, data : SUBSET Item] /\ current'.data = current.data \cup {i}
        BY <2>4, <4>1
      <4> QED BY <4>1, <4>2 DEF None
    <3>2. Open' = Open \cup {SeqOf[i]}
      BY <2>4, <3>1, SeqsFacts DEF Open
    <3> QED BY <2>1, <2>2, <2>3, <2>4, <3>2 DEF HoldsOK, Finishing
  <2>5. CASE /\ current' = [name |-> nextIndex, data |-> {i}]
             /\ puts' = puts /\ current = None
    <3>1. current'.data = {i} /\ current' # None
      BY <2>5 DEF None
    <3>2. Open' = {SeqOf[i]} /\ Open = {}
      BY <2>5, <3>1, SeqsFacts DEF Open
    <3> QED BY <2>1, <2>2, <2>3, <2>5, <3>2 DEF HoldsOK, Finishing
  <2>6. CASE /\ current' = [name |-> nextIndex, data |-> {i}]
             /\ puts' = puts \cup {Put("write")} /\ current # None
    <3>1. current'.data = {i} /\ current' # None
      BY <2>6 DEF None
    <3>2. Open' = {SeqOf[i]} /\ Open = Seqs(current.data)
      BY <2>6, <3>1, SeqsFacts DEF Open
    <3>3. Put("write").data = current.data /\ Put("write").by = "write"
      BY DEF Put
    <3>4. \A n \in given' : n \in Counted' \cup Open' \/ \E p \in puts' : n \in Seqs(p.data)
      BY <2>1, <2>2, <2>3, <2>6, <3>2, <3>3 DEF HoldsOK
    <3>5. ~Finishing' /\ \A p \in puts' : p.by # "nobody"
      BY <2>2, <2>3, <2>6, <3>3 DEF HoldsOK, Finishing
    <3> QED BY <3>4, <3>5 DEF HoldsOK
  <2>7. \/ current # None /\ current' = [current EXCEPT !.data = @ \cup {i}] /\ puts' = puts
        \/ current' = [name |-> nextIndex, data |-> {i}] /\ puts' = puts /\ current = None
        \/ current' = [name |-> nextIndex, data |-> {i}] /\ puts' = puts \cup {Put("write")} /\ current # None
    BY <2>1 DEF Encode
  <2> QED BY <2>4, <2>5, <2>6, <2>7, Zenon
<1>7. ASSUME NEW i \in Item, WriteInnerFails(i) PROVE HoldsOK'
  <2>1. HasTurn(i) /\ given' = given /\ Terminated
    BY <1>7 DEF WriteInnerFails
  <2>2. ~Finishing /\ exit # "over"
    BY <1>0, <2>1 DEF HasTurn
  <2>3. CASE EncodeFails
    <3>1. phase' = "failed" /\ \A q \in puts' : q \in puts \/ q.by = "nobody"
      BY <2>3 DEF EncodeFails, Put
    <3> QED BY <1>2, <2>2, <3>1 DEF Finishing
  <2>4. CASE UNCHANGED sinkVars
    BY <1>1, <2>1, <2>2, <2>4 DEF sinkVars, ledgerVars
  <2> QED BY <1>7, <2>3, <2>4 DEF WriteInnerFails
<1>8. ASSUME NEW p \in puts, Commit(p), given' = given, exit = "over" => exit' = "over", ~Finishing
      PROVE  HoldsOK'
  <2>1. /\ puts' = puts \ {p} /\ CommitFile(p.name, p.data) /\ UNCHANGED <<phase, current>>
    BY <1>8 DEF Commit
  <2>2. Counted \cup Seqs(p.data) \subseteq Counted' /\ Open' = Open
    BY <1>0, <2>1, CommitCounts DEF Open
  <2> QED BY <1>8, <2>1, <2>2 DEF HoldsOK, Finishing
<1>9. ASSUME NEW p \in puts, PutRefused(p), given' = given, exit = "over" => exit' = "over", ~Finishing
      PROVE  HoldsOK'
  <2>1. phase' # "open" /\ puts' = puts \ {p}
    BY <1>9 DEF PutRefused, HoldsOK
  <2> QED BY <1>2, <1>9, <2>1 DEF Finishing
<1>10. ASSUME NEW i \in Item, NEW p \in puts, Resolve(i, p) PROVE HoldsOK'
  <2>1. write[i] # "none" /\ given' = given /\ (Commit(p) \/ PutRefused(p))
    BY <1>10 DEF Resolve
  <2>2. ~Finishing /\ exit # "over"
    BY <1>0, <2>1
  <2> QED BY <1>8, <1>9, <2>1, <2>2
<1>11. CASE Finish
  <2>1. exit = "finishing" /\ given' = given
    BY <1>11 DEF Finish
  <2>2. CASE puts = {} /\ FinishRoll
    <3>1. phase' = "open" /\ phase = "open" /\ current' = None /\ Counted' = Counted /\ Open' = {}
      BY <2>2 DEF FinishRoll, Counted, Open
    <3>2. CASE current # None /\ puts' = puts \cup {Put("finish")}
      <4>1. Put("finish").data = current.data /\ Put("finish").by = "finish" /\ puts' = {Put("finish")}
        BY <2>2, <3>2 DEF Put
      <4>2. Open = Seqs(current.data)
        BY <3>2 DEF Open
      <4>3. \A n \in given' : n \in Counted' \/ n \in Seqs(Put("finish").data)
        BY <2>1, <2>2, <3>1, <4>1, <4>2 DEF HoldsOK
      <4>4. \A p \in puts' : p.by # "nobody"
        BY <4>1
      <4> QED BY <3>1, <4>1, <4>3, <4>4 DEF HoldsOK
    <3>3. CASE /\ current = None
               /\ puts' = puts \cup {[name |-> nextIndex, data |-> {}, by |-> "finish", put |-> "sent"]}
      <4>1. Open = {} /\ \A p \in puts' : p.by # "nobody"
        BY <2>2, <3>3 DEF Open
      <4>2. \A n \in given' : n \in Counted'
        BY <2>1, <2>2, <3>1, <4>1 DEF HoldsOK
      <4> QED BY <3>1, <4>1, <4>2 DEF HoldsOK
    <3> QED BY <2>2, <3>2, <3>3 DEF FinishRoll
  <2>3. CASE puts = {} /\ (FinishClosed(TRUE) \/ FinishClosed(FALSE) \/ FinishFails) /\ exit' = "over"
    <3>1. puts' = {}
      BY <2>3 DEF FinishClosed, FinishFails
    <3> QED BY <2>3, <3>1 DEF HoldsOK, Finishing
  <2>4. CASE phase # "open" /\ UNCHANGED sinkVars /\ exit' = "over"
    BY <1>1, <2>1, <2>4 DEF sinkVars, ledgerVars
  <2>5. CASE /\ exit' = "over"
             /\ \E p \in puts : \/ FinishCommit(p, TRUE) \/ FinishCommit(p, FALSE)
                                \/ p.by = "finish" /\ PutRefused(p)
    <3>1. PICK p \in puts : p.by = "finish" /\ puts' = puts \ {p}
      BY <2>5 DEF FinishCommit, PutRefused
    <3>2. puts' = {}
      BY <3>1 DEF DInv, ExitOK, Finishing
    <3> QED BY <2>5, <3>2 DEF HoldsOK, Finishing
  <2>6. \/ puts = {} /\ FinishRoll /\ UNCHANGED exit
        \/ puts = {} /\ (FinishClosed(TRUE) \/ FinishClosed(FALSE) \/ FinishFails) /\ exit' = "over"
        \/ phase # "open" /\ UNCHANGED sinkVars /\ exit' = "over"
        \/ \E p \in puts : (FinishCommit(p, TRUE) \/ FinishCommit(p, FALSE)) /\ exit' = "over"
        \/ \E p \in puts : p.by = "finish" /\ PutRefused(p) /\ exit' = "over"
    BY <1>11, Zenon DEF Finish
  <2> QED BY <2>2, <2>3, <2>4, <2>5, <2>6, Zenon
<1>12. CASE Store
  <2>1. exit' = exit /\ given' = given
    BY <1>12 DEF Store, driveVars
  <2>2. PICK p \in puts : PutLands(p) \/ PutFails(p) \/ (p.by = "nobody" /\ PutRefused(p))
    BY <1>12 DEF Store
  <2>3. CASE PutLands(p) \/ PutFails(p)
    <3>1. PICK v : puts' = (puts \ {p}) \cup {[p EXCEPT !.put = v]}
      BY <2>3 DEF PutLands, PutFails
    <3> DEFINE q == [p EXCEPT !.put = v]
    <3>2. q.by = p.by /\ q.data = p.data /\ puts' = (puts \ {p}) \cup {q}
      BY <1>0, <3>1 DEF TypeOK
    <3> HIDE DEF q
    <3>3. UNCHANGED <<phase, current, done, contiguousNext>>
      BY <2>3 DEF PutLands, PutFails, ledgerVars
    <3>4. Counted' = Counted /\ Open' = Open /\ (Finishing' <=> Finishing)
      BY <3>2, <3>3 DEF Counted, Open, Finishing
    <3>5. ASSUME NEW n, \E r \in puts : n \in Seqs(r.data) PROVE \E r \in puts' : n \in Seqs(r.data)
      BY <3>2, <3>5
    <3>6. \A r \in puts' : r.by = "nobody" => phase' # "open"
      BY <3>2, <3>3 DEF HoldsOK
    <3> QED BY <2>1, <3>3, <3>4, <3>5, <3>6 DEF HoldsOK
  <2>4. CASE p.by = "nobody" /\ PutRefused(p)
    <3>1. ~Finishing
      BY <2>4 DEF HoldsOK, DInv, ExitOK
    <3> QED BY <1>9, <2>1, <2>4, <3>1
  <2> QED BY <2>2, <2>3, <2>4
<1>13. CASE FlushBehindBarrier
  <2>1. exit' = exit /\ given' = given /\ ~Finishing
    BY <1>13 DEF FlushBehindBarrier, driveVars, DInv, ExitOK
  <2>2. CASE Flush
    <3>1. /\ phase' = phase /\ phase = "open" /\ current # None /\ current' = None
          /\ puts' = puts \cup {Put("flush")} /\ Counted' = Counted
      BY <2>2 DEF Flush, ledgerVars, Counted
    <3>2. Put("flush").data = current.data /\ Put("flush").by = "flush" /\ Open = Seqs(current.data)
      BY <3>1 DEF Put, Open
    <3>3. exit # "over" =>
            \A n \in given' : n \in Counted' \cup Open' \/ \E p \in puts' : n \in Seqs(p.data)
      BY <2>1, <3>1, <3>2 DEF HoldsOK
    <3>4. ~Finishing' /\ \A p \in puts' : p.by # "nobody"
      BY <2>1, <3>1, <3>2 DEF Finishing, HoldsOK
    <3> QED BY <2>1, <3>3, <3>4 DEF HoldsOK
  <2>3. CASE FlushFails
    <3>1. phase' # "open" /\ puts' = puts
      BY <2>3 DEF FlushFails
    <3> QED BY <1>2, <2>1, <3>1 DEF Finishing
  <2> QED BY <1>8, <1>9, <1>13, <2>1, <2>2, <2>3 DEF FlushBehindBarrier
<1>14. CASE ReadSink
  BY <1>1, <1>14 DEF ReadSink, ReadWatermark, ReadState, sinkVars, ledgerVars, driveVars
<1>15. CASE DriveResume
  <2>1. /\ saved.watermark \in -1 .. N - 1
        /\ puts' = {} /\ given' = 0 .. saved.watermark /\ contiguousNext' = saved.watermark + 1
    BY <1>0, <1>15 DEF DriveResume, Resume, SinkResume, NextOf, TypeOK
  <2>2. given' \subseteq Counted'
    BY <2>1 DEF Counted
  <2> QED BY <2>1, <2>2 DEF HoldsOK, Finishing
<1>16. CASE UNCHANGED allVars
  BY <1>1, <1>16 DEF allVars, scVars, sinkVars, ledgerVars, checkpointVars, driveVars
<1> QED BY <1>4, <1>5, <1>6, <1>7, <1>10, <1>11, <1>12, <1>13, <1>14, <1>15, <1>16, DriveSteps DEF Calls

\* finish answers once every number is counted, and nothing changes after it.
LEMMA FinishedKeeps ==
  ASSUME FInv, [DriveNext]_allVars
  PROVE  FinishedOK'
<1> USE DEF FInv
<1>0. TypeOK
  BY DEF DInv, DriveTypeOK
<1>1. ASSUME exit = "finishing" PROVE Seq0 \subseteq given
  <2>1. coming = {} /\ OnQueue(queue) = {} /\ InFlight = {}
    BY <1>1 DEF DInv, ExitOK, OnQueue
  <2>2. Waiting \cup Popped = {}
    BY <2>1 DEF Waiting, Popped, InFlight
  <2>3. \A i \in Item : SeqOf[i] \in given
    BY <1>1, <2>2 DEF ReachedOK
  <2> QED BY <2>3, SinkDriveAssumption
<1>2. CASE phase = "finished"
  <2>1. exit = "over" /\ puts = {} /\ Seq0 \subseteq Counted /\ \A i \in Item : write[i] = "none"
    BY <1>2 DEF FinishedOK, DInv, ExitOK, InFlight
  <2>2. ASSUME UNCHANGED <<exit, puts, done, contiguousNext>> PROVE FinishedOK'
    <3>1. Counted' = Counted
      BY <2>2 DEF Counted
    <3> QED BY <2>1, <2>2, <3>1 DEF FinishedOK
  <2>3. CASE Quiet
    <3>1. UNCHANGED <<puts, done, contiguousNext>>
      BY <2>3, QuietIdle DEF SinkIdle, sinkVars, ledgerVars
    <3>2. exit' = exit
      BY <2>1, <2>3 DEF Quiet, Push, Admit, Refuse, Terminated, SkipTurn, End, Pop, CancelQueued, Stop,
                        StartFinish, EnterBarrier, LeaveBarrier
    <3> QED BY <2>2, <3>1, <3>2
  <2>4. ASSUME NEW i \in Item PROVE ~(SkipInner(i) \/ WriteThrough(i) \/ WriteRolls(i) \/ WriteInnerFails(i))
    BY <2>1 DEF SkipInner, WriteThrough, WriteRolls, WriteInnerFails, HasTurn
  <2>5. ~Finish /\ ~Store /\ ~\E i \in Item, p \in puts : Resolve(i, p)
    BY <2>1 DEF Finish, Store
  <2>6. ~FlushBehindBarrier
    BY <1>2, <2>1 DEF FlushBehindBarrier, Flush, FlushFails
  <2>7. CASE ReadSink
    BY <2>2, <2>7 DEF ReadSink, ReadWatermark, ReadState, sinkVars, ledgerVars, driveVars
  <2>8. CASE DriveResume
    BY <2>8 DEF DriveResume, Resume, SinkResume, FinishedOK
  <2>9. CASE UNCHANGED allVars
    BY <2>2, <2>9 DEF allVars, scVars, sinkVars, ledgerVars, driveVars
  <2> QED BY <2>3, <2>4, <2>5, <2>6, <2>7, <2>8, <2>9, DriveSteps DEF Calls
<1>3. CASE phase # "finished" /\ Finish
  <2>1. exit = "finishing" /\ Seq0 \subseteq given
    BY <1>1, <1>3 DEF Finish
  <2>2. CASE puts = {} /\ FinishClosed(TRUE) /\ exit' = "over"
    <3>1. /\ phase = "open" /\ current = None /\ UNCHANGED <<puts, done, contiguousNext>>
      BY <2>2 DEF FinishClosed, ledgerVars
    <3>2. Seq0 \subseteq Counted /\ Counted' = Counted
      BY <2>1, <2>2, <3>1 DEF HoldsOK, Open, Counted
    <3> QED BY <2>2, <3>1, <3>2 DEF FinishedOK
  <2>3. ASSUME NEW p \in puts, FinishCommit(p, TRUE), exit' = "over" PROVE FinishedOK'
    <3>1. p.by = "finish" /\ puts' = puts \ {p} /\ CommitFile(p.name, p.data)
      BY <2>3 DEF FinishCommit
    <3>2. phase = "open" /\ puts = {p} /\ current = None
      BY <3>1 DEF DInv, ExitOK, HoldsOK, Finishing
    <3>3. Seq0 \subseteq Counted \cup Seqs(p.data)
      BY <2>1, <3>2 DEF HoldsOK, Open
    <3>4. Counted \cup Seqs(p.data) \subseteq Counted'
      BY <1>0, <3>1, CommitCounts
    <3> QED BY <2>3, <3>1, <3>2, <3>3, <3>4 DEF FinishedOK
  <2>4. CASE FinishRoll \/ FinishClosed(FALSE) \/ FinishFails \/ UNCHANGED sinkVars
             \/ \E p \in puts : FinishCommit(p, FALSE) \/ PutRefused(p)
    BY <1>3, <2>4 DEF FinishRoll, FinishClosed, FinishFails, sinkVars, FinishCommit, PutRefused, FinishedOK
  <2>5. \/ puts = {} /\ FinishRoll /\ UNCHANGED exit
        \/ puts = {} /\ (FinishClosed(TRUE) \/ FinishClosed(FALSE) \/ FinishFails) /\ exit' = "over"
        \/ phase # "open" /\ UNCHANGED sinkVars /\ exit' = "over"
        \/ \E p \in puts : (FinishCommit(p, TRUE) \/ FinishCommit(p, FALSE)) /\ exit' = "over"
        \/ \E p \in puts : p.by = "finish" /\ PutRefused(p) /\ exit' = "over"
    BY <1>3, Zenon DEF Finish
  <2> QED BY <2>2, <2>3, <2>4, <2>5, Zenon
<1>4. ASSUME phase # "finished", phase' \in {phase, "open", "failed"} PROVE FinishedOK'
  BY <1>4 DEF FinishedOK
<1>5. Quiet => phase' = phase
  BY QuietIdle DEF SinkIdle, sinkVars
<1>6. ASSUME NEW i \in Item, SkipInner(i) \/ WriteThrough(i) \/ WriteRolls(i) \/ WriteInnerFails(i)
      PROVE  phase' \in {phase, "failed"}
  BY <1>6 DEF SkipInner, SinkSkip, WriteThrough, WriteRolls, Encode, WriteInnerFails, EncodeFails, sinkVars
<1>7. ASSUME NEW i \in Item, NEW p \in puts, Resolve(i, p) PROVE phase' \in {phase, "failed"}
  BY <1>7 DEF Resolve, Commit, PutRefused
<1>8. Store \/ FlushBehindBarrier \/ ReadSink => phase' \in {phase, "failed"}
  BY DEF Store, PutLands, PutFails, PutRefused, FlushBehindBarrier, Flush, FlushFails, Commit, ReadSink,
         ReadWatermark, ReadState, sinkVars
<1>9. DriveResume => phase' = "open"
  BY DEF DriveResume, Resume, SinkResume
<1>10. UNCHANGED allVars => phase' = phase
  BY DEF allVars, scVars, sinkVars
<1> QED BY <1>2, <1>3, <1>4, <1>5, <1>6, <1>7, <1>8, <1>9, <1>10, DriveSteps DEF Calls

-----------------------------------------------------------------------------
\* finish of the drive's sink leaves nothing behind: a sink that says it is finished has every
\* morsel of the run in a committed file of the store, or was told to skip it, across rolls, flushes,
\* failed writes of another life and resumes.
THEOREM FinishedSinkHoldsAll == DriveSpec => []FinishedHoldsAll
<1>1. DriveInit => FInv
  <2> SUFFICES ASSUME DriveInit PROVE FInv
    OBVIOUS
  <2>1. DInv
    BY DriveInitKeeps
  <2>2. coming = Item /\ floor = -1 /\ given = {} /\ puts = {} /\ phase = "open"
    BY DEF DriveInit, Init, SinkInit
  <2>3. ReachedOK /\ HoldsOK /\ FinishedOK
    BY <2>2 DEF ReachedOK, Waiting, HoldsOK, Finishing, FinishedOK
  <2> QED BY <2>1, <2>3 DEF FInv
<1>2. FInv /\ [DriveNext]_allVars => FInv'
  BY DriveStepKeeps, ReachedKeeps, HoldsKeeps, FinishedKeeps DEF FInv
<1>3. FInv => FinishedHoldsAll
  BY DEF FInv, DInv, IInv, SettledOK, FinishedOK, FinishedHoldsAll
<1> QED BY <1>1, <1>2, <1>3, PTL DEF DriveSpec
=============================================================================
