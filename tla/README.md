# Moruna in TLA+

A verification project for Moruna, the runtime that runs Python functions over datasets larger
than memory inside a memory budget. It models the parts of the runtime whose correctness depends
on the order in which threads, completions and crashes happen: the disk tier and the manifest, the
queues and moves of the placement engine, the sink with its ledger, reorder buffer and drive, and a
run that is checkpointed, killed and resumed. TLC checks the models on small instances; TLAPS
proves the central invariants, two refinements and the exactly-once delivery of a resumed run for
every instance.

Paths below are relative to `src/`.

## The system

A run is a pipeline: a source reads morsels (batches of rows), queues carry them to kernel stages
and at last to a sink. One process, many threads.

| Part | Where | What it does | State and what changes it |
|---|---|---|---|
| placement engine | `crates/moruna-placement` | the queues, where each batch's bytes are (host memory, device, disk), moves between tiers, lineage, manifest, resume | queue locks, catalog lock, lineage lock, segments lock, roll lock, moves lock; changed by workers, reactor completions, the controller and the checkpoint thread |
| scheduler | `crates/moruna-scheduler` | worker loop, source and sink drives, decisions, slots, checkpoint barrier, lifecycle | shared state under locks and atomics; worker threads, checkpoint thread, heartbeat |
| sinks | `crates/moruna-sinks` | ordered commit: reorder buffer, ledger, rolled files | the turn lock, the ledger |
| controller | `crates/moruna-controller` | measures, models and applies budgets, slots, water marks | one thread, a tick |
| sources | `crates/moruna-sources` | Parquet, tensor, iterator, ranges and replacement reads | cursors |
| reactor | `crates/moruna-reactor` | asynchronous file and object IO | its queue, the descriptor table |
| arena | `crates/moruna-arena` | size-classed memory inside one mapping | free lists, large regions |
| the rest | `crates/moruna-*`, `kernel/` | contracts, adapters, sandbox, facade, documents, planning, logs, the hosted engine and its microkernel | see `PROJECT.json` |

| Module | Models | Extends | Proofs |
|---|---|---|---|
| `Staging` | segment files, records, roll lock, disk charge, manifest writer | | `StagingProofs` |
| `StagingRecovery` | the same across crash and `restore_from` | `Staging` | `StagingProofs` |
| `Placement` | queues, catalog, reservations, planning, shedding, moves | | |
| `FileSink` | a sink that rolls files, and its ledger | | `LedgerProofs` |
| `SinkCheckpoint` | the sink under any drive, with checkpoint and resume | `FileSink` | `SinkProofs` |
| `SinkDrive` | the scheduler's drive and the reorder buffer over it | `SinkCheckpoint` | `DriveProofs`, `FinishProofs` |
| `RunResume` | source, stage, sink, lineage, manifest and resume of one run | `FileSink` | `ResumeTypes`, `ResumeSteps`, `ResumeProofs` |
| `ExactlyOnce` | what a run promises about its output | | refined by `RunResume` |

`MCStaging`, `MCStagingRecovery`, `MCPlacement`, `MCSink` and `MCResume` give the constants values
for TLC. `StagingInvariant` and `ResumeInvariant` hold the inductive invariants of the proofs about
`Staging` and `RunResume`; the other proof modules define theirs.

The mapped definitions stand for about 1.8 % of the repository's 263 thousand lines. They are the
lines that take locks, hand out numbers, count, commit and restore; most of the rest is formats,
kernels, bindings, a microkernel and tests. What is left out is listed at the end, and this project
says nothing about it.

## The disk tier: `Staging`, `StagingRecovery`

`Staging.tla` models `placement/src/staging/segment.rs`, the write path of `placement/src/moves.rs`
and `write_manifest` of `placement/src/manifest.rs`. One action is one lock region or one reactor
call, so that everything the code does between two of them interleaves with every other thread.

| State | Code |
|---|---|
| `pc`, `at`, `attempt`, `inMemory` | a batch's spill: the thread inside `lay_record`/`open_segment`, then the reactor's write and its one retry, then the `DiskRef`, until the record is released |
| `segments`, `bytesWritten`, `recordsTotal`, `recordsReleased`, `active` | `Staging.segments`, the fields of `Segment`, `Staging.active` |
| `diskSegments`, `diskBudget`, `nextSegment` | `disk_bytes`, `disk_budget`, `next_segment` |
| `files`, `strays`, `content`, `lost` | the file system: segment files, files a late write re-created, what can be read by path, writes to an unlinked inode |
| `unlinking` | how far `unlink_segments` has got with each segment |
| `manifest`, `writer` | the manifest on disk and the checkpoint thread in `write_manifest` |

The roll lock is held exactly while some batch is at `open` or `install`. The manifest writer takes
its rows from the catalog, then its segment table from the segments map, then renames, then
reclaims: four lock regions, four actions. `StagingRecovery.tla` adds `Crash`, which forgets the
memory of the process at any step, and `Restore`, which is `restore_from`.

Simplifications: disk is counted in whole segments, because `disk_bytes` only changes by
`segment_bytes`; the pieces of one record's write are one write; `remove_file` succeeds; the order
in which one call unlinks several segments does not matter; shutdown is in `Placement`, not here;
`bytesWritten` of a restored segment is never read again, since no restored segment is active.

Fairness (`FairSpec`): a thread inside a call goes on, every reactor operation resolves, a listed
segment is unlinked by the call that listed it (weak fairness); a thread waiting for the roll mutex
gets it (strong fairness, since the mutex is taken and released by others in between). Nothing makes
a spill start, a consumer take, a queue close or a checkpoint begin.

Bounds: two batches are the least for one to fill the segment another opened, to share a segment
with one that has landed, and to roll while an older segment is in use; three segment numbers let a
segment be replaced twice. One crash is the least in which a resumed life runs. What the runs check
on few batches and segments is, except for `SpillSettles`, proved for any number, of crashes too.

## Queues, catalog and moves: `Placement`

`Placement.tla` models `placement/src/{catalog,queue,plan,moves,residency,shutdown}.rs` and the
calls of `lib.rs`, driven the way `scheduler/src/decide.rs` drives them. A call of the engine takes
several locks one after the other and runs other calls in between: a pop plans, a plan sheds, a
shed issues writes and plans the queues that waited. A thread therefore has an agenda, the rest of
its call; `Step(t)` performs the first item of it in one lock region and puts in its place the items
it calls. The threads are one producer, one consumer per queue, the reactor's completions and the
controller.

| State | Code |
|---|---|
| `batch` | the catalog's `Buffer`: state, waiting and holding consumers, place in each queue, move number, `missed`, `outside` |
| `queue` | `QueueState`: entries in order, taken count, `closed`, `blocked` and its epoch, the error |
| `budget`, `reserved`, `waiting` | the host tier's budget, the catalog's reserved bytes, the queues to plan when room frees |
| `moves` | the moves map: moves installed, submitted or with the reactor |
| `agenda` | what each thread has left of its call |
| `faults`, `changes`, `shut` | bounds on failures and budget changes, and the shutdown flag |

| Actions | Code |
|---|---|
| `BeginPush`, `Reserve`, `Claim`, `ReserveAgain`, `Push`, `Enqueue`, `Give` | read the budget, claim the output's bytes by it, make room, try again by the same reading, push in memory or straight to disk, return what is left |
| `BeginReplace`, `Replace` | the source reads an evicted batch again (`replace_entry`) |
| `Pop`, `Poll`, `PopError`, `Release` | a consumer's take, a sink's parked poll, the release of what it held |
| `PlanNoMore`, `PlanLocked`, `RecordBlocked` | one planning pass, none once the run shuts down, and the finding it records, by epoch |
| `MakeRoom`, `ReadViews`, `Shed`, `Relieve` | the shedding: views of the queues, victims by known future, writes and drops |
| `IssueFails`, `Install`, `SubmitOk`, `SubmitFails`, `Abandon`, `Complete`, `ReadHot`, `LandWrite`, `LandRead`, `Retry`, `FailSettled`, `TakeBlame` | a move from its place in the moves map through submission to settlement, with every way it fails |
| `Spill`, `Reload` | the calls a policy may make |
| `SetBudgets`, `Close`, `Cancel`, `Shutdown`, `Forget`, `PutBack` | the controller and the end of a run |

Simplifications: the device and remote tiers are left out (one memory tier and the disk); water
marks, promotion window and staging flags are constants, with the defaults of the code; some
neighbouring regions are one step (the closed check and the catalog insert of a push; the end of a
shutdown; the refusal of a submission and the removal of its move from the map). `plan_and_issue`
looks at the shutdown flag before its first lock: `Shutdown` chooses which of the threads about to
plan have already looked. The scheduler's `PUSH_STALL`, which ends the run, is not modelled; nor are
overrun and the push without a claim, which the scheduler does not use. Batches are pushed in number order, so the order of numbers is the order of ids.

Bounds: two queues, one batch of both and one of the first alone are the least in which one consumer
holds what the other queue's shedding, or the policy, would choose. Room for all but one batch makes
every push past it spill. Sizes 1 and 2 make partial claims and heads that need more than one victim.
Two failures reach a failed retry. The budget changes, and a shutdown meets moves at every stage, in
`placement_faults`, with one queue; with two queues a changing budget is beyond TLC here.

Fairness (`FairSpec`): every thread goes on with its call; the producer pushes what is left and then
closes; consumers consume (weak). The reactor completes every operation and the source reads again
what was evicted (strong: another move or push may come in between). Liveness is checked at the
documented floor of the budget, `(sum of windows + 2)` batches, and for queues whose consumer polls
(`pop_blocking`, as sinks do).

## The sink: `FileSink`, `SinkCheckpoint`

`FileSink.tla` models `sinks/src/parquet_sink.rs` and the `Ledger` of `sinks/src/checkpoint.rs`. It
is a library of actions without a specification of its own: what a write, a skip, a roll, a flush,
`finish` and `resume` do to the sink.

| State | Code |
|---|---|
| `phase` | `Phase` |
| `committed`, `nextIndex`, `done`, `contiguousNext`, `openRanges`, `watermarkNext` | the fields of `Ledger` |
| `current`, `puts` | the open file, and the rolled files on their way to the store with the call that waits for each |
| `dest` | the store |

A write that rolls hands its file over, opens the next one and resolves only when the store has
answered; several may be open. `HeldBack` is the loop of `advance`, which steps the watermark down
to the start of a file that straddles it. `Kept`, `Above` and `Accepts` are `Ledger::restore`.

`SinkCheckpoint.tla` is the specification of a sink under any drive that gives it each number at
most once: writes, skips, landings, refusals, the checkpoint thread that reads the watermark and
later the state (`checkpoint_now`), and a resume at any step. `marks` holds every value
`committed_seq` has had, because the thread reads `committed.reached`, which may be an old one.

## The sink drive: `SinkDrive`

`SinkDrive.tla` models `scheduler/src/sink_drive.rs` over that sink, with or without the
`ReorderBuffer` of `sinks/src/reorder.rs`, and implements `SinkCheckpoint` with the identity mapping:
`Implements` is its `Spec`.

| State | Code |
|---|---|
| `coming`, `queue` | what the stages still have, and the sink's queue |
| `write`, `file` | each write future: new, held for its turn, or inside the inner write and waiting for a rolled file |
| `expected`, `ahead`, `stalled`, `cancelled` | the `State` of the reorder buffer |
| `skipping` | skips between the inner sink's call and the buffer's |
| `floor`, `barrier`, `exit` | `SinkEnd.floor`, a portable checkpoint's barrier, how the run ends |

Fairness (`DriveSpec`): workers, store and drive go on with what they have in hand; a barrier is left
(weak). The stages and the drive get on between two barriers (strong: a barrier disables them again
and again, but the drive parks for 1 ms and a checkpoint interval is longer). Nothing makes a run
end early or a checkpoint begin.

Bounds: three morsels, two writes open and a buffer of one byte are the least in which two held
writes fill the concurrency and exceed the buffer while the number they wait for is in the queue.
One manifest and one resume let numbers be written again above a watermark.

## A run and its resumption: `RunResume`, `ExactlyOnce`

`RunResume.tla` models one source, one stage and one file sink from `scheduler/src/source_drive.rs`
(cursor and reads), `checkpoint.rs` (`checkpoint_now`), `lifecycle.rs` (`apply_resume_point`) and
`placement/src/{lineage,manifest}.rs`. A morsel is its number and the rows it was read from.

| State | Code |
|---|---|
| `cursor`, `issued`, `again`, `landed` | the source drive: next row and number, reads not yet forgotten, those a resume has still to do, the one pushed and not yet forgotten |
| `q`, `work`, `pushing` | the two queues, what workers hold, pushes not yet in the lineage |
| `lineage`, `engine`, `reached` | the lineage index, the engine's watermark and `Watermark.reached` |
| `ckpt`, `extras` | where `checkpoint_now` is and what it has gathered |
| `manifest`, `floor`, `dropped` | the manifest on disk, `SinkEnd.floor`, morsels the skip policy dropped |
| `sound` | history: every resume so far started from a complete manifest |

`checkpoint_now` is seven steps. The last is `WriteManifest`, or `ManifestFails`: the document cannot
be written, synced or renamed, after its snapshot has pruned the lineage index, and the manifest of
before stays. The run goes on; that three failures in a row end it is a death like any other.

Without the barrier the run goes on between the steps, so the watermark, the sink's state, the cursor
and the lineage of one manifest are of different moments. A push is two steps (queue, then lineage), and the read is forgotten after both. `CrashAndResume` is
the death of the process at any step with `restore_from` and `apply_resume_point`.

`Names(m, r)` counts in how many ways a resume from manifest `m` brings row `r`: in a file it keeps
or a dropped morsel below its watermark, in a restored morsel, in a read done again, or beyond its
cursor. `Complete(m)` says that this is one for every row. `ExactlyOnce.tla` is the promise: a row is
never in the output twice, rows leave it only at a resume, and when `finish` has returned every row
is there. `DeliversExactlyOnce` is its specification under the mapping `Output`, in which a run that
was resumed from an incomplete manifest has no output; what such a manifest does is shown by the
runs `resume_lost` and `resume_twice`.

The lineage's `consumed` mark is left out: it says that a position has been popped, which the model
reads off the queue when the manifest decides which rows have a disk copy. Failures of the store are
in `SinkDrive`; here every put lands. A dropped morsel is kept in `dropped` so that its rows count as
delivered; those above the watermark are forgotten by a crash, as the ledger forgets them.

Bounds: two rows, one split, morsels of one or two rows, two manifests of either kind and one
resume. Two manifests are the least for one to replace another across a resume; one morsel issued
between two snapshots is what the races need. With two manifests and two resumes the same properties
hold (3.60 million states, by hand). `CONSTRAINT OnlySound` cuts the run where an incomplete manifest
is resumed from.

No fairness: nothing is claimed about how long a run takes.

## Runs

| Run | Instance | Checks | Shows |
|---|---|---|---|
| `staging_life` | 1 queue, 2 batches that share a segment, 3 segment numbers, checkpoints on or off | `TypeOK`, `CountsFollowRecords`, `CountedRecordReadable`, `FilesWithinBudget`, `CopyKeptUntilTaken`, `SpillSettles` | the counters are the landed and released records, a counted copy can be read, no step removes one before it is taken, files stay within the disk budget, every spill ends on disk or back in memory |
| `staging_recovery` | 2 interchangeable batches, 1 crash | `RecoveryTypeOK`, `ResumeNotRefused`, `FirstLifeReadable` | the manifest on disk never names a segment that is gone, and what its table covers reads back |
| `staging_resume` | the same, segments of one batch | `ResumedCopyIsOwn`, violated | finding 1 |
| `placement_fan` | 2 queues sharing one of 2 batches, room for 1, a call of the policy | `TypeOK`, `HeldStays`, `FullHasWork`, `NeverPastBudget` | what a consumer holds stays in memory whatever the policy asks and while the other queue makes room; overlapping passes leave no empty queue marked full |
| `placement_faults` | 1 queue, 2 batches, two failures of any kind, policy calls, a cancel | `ReservationsBacked`, `OneMove`, `NeverPastBudget` | no reserved byte is leaked, none is given back twice before a shutdown; every move is the one its batch knows; no claim passes the budget it went by |
| `placement_live` | 1 polled queue at the floor of the budget | `Drains` | every pushed batch is consumed and freed |
| `placement_stall` | 1 queue, batches of two sizes | `StalledRunHasNoRoom`, violated | finding 2 |
| `sink_drive` | 3 morsels, ordered or not, every failure, a checkpoint, a resume | `DriveTypeOK`, `NeverOverstates`, `NoFileStraddles`, `ManifestKeepsOutput`, `WrittenOnce`, `NeverClamped`, `NeverOutOfRange`, `FinishedHoldsAll`, `Implements`, `OrderKept`, `EndsOrWedges` | the watermark never overstates, the manifest keeps what it covers, an ordered handle writes in order, every run ends or stands before a full buffer |
| `sink_wedge` | 3 morsels, no checkpoint | `EveryRunEnds`, violated | finding 3 |
| `resume` | 2 rows, 2 manifests, 1 resume | `RRTypeOK`, `PortableComplete`, `RunningForgetsNone`, `RunningNamesOnce`, `DeliversExactlyOnce` | a manifest written behind the barrier is complete; one written while the run goes on is too, outside the two cases below; a run resumed from complete manifests delivers every row once |
| `resume_lost` | 2 morsels, 1 manifest | `NoRowLost`, violated | finding 4 |
| `resume_twice` | 2 morsels, 1 manifest | `NoRowTwice`, violated | finding 5 |

Deadlock is checked in `staging_life`, where spilling and taking never end. The other systems come
to rest (a run ends, a crash is not followed by a resume, a bound is reached), so their configurations
turn it off.

Nine more configurations are for running by hand. `StagingOff`, `StagingOn` and `PlacementBudgets`
pass on other instances (a second queue and an oversized batch; budgets that change under batches of
two sizes). `PlacementHeads` is `Drains` for two polled queues whose heads are both on disk with room
for one: it passes (603 thousand states, 18 minutes with `-lncheck final -workers 4`). `StagingOrphan`,
`StagingLeak`, `PlacementOutside`, `PlacementStale` and `PlacementTwice` end with the counterexamples
of the observations below.

## Disagreements with the comments and design documents

Each finding is a run that TLC ends with a counterexample; `PROJECT.json` quotes the lines.

1. `staging_resume`: a batch whose write landed after its segment was unlinked gets a manifest row
   although its segment is not in the segment table. `restore_from` checks the table's segments only,
   takes the row over, and numbers new segments after the table's highest, so a new file may get the
   row's number. The batch's reference then points into another batch's file, and a read does not
   compare the record's header with the batch it was read for.
2. `placement_stall`: shedding computes what it needs, reads the queues and drops copies in three
   lock regions. If the head it makes room for is taken meanwhile, it drops the memory copy of the
   batch that is now the head and afterwards plans only the queues that were waiting. That queue is
   not, and a kernel's consumer does not poll, so the head stays on disk with room for it until a
   setting changes or the stall detector ends the run.
3. `sink_wedge`: a held write stays in flight, so once `sink_concurrency` writes are held and their
   bytes exceed `buffer_bytes` the drive no longer pops the number the buffer waits for.
4. `resume_lost`: a first file committed between the read of the watermark (none yet) and
   `write_manifest` is covered by the engine's watermark, which stands in for the missing one, but is
   not in the sink's state; a resume removes it and nothing writes its rows again.
5. `resume_twice`: a read issued and pushed between the snapshot of the cursor and that of the lineage
   is a lineage row and lies beyond the cursor too; a resume writes its rows twice.

Observations without a run of their own:

- `LiveRecordHasSegment` (`StagingOrphan.cfg`): a record is counted when its write has landed, so an
  inactive segment with a write in flight looks reclaimable and is unlinked. `CountedRecordReadable`
  is what holds instead: it speaks of records whose segment is still in the map.
- `ReclaimableIsUnlinked` (`StagingLeak.cfg`): a segment that became reclaimable while it was active
  is not unlinked when the next one is opened.
- `MemoryIsCounted` (`PlacementOutside.cfg`): a batch pushed straight to disk that finds no disk room
  is evicted with its `outside` mark; read again, it is in memory and counted in no tier.
- `ClaimsFit` (`PlacementStale.cfg`): `reserve` reads the budget before it takes the catalog's lock
  and tries the claim by that reading twice, so a budget lowered in between is passed by a claim
  granted after the change. `NeverPastBudget` is what holds instead: a claim stays within the budget
  that was read, every other step within the one in force. The next `relieve` sheds the excess.
- `GivenBackOnce` (`PlacementTwice.cfg`): a move is in the map before it is submitted. A shutdown in
  between gives its reservation back, and `abandon`, when the submission then fails, gives it back
  again, whether or not the move was still in the map. The tier counts too little from then on, in a
  run that is ending. `ReservationsBacked` is what holds instead.
- A spill after `close` opens a segment nothing retires, and segment files the manifest does not name
  stay in the run directory, uncharged, after a resume.
- Waiting queues are not planned when a claim larger than its batch becomes residency, nor when a
  demotion is abandoned.
- The barrier's acknowledgement may be one a drive gave to an earlier request
  (`scheduler/src/checkpoint.rs:19`); the models take the barrier at its word.
- `ParquetSink::resume` leaves a `_SUCCESS` marker of the killed run in place.
- A refused write does not fail the sink, so the next number of an ordered handle may still be
  written while the run ends; this is the exception in `OrderKept`.

## Proofs

Every theorem holds for all values of the constants that satisfy the named assumption of its module:
`StagingAssumption` and `CrashAssumption` (finite sets of queues and batches, a span per
batch, a segment bound), `FileSinkAssumption` and `SinkCheckpointAssumption` (numbers `0 .. N-1`, a
number per payload), `SinkDriveAssumption` (every number is given to one morsel: the stages
deliver each number to a sink once), `RunResumeAssumption` (splits cover the source, morsel sizes are
positive). TLC evaluates them in the runs. None of the invariants the runs check is inductive as it
stands; each proof has an inductive invariant, which TLC also checked by hand on the instances of the
runs, and one step per action. A leaf that
names no prover goes to Zenon for three seconds and then to the SMT solver (`USE ZenonT(3),
SMTT(30)` in each proof module). The longest modules, `ResumeSteps` and `ResumeProofs`, take `tlapm`
about twenty minutes each.

**`StagingProofs`**, one life: `TypeCorrect`, `CountsCorrect`, `CountedReadable`,
`DiskBounded` and the action property `CopyKept`. `IndInv` adds `Places` (a batch has a segment
exactly in the steps that use one, and its number has been handed out), `Rolls` (at most one thread
is inside the roll lock, and nobody else knows the file it created), `Unlinks` (numbers are used
once; a segment leaves the map before its file goes, and its charge goes last), `Lost` (a write to an
unlinked inode belongs to a segment that has left the map, so when it lands it is not counted) and
`Charges` (files plus those removed but not yet discharged are the charged segments plus the one
created and not yet installed), which carries the disk bound through the two places where file and
charge change in different steps.

**`StagingProofs`**, crashes and resumes: `RecoveryTypeCorrect`, `ResumeAccepted`, `FirstLifeReads`, for any number of
crashes. `IndInv` does not survive a resume: that is finding 1. `RecoveryInv` therefore splits what
every life keeps (`LifeOK`, `WriterAlone`, `TableKept`: a number on the writer's table or in the
manifest has its file, and nobody unlinks it) from what only the first life has (`IndInv`,
`RowsKept`: what a table covers is readable from the snapshot of the rows on).

**`LedgerProofs`, `SinkProofs`**: `WatermarkHolds`, `WatermarkSplitsNoFile`, `WatermarkNeverClamped`,
`ManifestHolds`, `StoreHoldsOnce`. `LedgerProofs` shows that the two loops of `advance` end and what
they return. `IInv` says that a number is counted, in the open file or in one rolled file and never
in two (`Apart`), that what is counted is in the store or skipped (`SettledOK`), that a name is used
once across ledger, store and manifest (`NamesOK`, `StoreOK`), and that no committed file straddles
any watermark this life has had (`MarksOK`): the last is why a watermark that is old by the time the
checkpoint uses it is still safe.

**`DriveProofs`, `FinishProofs`**: `DriveImplements` shows that the drive with the reorder buffer
implements `SinkCheckpoint`, so the sink's theorems hold under it (`DriveKeepsOutput`);
`DriveInRange`, `DriveKeepsOrder` and `FinishedSinkHoldsAll` are about the drive itself. `DInv` adds
to `IInv` where a morsel is (`PlacesOK`), that `finish` has the sink to itself (`ExitOK`), and that
the turn is at the least number that may still be written (`TurnOK`, `OrderOK`). `FInv` adds that no
morsel is lost on the way unless the run is ending.

**`ResumeTypes`, `ResumeSteps`, `ResumeProofs`**: `RunTypeCorrect`; `PortableManifest`, `RunningManifestForgetsNone` and
`RunningManifestNamesOnce`, which say what a manifest names; and `RunDeliversExactlyOnce`, the
refinement of `ExactlyOnce`. All are for any source, any cutting into morsels, any number of
manifests of both kinds and any number of crashes. `RunInv` is `TypeInv`, which holds whatever the
run was resumed from, and `sound => SoundInv`:
- `ItemsOK`, `PlacesOK`: every row before the cursor is of one morsel, and a morsel is in one place,
  except that a read stays issued until the lineage has it;
- `FilesOK`, `ContentsOK`, `CountsOK`, `MarksOK`: one file per name, no morsel in two files, nothing
  counted that is still on its way, no recorded file on both sides of a watermark someone has read;
- `LineageOK`: above the engine's watermark, what is no longer a read has a lineage record;
- `GatheredOK`, `BarrierOK`: what `checkpoint_now` has read so far still describes the run, step by
  step, and behind the barrier it is exactly the run;
- `FinishOK`: `finish` has begun only when the pipeline is drained;
- `ManifestOK`: the morsels the manifest lists and those in the files it keeps are disjoint, cover
  the rows before its cursor unless its watermark is the engine's, and lie before the cursor if it is
  portable; its files are not written again.

The argument: `Carries` (`ResumeSteps`) is what every step of a working run does to the morsels and files, and each
conjunct is shown to survive it once. `ManifestOK` is established from `GatheredOK` when the manifest
is written, and survives the run going on because file names rise and rows below the watermark do not
move. A resume from a complete manifest re-establishes `SoundInv` from `ManifestOK` and `Complete`
(`ResumeStep`): the listed morsels, read again or restored, and the settled ones are the morsels of
the new life. The counting in `Names` and `Times` is turned into membership once (`NamesAre`,
`TimesAre`), since each of the counted sets has at most one element. The refinement then maps every
step to `Deliver`, `Finish`, `TakeBack` or nothing.

## What is only model-checked, and why

- Liveness: `SpillSettles`, `Drains`, `EndsOrWedges`. The proof system does not reach fairness.
- `Placement`: `ReservationsBacked` and `NeverPastBudget` are about sums of sizes over the catalog;
  `TypeOK`, `HeldStays`, `FullHasWork` and `OneMove` rest on what planning and shedding do to an
  agenda, which are folds over sequences of entries and victims. Both need induction over data, which
  the installed provers cannot do.
- The violated properties are refuted by their counterexamples.

## What is not modelled

`PROJECT.json` lists every part with its reason. In short: parts that take no part in these protocols
or do so only through a contract the models use (reactor, controller, sources); parts that are worth
a model of their own and have none here (arena, slots and watchdog of the scheduler, the barrier's
handshake, the hosted engine, the microkernel's objects); parts without a protocol (contracts,
kernels, documents, file formats, bridges, logs); and parts whose behaviour is the operating system's
or the hardware's (discovery, sandboxing, page tables, devices). Several sources or sinks in one run,
the device tier and the staged commit of a directory are left out of the modules that would hold
them.
