----------------------------- MODULE Placement -----------------------------
(***************************************************************************)
(* The placement engine in memory (moruna-placement: catalog.rs, queue.rs, *)
(* plan.rs, moves.rs, residency.rs, shutdown.rs, lib.rs): the queues, the  *)
(* catalog that records where every batch's bytes are, the reservations,   *)
(* the planner that brings a head back from disk, the shedding that makes  *)
(* room, and the moves in flight.                                          *)
(*                                                                         *)
(* Every call takes several locks one after the other and runs other calls *)
(* in between (a pop plans, a plan sheds, a shed issues writes and plans   *)
(* the queues that waited).  The granularity is the lock region: a thread  *)
(* has an agenda, the rest of its call, and a step performs the first item *)
(* of it in one lock region and puts in its place the items it calls.      *)
(*                                                                         *)
(* Two tiers are modelled, the host tier, in which every consumer wants    *)
(* its batches, and the disk below it, whose records are module Staging.   *)
(* A device tier adds copies between memory tiers and is left out.         *)
(*                                                                         *)
(* A batch is somewhere:                                                   *)
(*   "new"        not pushed yet                                           *)
(*   "memory"     State::Resident, "both" State::ResidentOnDisk            *)
(*   "disk"       State::OnDisk,  "evicted" State::Evicted                 *)
(*   "demoting"   a write of its record is in flight, from memory          *)
(*   "promoting"  a read of its record is in flight, from disk             *)
(*   "freed"      taken and released by every consumer, out of the catalog *)
(* It has a disk record exactly in "both", "disk" and "promoting", and the *)
(* catalog keeps its payload in "memory", "both" and "demoting" while a    *)
(* consumer waits, so neither field of the code's Buffer is kept apart.    *)
(***************************************************************************)
EXTENDS Integers, FiniteSets, SequencesExt

CONSTANTS
    Queues,       \* how many queues there are: they are 1 .. Queues
    Batches,      \* how many batches are pushed: they are 1 .. Batches
    Into,         \* Into[b]: the queues batch b is pushed into
    Bytes,        \* Bytes[b]: its size
    Sourced,      \* the queues a source reads into: their batches can be read again
    StagingOn,    \* the queues with staging enabled
    Window,       \* the promotion window of every queue
    HasDisk,      \* the run has a staging directory and a disk budget
    Budgets,      \* the host budgets a run may be given
    MaxChanges,   \* how often the budget is changed or the policy calls
    Predictions,  \* what a unit may claim for its output before it runs
    Polled,       \* the queues whose consumer is a sink, which pops with pop_blocking
    Policy,       \* the policy also asks for spills and reloads
    Faults,       \* what may fail: "bound", "submit", "io", "decode"
    MaxFaults,    \* how often
    MayCancel     \* the run may be shut down

Queue == 1 .. Queues
Batch == 1 .. Batches

\* One thread pushes, each queue has a consumer, the reactor runs the
\* completions, and the controller sets the budgets and ends the run.
Producer == 0
Consumer(q) == q
Reactor == Queues + 1
Controller == Queues + 2
Thread == 0 .. Queues + 2

ASSUME ConstantsAssumption ==
    /\ Queues \in Nat \ {0} /\ Batches \in Nat \ {0} /\ Window \in Nat
    /\ Into \in [Batch -> SUBSET Queue \ {{}}] /\ Bytes \in [Batch -> Nat \ {0}]
    /\ Sourced \subseteq Queue /\ StagingOn \subseteq Queue /\ Polled \subseteq Queue
    /\ Budgets \subseteq Nat /\ Budgets # {} /\ Predictions \subseteq Nat
    /\ Faults \subseteq {"bound", "submit", "io", "decode"}
    /\ MaxFaults \in Nat /\ MaxChanges \in Nat
    /\ {HasDisk, Policy, MayCancel} \subseteq BOOLEAN

VARIABLES
    batch,     \* the catalog's record of every batch
    queue,     \* every queue
    budget,    \* the host budget in force
    changes,   \* how often either has happened
    reserved,  \* the bytes claimed in the host tier
    waiting,   \* the queues to plan again when room frees
    moves,     \* the moves submitted to the reactor
    agenda,    \* what every thread still has to do of its call
    faults,    \* how many failures have happened
    shut       \* the engine is shutting down

vars == <<batch, queue, budget, changes, reserved, waiting, moves, agenda, faults, shut>>

(***************************************************************************)
(* The catalog's totals.  They are sums over the records: every change of  *)
(* a record takes its bytes out of them and puts them back.                *)
(***************************************************************************)
Total(S) == SumFunctionOnSet(Bytes, S)

\* Batches whose bytes the catalog counts in the host tier.  A batch pushed
\* straight to disk is counted in no tier (outside).
Counted == {b \in Batch : ~batch[b].outside /\ batch[b].at \in {"memory", "both", "demoting"}}

Leaving == {b \in Counted : batch[b].at = "demoting"}

Resident == Total(Counted)

\* What queue q holds in the host tier that is not already leaving it.
QueueBytes(q) == Total({b \in Counted \ Leaving : q \in batch[b].waits})

Recomputable(b) == Min(Into[b]) \in Sourced

FitsResident(bytes, limit) == bytes = 0 \/ Resident + bytes <= limit

\* Catalog::reserve: whether a claim fits the budget its caller has read.
Fits(bytes, limit) == bytes = 0 \/ Resident + reserved + bytes <= limit

\* Saturating subtraction.
Less(m, n) == IF m > n THEN m - n ELSE 0

(***************************************************************************)
(* Agendas.  An item names the operation to do and its arguments.          *)
(***************************************************************************)
Ascending(S) == SetToSortSeq(S, <)

Each(seq, Item(_)) == [i \in DOMAIN seq |-> Item(seq[i])]

When(condition, seq) == IF condition THEN seq ELSE <<>>

PlanOf(q) == [do |-> "plan", q |-> q]

PlanAll(S) == Each(Ascending(S), PlanOf)

IssueOf(move) == [do |-> "issue", move |-> move]

AbandonOf(move, bound) == [do |-> "abandon", move |-> move, bound |-> bound]

\* "returns": the caller uses what the shedding found.
RoomFor(bytes, demand, returns) ==
    [do |-> "room", bytes |-> bytes, demand |-> demand, returns |-> returns]

ShedOf(need, scope, demand, returns) ==
    [do |-> "shed", need |-> need, scope |-> scope, demand |-> demand,
     returns |-> returns, views |-> <<>>]

\* The first item of t's agenda is done and calls the items of seq.
Continue(t, seq) == agenda' = [agenda EXCEPT ![t] = seq \o Tail(@)]

Doing(t, operation) == agenda[t] # <<>> /\ Head(agenda[t]).do = operation

Start(t, seq) == agenda[t] = <<>> /\ agenda' = [agenda EXCEPT ![t] = seq]

\* What shedding found, handed to the item that asked for it.
Return(t, item, found, seq) ==
    LET rest == Tail(agenda[t])
        told == IF item.returns THEN [rest EXCEPT ![1].found = found] ELSE rest
    IN  agenda' = [agenda EXCEPT ![t] = seq \o told]

(***************************************************************************)
(* Moves.  A move is known by its batch and a number no other move of that *)
(* batch has.                                                              *)
(***************************************************************************)
Pending == UNION {{agenda[t][i] : i \in DOMAIN agenda[t]} : t \in Thread}

Unsettled == moves \cup {item.move : item \in {i \in Pending : "move" \in DOMAIN i}}

NextMoveFromZero(b) == Min({k \in 0 .. Cardinality(Unsettled) :
                                \A m \in Unsettled : m.b = b => m.number # k})

NextMove(b) == Min({k \in 1 .. Cardinality(Unsettled) + 1 :
                        \A m \in Unsettled : m.b = b => m.number # k})

Write(b) == [b |-> b, number |-> NextMove(b), write |-> TRUE, got |-> 0, attempt |-> 0]

Read(b) == [b |-> b, number |-> NextMove(b), write |-> FALSE, got |-> Bytes[b], attempt |-> 0]

Current(move) == batch[move.b].move = move.number

\* State::source_state: where the bytes of a moving batch still are.
SourceState(b) == IF batch[b].at = "demoting" THEN "memory"
                  ELSE IF batch[b].at = "promoting" THEN "disk" ELSE batch[b].at

-----------------------------------------------------------------------------
(***************************************************************************)
(* Planning one queue.                                                     *)
(***************************************************************************)
AheadPastHead(q) == LET order == queue[q].order
                    IN  SubSeq(order, 2, Min({Max({Window, 1}) + 1, Len(order)}))

\* The entries of q the planner looks at.
Ahead(q) == LET order == queue[q].order
            IN  SubSeq(order, 1, Min({Max({Window, 1}), Len(order)}))

\* The reservations of a pass, head first and then the window in position
\* order, which stops at the first entry that finds no room.
Reservations(q) ==
    LET wanted == SelectSeq(Ahead(q), LAMBDA b : batch[b].at = "disk")
        IsHead(b) == b = queue[q].order[1]
        Claim(pass, b) ==
            IF ~IsHead(b) /\ pass.stopped THEN pass
            ELSE IF Resident + reserved + pass.bytes + Bytes[b] <= budget
            THEN [pass EXCEPT !.bytes = @ + Bytes[b], !.granted = Append(@, b)]
            ELSE [pass EXCEPT
                     !.stopped = @ \/ ~IsHead(b),
                     !.error = @ \/ (IsHead(b) /\ Bytes[b] > budget),
                     !.short = IF IsHead(b) /\ Bytes[b] > budget THEN @
                               ELSE Append(@, b)]
    IN  FoldLeft(Claim, [bytes |-> 0, granted |-> <<>>, short |-> <<>>,
                         stopped |-> FALSE, error |-> FALSE], wanted)

\* Passes that looked at q before this one no longer record what they find.
Outdated(q, seq) == [i \in DOMAIN seq |->
    IF seq[i].do = "block" /\ seq[i].q = q THEN [seq[i] EXCEPT !.latest = FALSE] ELSE seq[i]]

\* plan_and_issue looks at the shutdown flag before it locks the queue; a pass
\* that has looked before the flag was raised goes on ("planning").
PlanNoMore(t) ==
    /\ Doing(t, "plan") /\ shut
    /\ Continue(t, <<>>)
    /\ UNCHANGED <<batch, queue, budget, changes, reserved, waiting, moves, faults, shut>>

PlanLocked(t) ==
    /\ Doing(t, "planning") \/ (Doing(t, "plan") /\ ~shut)
    /\ LET q == Head(agenda[t]).q
           order == queue[q].order
           evicted == order # <<>> /\ batch[order[1]].at = "evicted"
           pass == Reservations(q)
           granted == ToSet(pass.granted)
           high == budget \div Queues
           over == QueueBytes(q) > high
           calls == Each(pass.granted, LAMBDA b : IssueOf(Read(b)))
                    \o When(over, <<ShedOf(QueueBytes(q) - high \div 2, q, 0, TRUE),
                                    [do |-> "block", q |-> q, latest |-> TRUE, found |-> FALSE]>>)
                    \o When(pass.short # <<>>,
                            <<LET b == pass.short[1]
                              IN RoomFor(Bytes[b], IF b = order[1] THEN b ELSE 0, FALSE)>>)
       IN  IF evicted
           THEN /\ batch' = [batch EXCEPT ![order[1]].missed = TRUE]
                /\ queue' = [queue EXCEPT ![q].blocked = FALSE]
                /\ agenda' = [u \in Thread |-> Outdated(q, IF u = t THEN Tail(agenda[u]) ELSE agenda[u])]
                /\ UNCHANGED <<reserved, waiting>>
           ELSE /\ batch' = [b \in Batch |->
                       IF b \in granted
                       THEN [batch[b] EXCEPT !.at = "promoting", !.move = NextMove(b),
                                             !.missed = @ \/ b = order[1]]
                       ELSE batch[b]]
                /\ queue' = [queue EXCEPT ![q].blocked = FALSE, ![q].error = @ \/ pass.error]
                /\ reserved' = reserved + pass.bytes
                /\ waiting' = IF pass.short # <<>> THEN waiting \cup {q} ELSE waiting
                /\ agenda' = [u \in Thread |->
                       IF u = t THEN calls \o Outdated(q, Tail(agenda[u]))
                       ELSE Outdated(q, agenda[u])]
    /\ UNCHANGED <<budget, changes, moves, faults, shut>>

RecordBlockedLate(t) ==
    /\ Doing(t, "block")
    /\ LET item == Head(agenda[t])
       IN  queue' = [queue EXCEPT ![item.q].blocked = @ \/ ~item.found]
    /\ Continue(t, <<>>)
    /\ UNCHANGED <<batch, budget, changes, reserved, waiting, moves, faults, shut>>

\* A pass whose shedding found nothing reports its queue full, unless a later
\* pass has looked at the queue since.
RecordBlocked(t) ==
    /\ Doing(t, "block")
    /\ LET item == Head(agenda[t])
       IN  queue' = [queue EXCEPT ![item.q].blocked = @ \/ (item.latest /\ ~item.found)]
    /\ Continue(t, <<>>)
    /\ UNCHANGED <<batch, budget, changes, reserved, waiting, moves, faults, shut>>

-----------------------------------------------------------------------------
(***************************************************************************)
(* Shedding: which batches leave memory, and how.                          *)
(***************************************************************************)
\* How far b is from the head of q, by the takes q had when it was looked at.
Position(b, q, views) == Less(batch[b].place[q] - 1, views[q])

\* A batch has a future when it waits for a consumer and each of its entries
\* is in its queue.
FutureKnown(b) == batch[b].waits # {} /\ \A q \in batch[b].waits : batch[b].place[q] # 0

NextUse(b, views) == Min({Position(b, q, views) : q \in batch[b].waits})

Hot(b, views) == FutureKnown(b) /\ NextUse(b, views) < Max({Window, 1})

How(b) ==
    IF batch[b].at = "both" THEN "drop"
    ELSE IF Recomputable(b) /\ ~(batch[b].waits \subseteq StagingOn /\ HasDisk) THEN "recompute"
    ELSE IF batch[b].waits \cap StagingOn # {} /\ HasDisk THEN "spill" ELSE "stay"

\* A head that waits may take the room of batches about to be taken, but not
\* of heads that were themselves read back on demand.
Protected(b, demand, views) ==
    IF demand # 0 THEN b = demand \/ batch[b].missed ELSE Hot(b, views)

Candidates(scope, demand, views) ==
    {b \in Counted \ Leaving :
        /\ batch[b].held = {}
        /\ FutureKnown(b)
        /\ scope # 0 => scope \in batch[b].waits
        /\ ~Protected(b, demand, views)
        /\ How(b) # "stay"}

\* KnownFuture::before: the batch used last leaves first, weighed by what
\* bringing it back costs; a spill writes its bytes and reads them back.
Before(a, b, views) ==
    LET reload(c) == IF How(c) = "spill" THEN 2 * Bytes[c] ELSE Bytes[c]
        score(c, other) == (NextUse(c, views) + 1) * Bytes[c] * Max({reload(other), 1})
    IN  \/ score(a, b) > score(b, a)
        \/ score(a, b) = score(b, a) /\ Bytes[a] > Bytes[b]
        \/ score(a, b) = score(b, a) /\ Bytes[a] = Bytes[b] /\ a < b

\* pick: the leading candidates whose bytes reach need.
Pick(ordered, need) ==
    LET freed(n) == Total({ordered[i] : i \in 1 .. n})
    IN  SelectSeq(ordered, LAMBDA b :
            \E n \in DOMAIN ordered : ordered[n] = b /\ freed(n - 1) < need)

\* What the queues say of their entries is read one queue lock at a time,
\* before the catalog is locked: it may be out of date when it is used.
ReadViews(t) ==
    /\ Doing(t, "shed")
    /\ LET item == Head(agenda[t])
           next == Len(item.views) + 1
       IN  IF item.need = 0 \/ shut
           THEN Return(t, item, FALSE, <<>>)
           ELSE agenda' = [agenda EXCEPT
                    ![t][1].views = Append(@, queue[next].taken),
                    ![t][1].do = IF next = Queues THEN "choose" ELSE @]
    /\ UNCHANGED <<batch, queue, budget, changes, reserved, waiting, moves, faults, shut>>

Shed(t) ==
    /\ Doing(t, "choose")
    /\ LET item == Head(agenda[t])
           open == Candidates(item.scope, item.demand, item.views)
           chosen == Pick(SetToSortSeq(open, LAMBDA a, b : Before(a, b, item.views)), item.need)
           leaves == ToSet(chosen)
           spilled == SelectSeq(chosen, LAMBDA b : How(b) = "spill")
           freed == \E b \in leaves : How(b) # "spill"
           After(b) == CASE How(b) = "drop" ->
                              [batch[b] EXCEPT !.at = "disk", !.missed = FALSE]
                         [] How(b) = "recompute" ->
                              [batch[b] EXCEPT !.at = "evicted", !.missed = FALSE]
                         [] How(b) = "spill" ->
                              [batch[b] EXCEPT !.at = "demoting", !.move = NextMove(b)]
       IN  /\ batch' = [b \in Batch |-> IF b \in leaves THEN After(b) ELSE batch[b]]
           /\ waiting' = IF freed THEN {} ELSE waiting
           /\ Return(t, item, leaves # {},
                     Each(spilled, LAMBDA b : IssueOf(Write(b)))
                     \o When(freed, PlanAll(waiting)))
    /\ UNCHANGED <<queue, budget, changes, reserved, moves, faults, shut>>

\* make_room: bytes that a demotion is taking out count as room on its way.
MakeRoom(t) ==
    /\ Doing(t, "room")
    /\ LET item == Head(agenda[t])
           need == Less(Resident + reserved + item.bytes, Total(Leaving) + budget)
       IN  IF need = 0
           THEN Return(t, item, TRUE, <<>>)
           ELSE Continue(t, <<ShedOf(need, 0, item.demand, item.returns)>>)
    /\ UNCHANGED <<batch, queue, budget, changes, reserved, waiting, moves, faults, shut>>

\* relieve: after bytes arrived, bring the tier back within its budget.
Relieve(t) ==
    /\ Doing(t, "relieve")
    /\ LET over == Less(Resident + reserved, Total(Leaving) + budget)
       IN  Continue(t, When(over > 0, <<ShedOf(over, 0, 0, FALSE)>>))
    /\ UNCHANGED <<batch, queue, budget, changes, reserved, waiting, moves, faults, shut>>

-----------------------------------------------------------------------------
(***************************************************************************)
(* Moves: issuing them, and what their completions do.                     *)
(***************************************************************************)
Failing(kind) == kind \in Faults /\ faults < MaxFaults /\ faults' = faults + 1

\* The queues of a batch are told of a failure one by one.
Blame(b, all) == Each(Ascending(batch[b].waits),
                      LAMBDA q : [do |-> "blame", q |-> q, b |-> b, all |-> all])

\* issue: a record may find no room on disk, or its header no memory, before the
\* write is in the moves map.
IssueFails(t) ==
    /\ Doing(t, "issue")
    /\ LET move == Head(agenda[t]).move
       IN  \E kind \in {"bound", "submit"} :
              /\ move.write /\ move.attempt = 0
              /\ Failing(kind)
              /\ Continue(t, <<AbandonOf(move, kind = "bound")>>)
    /\ UNCHANGED <<batch, queue, budget, changes, reserved, waiting, moves, shut>>

\* install_move, before the first completion can arrive.
Install(t) ==
    /\ Doing(t, "issue")
    /\ LET move == Head(agenda[t]).move
       IN  moves' = moves \cup {move} /\ Continue(t, <<[do |-> "submit", move |-> move]>>)
    /\ UNCHANGED <<batch, queue, budget, changes, reserved, waiting, faults, shut>>

Submitting(m) == \E item \in Pending : item.do = "submit" /\ item.move = m

\* The operation goes to the reactor.
SubmitOk(t) ==
    /\ Doing(t, "submit")
    /\ Continue(t, <<>>)
    /\ UNCHANGED <<batch, queue, budget, changes, reserved, waiting, moves, faults, shut>>

\* There is no buffer to submit it with: the move is taken out of the map again
\* and, at the first attempt, abandoned whether or not a shutdown has already
\* taken it out.  A second attempt fails only if it is still in the map.
SubmitFails(t) ==
    /\ Doing(t, "submit")
    /\ Failing("submit")
    /\ LET move == Head(agenda[t]).move
       IN  /\ moves' = moves \ {move}
           /\ Continue(t, IF move.attempt = 0 THEN <<AbandonOf(move, FALSE)>>
                          ELSE When(move \in moves, <<[do |-> "fail", move |-> move]>>))
    /\ UNCHANGED <<batch, queue, budget, changes, reserved, waiting, shut>>

\* abandon: a move that could not be issued.  A record the disk has no room
\* for ("bound") costs a batch that can be read again its bytes.
Abandon(t) ==
    /\ Doing(t, "abandon")
    /\ LET item == Head(agenda[t])
           b == item.move.b
       IN  /\ reserved' = Less(reserved, item.move.got)
           /\ IF ~Current(item.move)
              THEN batch' = batch /\ Continue(t, <<>>)
              ELSE IF item.bound /\ Recomputable(b)
              THEN /\ batch' = [batch EXCEPT ![b].move = 0, ![b].at = "evicted", ![b].missed = FALSE]
                   /\ Continue(t, <<>>)
              ELSE /\ batch' = [batch EXCEPT ![b].move = 0, ![b].at = SourceState(b)]
                   /\ Continue(t, Blame(b, item.bound \/ batch[b].outside))
    /\ UNCHANGED <<queue, budget, changes, waiting, moves, faults, shut>>

\* A batch that can go nowhere blocks its queues; one that only could not be
\* brought back is an error where it is the head.
TakeBlame(t) ==
    /\ Doing(t, "blame")
    /\ LET item == Head(agenda[t])
           order == queue[item.q].order
           head == order # <<>> /\ order[1] = item.b
       IN  queue' = [queue EXCEPT ![item.q].blocked = @ \/ item.all,
                                  ![item.q].error = @ \/ item.all \/ head]
    /\ Continue(t, <<>>)
    /\ UNCHANGED <<batch, budget, changes, reserved, waiting, moves, faults, shut>>

\* settle, on the reactor's thread: the move is taken out of the map.
Complete(m) ==
    /\ m \in moves /\ ~Submitting(m)
    /\ moves' = moves \ {m}
    /\ \/ /\ Start(Reactor, IF m.write THEN <<[do |-> "written", move |-> m, views |-> <<>>]>>
                              ELSE <<[do |-> "land", move |-> m]>>)
          /\ UNCHANGED faults
       \/ /\ Failing("io")
          /\ Start(Reactor, <<[do |-> "retry", move |-> m]>>)
       \/ /\ ~m.write
          /\ Failing("decode")
          /\ Start(Reactor, <<[do |-> "fail", move |-> m]>>)
    /\ UNCHANGED <<batch, queue, budget, changes, reserved, waiting, shut>>

\* Whether the batch has come into a promotion window while its record was
\* written is read from the queues, one lock at a time.
ReadHot(t) ==
    /\ Doing(t, "written")
    /\ LET next == Len(Head(agenda[t]).views) + 1
       IN  agenda' = [agenda EXCEPT ![t][1].views = Append(@, queue[next].taken),
                                    ![t][1].do = IF next = Queues THEN "wrote" ELSE @]
    /\ UNCHANGED <<batch, queue, budget, changes, reserved, waiting, moves, faults, shut>>

\* on_piece: the record landed.
LandWrite(t) ==
    /\ Doing(t, "wrote")
    /\ LET item == Head(agenda[t])
           b == item.move.b
           hot == Hot(b, item.views)
           stays == hot /\ ~batch[b].outside
           woken == IF hot THEN {} ELSE waiting
       IN  IF ~Current(item.move)
           THEN UNCHANGED <<batch, waiting>> /\ Continue(t, <<>>)
           ELSE /\ batch' = [batch EXCEPT ![b].move = 0, ![b].outside = FALSE,
                                          ![b].at = IF stays THEN "both" ELSE "disk",
                                          ![b].missed = stays /\ @]
                /\ waiting' = waiting \ woken
                /\ Continue(t, PlanAll(batch[b].waits) \o PlanAll(woken \ batch[b].waits))
    /\ UNCHANGED <<queue, budget, changes, reserved, moves, faults, shut>>

\* land_promotion: the bytes are back, and the record is kept.
LandRead(t) ==
    /\ Doing(t, "land")
    /\ LET move == Head(agenda[t]).move
       IN  /\ reserved' = Less(reserved, move.got)
           /\ IF ~Current(move)
              THEN batch' = batch /\ Continue(t, <<>>)
              ELSE /\ batch' = [batch EXCEPT ![move.b].move = 0, ![move.b].at = "both"]
                   /\ Continue(t, PlanAll(batch[move.b].waits))
    /\ UNCHANGED <<queue, budget, changes, waiting, moves, faults, shut>>

AgainUnbacked(move) == [move EXCEPT !.number = NextMove(move.b), !.attempt = 1, !.got = 0]

Again(move) == [move EXCEPT !.number = NextMove(move.b), !.attempt = 1]

\* after_failure: the same operation once more under a new number.
Retry(t) ==
    /\ Doing(t, "retry")
    /\ LET move == Head(agenda[t]).move
           again == Again(move)
       IN  IF move.attempt > 0
           THEN /\ Continue(t, <<[do |-> "fail", move |-> move]>>)
                /\ UNCHANGED <<batch, reserved>>
           ELSE IF ~Current(move)
           THEN /\ reserved' = Less(reserved, move.got)
                /\ Continue(t, <<>>)
                /\ batch' = batch
           ELSE /\ batch' = [batch EXCEPT ![move.b].move = again.number]
                /\ Continue(t, <<IssueOf(again)>>)
                /\ reserved' = reserved
    /\ UNCHANGED <<queue, budget, changes, waiting, moves, faults, shut>>

\* fail_settled: the batch stays where its bytes were.
FailSettled(t) ==
    /\ Doing(t, "fail")
    /\ LET move == Head(agenda[t]).move
           b == move.b
           woken == IF move.got > 0 THEN waiting ELSE {}
       IN  /\ reserved' = Less(reserved, move.got)
           /\ IF ~Current(move)
              THEN UNCHANGED <<batch, waiting>> /\ Continue(t, <<>>)
              ELSE /\ batch' = [batch EXCEPT ![b].move = 0, ![b].at = SourceState(b)]
                   /\ waiting' = waiting \ woken
                   /\ Continue(t, When(batch[b].outside \/ ~move.write, Blame(b, batch[b].outside))
                                  \o PlanAll(woken))
    /\ UNCHANGED <<queue, budget, changes, moves, faults, shut>>

-----------------------------------------------------------------------------
(***************************************************************************)
(* Admission and pushes.  Batches are numbered in the order they are       *)
(* pushed, which is the order of the catalog's ids.                        *)
(***************************************************************************)
ReserveOf(why, b, got, more) ==
    [do |-> "reserve", why |-> why, b |-> b, got |-> got, more |-> more]

GiveBackNothing(bytes) == <<>>

GiveBack(bytes) == When(bytes > 0, <<[do |-> "give", got |-> bytes]>>)

AdmitShort(b, got) == <<[do |-> "push", b |-> b, got |-> got, outside |-> FALSE]>>

\* admit_push: a claim that covers the batch becomes its residency; a smaller
\* one is topped up first.
Admit(b, got) ==
    IF got >= Bytes[b]
    THEN <<[do |-> "push", b |-> b, got |-> got, outside |-> FALSE]>>
    ELSE <<ReserveOf("push", b, got, Bytes[b] - got)>>

Granted(item) ==
    IF item.why = "replace" THEN <<[do |-> "replace", b |-> item.b, got |-> item.more]>>
    ELSE Admit(item.b, item.got + item.more)

\* A unit that is not granted its claim does not run; a push that is refused
\* goes straight to disk; what else is not granted waits and asks again.
NotGranted(item, refused) ==
    IF item.why = "unit" THEN <<>>
    ELSE IF item.why = "push" /\ refused /\ HasDisk
    THEN <<[do |-> "push", b |-> item.b, got |-> item.got, outside |-> TRUE]>>
    ELSE IF shut THEN GiveBack(item.got)
    ELSE <<ReserveOf(item.why, item.b, item.got, item.more)>>

IsFull(q) == queue[q].error \/ queue[q].closed \/ queue[q].blocked

Unpushed == {b \in Batch : batch[b].at = "new"}

\* A unit claims what its output is predicted to need before it runs; a
\* source, which predicts nothing, starts from a claim of no bytes.
BeginPush(bytes) ==
    /\ ~shut /\ Unpushed # {}
    /\ \A q \in Into[Min(Unpushed)] : ~IsFull(q)
    /\ Start(Producer, <<ReserveOf("unit", Min(Unpushed), 0, bytes)>>)
    /\ UNCHANGED <<batch, queue, budget, changes, reserved, waiting, moves, faults, shut>>

\* The source reads an evicted batch again.
BeginReplace(b) ==
    /\ ~shut /\ batch[b].at = "evicted"
    /\ FutureKnown(b)
    /\ Start(Producer, <<ReserveOf("replace", b, 0, Bytes[b])>>)
    /\ UNCHANGED <<batch, queue, budget, changes, reserved, waiting, moves, faults, shut>>

\* reserve reads the budget once, under no lock that a claim takes, and both
\* tries go by what it read.
Reserve(t) ==
    /\ Doing(t, "reserve")
    /\ LET item == Head(agenda[t])
       IN  Continue(t, IF item.more > budget THEN NotGranted(item, TRUE)
                      ELSE <<[do |-> "claim", why |-> item.why, b |-> item.b, got |-> item.got,
                              more |-> item.more, limit |-> budget, found |-> FALSE]>>)
    /\ UNCHANGED <<batch, queue, budget, changes, reserved, waiting, moves, faults, shut>>

Claim(t) ==
    /\ Doing(t, "claim")
    /\ LET item == Head(agenda[t])
       IN  IF Fits(item.more, item.limit)
           THEN reserved' = reserved + item.more /\ Continue(t, Granted(item))
           ELSE /\ reserved' = reserved
                /\ Continue(t, <<RoomFor(item.more, 0, TRUE), [item EXCEPT !.do = "again"]>>)
    /\ UNCHANGED <<batch, queue, budget, changes, waiting, moves, faults, shut>>

\* After shedding the claim is tried once more: granted, pending or refused.
ReserveAgain(t) ==
    /\ Doing(t, "again")
    /\ LET item == Head(agenda[t])
       IN  IF Fits(item.more, item.limit)
           THEN reserved' = reserved + item.more /\ Continue(t, Granted(item))
           ELSE reserved' = reserved /\ Continue(t, NotGranted(item, ~item.found))
    /\ UNCHANGED <<batch, queue, budget, changes, waiting, moves, faults, shut>>

\* A claim dropped unused wakes the queues that wait for room.
Give(t) ==
    /\ Doing(t, "give")
    /\ reserved' = Less(reserved, Head(agenda[t]).got)
    /\ waiting' = {}
    /\ Continue(t, PlanAll(waiting))
    /\ UNCHANGED <<batch, queue, budget, changes, moves, faults, shut>>

\* Catalog::insert.
Recorded(b, outside) ==
    [batch[b] EXCEPT !.at = IF outside THEN "demoting" ELSE "memory", !.outside = outside,
                     !.waits = Into[b], !.move = IF outside THEN NextMove(b) ELSE 0]

\* push_into: the catalog records the batch and the claim becomes residency in
\* one step; the entries follow, one queue at a time.  A batch pushed straight
\* to disk is moving from the start, and keeps its claim until the push is over.
Push(t) ==
    /\ Doing(t, "push")
    /\ LET item == Head(agenda[t])
           b == item.b
           refused == shut \/ \E q \in Into[b] : queue[q].closed
           Entry(q) == [do |-> "enqueue", b |-> b, q |-> q]
       IN  IF refused
           THEN Continue(t, GiveBack(item.got)) /\ UNCHANGED <<batch, reserved>>
           ELSE /\ batch' = [batch EXCEPT ![b] = Recorded(b, item.outside)]
                /\ reserved' = IF item.outside THEN reserved ELSE Less(reserved, item.got)
                /\ Continue(t, Each(Ascending(Into[b]), Entry)
                               \o When(item.outside, <<IssueOf(Write(b))>>)
                               \o PlanAll(Into[b]) \o <<[do |-> "relieve"]>>
                               \o When(item.outside, GiveBack(item.got)))
    /\ UNCHANGED <<queue, budget, changes, waiting, moves, faults, shut>>

Enqueue(t) ==
    /\ Doing(t, "enqueue")
    /\ LET item == Head(agenda[t])
           q == item.q
       IN  /\ queue' = [queue EXCEPT ![q].order = Append(@, item.b)]
           /\ batch' = [batch EXCEPT ![item.b].place[q] = queue[q].taken + Len(queue[q].order) + 1]
    /\ Continue(t, <<>>)
    /\ UNCHANGED <<budget, changes, reserved, waiting, moves, faults, shut>>

\* replace_entry: the bytes of an evicted batch come back for all its queues.
Replace(t) ==
    /\ Doing(t, "replace")
    /\ LET item == Head(agenda[t])
           b == item.b
       IN  IF shut \/ batch[b].at # "evicted"
           THEN Continue(t, GiveBack(item.got)) /\ UNCHANGED <<batch, reserved>>
           ELSE /\ batch' = [batch EXCEPT ![b].at = "memory"]
                /\ reserved' = Less(reserved, item.got)
                /\ Continue(t, PlanAll(batch[b].waits) \o <<[do |-> "relieve"]>>)
    /\ UNCHANGED <<queue, budget, changes, waiting, moves, faults, shut>>

-----------------------------------------------------------------------------
(***************************************************************************)
(* Consumers, knobs and shutdown.                                          *)
(***************************************************************************)
Ready(q) == LET order == queue[q].order
            IN  order # <<>> /\ batch[order[1]].at \in {"memory", "both"}

\* Catalog::take: the consumer holds its share; the last take gives the disk
\* record up.
Taken(q, b) ==
    LET left == batch[b].waits \ {q}
    IN  [batch[b] EXCEPT !.waits = left, !.held = @ \cup {q},
                         !.at = IF left = {} THEN "memory" ELSE @]

\* pop_entry: the consumer takes its share of the head.
Pop(q) ==
    /\ ~queue[q].error /\ Ready(q)
    /\ LET b == queue[q].order[1] IN batch' = [batch EXCEPT ![b] = Taken(q, b)]
    /\ queue' = [queue EXCEPT ![q].order = Tail(@), ![q].taken = @ + 1]
    /\ Start(Consumer(q), <<PlanOf(q)>>)
    /\ UNCHANGED <<budget, changes, reserved, waiting, moves, faults, shut>>

\* A stored error is handed out once, and ends the run.
PopError(q) ==
    /\ queue[q].error /\ ~shut
    /\ queue' = [queue EXCEPT ![q].error = FALSE, ![q].blocked = FALSE]
    /\ Start(Consumer(q), <<[do |-> "shutdown"]>>)
    /\ UNCHANGED <<batch, budget, changes, reserved, waiting, moves, faults, shut>>

\* A sink with no write in flight pops with pop_blocking, which plans a queue
\* whose head is not ready at every wake-up.
Poll(q) ==
    /\ q \in Polled /\ ~shut /\ ~queue[q].error /\ ~Ready(q) /\ queue[q].order # <<>>
    /\ \A b \in Batch : q \notin batch[b].held
    /\ Start(Consumer(q), <<PlanOf(q)>>)
    /\ UNCHANGED <<batch, queue, budget, changes, reserved, waiting, moves, faults, shut>>

\* Catalog::release: a batch no consumer waits for and nobody holds is freed.
Released(q, b) ==
    LET free == batch[b].held = {q} /\ batch[b].waits = {}
    IN  [batch[b] EXCEPT !.held = @ \ {q}, !.at = IF free THEN "freed" ELSE @]

\* release_take: the queues that wait for the room a free gives are planned.
Release(q, b) ==
    /\ q \in batch[b].held
    /\ LET free == Released(q, b).at = "freed"
       IN  /\ batch' = [batch EXCEPT ![b] = Released(q, b)]
           /\ waiting' = IF free THEN {} ELSE waiting
           /\ Start(Consumer(q), When(free, PlanAll(waiting)))
    /\ UNCHANGED <<queue, budget, changes, reserved, moves, faults, shut>>

\* The scheduler closes a queue when nothing more will be pushed into it.
Close(q) ==
    /\ ~queue[q].closed
    /\ \A b \in Batch : q \in Into[b] => batch[b].place[q] # 0
    /\ queue' = [queue EXCEPT ![q].closed = TRUE]
    /\ Start(Producer, <<PlanOf(q)>>)
    /\ UNCHANGED <<batch, budget, changes, reserved, waiting, moves, faults, shut>>

SetBudgets(bytes) ==
    /\ changes < MaxChanges /\ bytes # budget /\ ~shut
    /\ budget' = bytes /\ changes' = changes + 1
    /\ Start(Controller, PlanAll(Queue) \o <<[do |-> "relieve"]>>)
    /\ UNCHANGED <<batch, queue, reserved, waiting, moves, faults, shut>>

SpillMoving(q, b) ==
    /\ Policy /\ HasDisk /\ changes < MaxChanges
    /\ batch[b].at \in {"memory", "demoting"} /\ batch[b].held = {} /\ batch[b].waits # {}
    /\ batch' = [batch EXCEPT ![b].at = "demoting", ![b].move = NextMove(b)]
    /\ changes' = changes + 1
    /\ Start(Consumer(q), <<IssueOf(Write(b))>>)
    /\ UNCHANGED <<queue, budget, reserved, waiting, moves, faults, shut>>

\* Mutant: a batch a unit still holds is spilled under it.
SpillHeld(q, b) ==
    /\ Policy /\ HasDisk /\ changes < MaxChanges
    /\ batch[b].at = "memory" /\ batch[b].waits # {}
    /\ batch' = [batch EXCEPT ![b].at = "demoting", ![b].move = NextMove(b)]
    /\ changes' = changes + 1
    /\ Start(Consumer(q), <<IssueOf(Write(b))>>)
    /\ UNCHANGED <<queue, budget, reserved, waiting, moves, faults, shut>>

\* spill and reload: what a worker's policy may ask for.
Spill(q, b) ==
    /\ Policy /\ HasDisk /\ changes < MaxChanges
    /\ batch[b].at = "memory" /\ batch[b].held = {} /\ batch[b].waits # {}
    /\ batch' = [batch EXCEPT ![b].at = "demoting", ![b].move = NextMove(b)]
    /\ changes' = changes + 1
    /\ Start(Consumer(q), <<IssueOf(Write(b))>>)
    /\ UNCHANGED <<queue, budget, reserved, waiting, moves, faults, shut>>

Reload(q, b) ==
    /\ Policy /\ changes < MaxChanges
    /\ batch[b].at = "disk" /\ Fits(Bytes[b], budget)
    /\ batch' = [batch EXCEPT ![b].at = "promoting", ![b].move = NextMove(b)]
    /\ reserved' = reserved + Bytes[b]
    /\ changes' = changes + 1
    /\ Start(Consumer(q), <<IssueOf(Read(b))>>)
    /\ UNCHANGED <<queue, budget, waiting, moves, faults, shut>>

Cancel ==
    /\ MayCancel /\ ~shut
    /\ Start(Controller, <<[do |-> "shutdown"]>>)
    /\ UNCHANGED <<batch, queue, budget, changes, reserved, waiting, moves, faults, shut>>

\* shutdown_engine: the flag is raised, the moves are forgotten with their
\* reservations noted, then every moving batch is put back where its bytes are
\* and the queues close.
Shutdown(t) ==
    /\ Doing(t, "shutdown")
    /\ shut' = TRUE
    /\ \E past \in SUBSET {u \in Thread : ~shut /\ Doing(u, "plan")} :
          agenda' = [u \in Thread |->
              IF u = t THEN When(~shut, <<[do |-> "forget"]>>) \o Tail(agenda[t])
              ELSE IF u \in past THEN [agenda[u] EXCEPT ![1].do = "planning"] ELSE agenda[u]]
    /\ UNCHANGED <<batch, queue, budget, changes, reserved, waiting, moves, faults>>

Forget(t) ==
    /\ Doing(t, "forget")
    /\ moves' = {}
    /\ Continue(t, <<[do |-> "putback", total |-> MapThenSumSet(LAMBDA m : m.got, moves)]>>)
    /\ UNCHANGED <<batch, queue, budget, changes, reserved, waiting, faults, shut>>

PutBack(t) ==
    /\ Doing(t, "putback")
    /\ reserved' = Less(reserved, Head(agenda[t]).total)
    /\ batch' = [b \in Batch |-> [batch[b] EXCEPT !.at = SourceState(b), !.move = 0]]
    /\ queue' = [q \in Queue |-> [queue[q] EXCEPT !.closed = TRUE, !.blocked = TRUE]]
    /\ Continue(t, <<>>)
    /\ UNCHANGED <<budget, changes, waiting, moves, faults, shut>>

-----------------------------------------------------------------------------
Init ==
    /\ batch = [b \in Batch |-> [at |-> "new", waits |-> {}, held |-> {}, place |-> [q \in Queue |-> 0],
                                 move |-> 0, missed |-> FALSE, outside |-> FALSE]]
    /\ queue = [q \in Queue |-> [order |-> <<>>, taken |-> 0, closed |-> FALSE,
                                 blocked |-> FALSE, error |-> FALSE]]
    /\ budget \in Budgets
    /\ changes = 0 /\ reserved = 0 /\ waiting = {} /\ moves = {} /\ faults = 0 /\ shut = FALSE
    /\ agenda = [t \in Thread |-> <<>>]

\* A thread goes on with its call.
Step(t) ==
    \/ PlanNoMore(t) \/ PlanLocked(t) \/ RecordBlocked(t)
    \/ ReadViews(t) \/ Shed(t) \/ MakeRoom(t) \/ Relieve(t)
    \/ IssueFails(t) \/ Install(t) \/ SubmitOk(t) \/ SubmitFails(t) \/ Abandon(t) \/ TakeBlame(t)
    \/ ReadHot(t) \/ LandWrite(t) \/ LandRead(t) \/ Retry(t) \/ FailSettled(t)
    \/ Reserve(t) \/ Claim(t) \/ ReserveAgain(t) \/ Give(t) \/ Push(t) \/ Enqueue(t) \/ Replace(t)
    \/ Shutdown(t) \/ Forget(t) \/ PutBack(t)

Next ==
    \/ \E t \in Thread : Step(t)
    \/ \E m \in moves : Complete(m)
    \/ \E bytes \in Predictions : BeginPush(bytes)
    \/ \E b \in Batch : BeginReplace(b)
    \/ \E q \in Queue : Pop(q) \/ PopError(q) \/ Poll(q) \/ Close(q)
    \/ \E q \in Queue, b \in Batch : Release(q, b) \/ Spill(q, b) \/ Reload(q, b)
    \/ \E bytes \in Budgets : SetBudgets(bytes)
    \/ Cancel

Spec == Init /\ [][Next]_vars

\* Threads go on with their calls, the reactor completes every operation, the
\* producer reads again what was evicted, pushes and closes, and the consumers
\* consume.
FairSpec ==
    /\ Spec
    /\ \A t \in Thread : WF_vars(Step(t))
    /\ \A b \in Batch : SF_vars(\E m \in moves : m.b = b /\ Complete(m))
    /\ SF_vars(\E b \in Batch : BeginReplace(b))
    /\ WF_vars(\E bytes \in Predictions : BeginPush(bytes))
    /\ WF_vars(\E q \in Queue : Close(q))
    /\ \A q \in Queue :
          WF_vars(Pop(q) \/ PopError(q) \/ Poll(q) \/ \E b \in Batch : Release(q, b))

-----------------------------------------------------------------------------
(***************************************************************************)
(* Properties.                                                             *)
(***************************************************************************)
\* Every variable has its type.
TypeOK ==
    /\ batch \in [Batch -> [at : {"new", "memory", "both", "disk", "evicted", "demoting",
                                  "promoting", "freed"},
                            waits : SUBSET Queue, held : SUBSET Queue,
                            place : [Queue -> 0 .. Batches], move : Nat,
                            missed : BOOLEAN, outside : BOOLEAN]]
    /\ DOMAIN queue = Queue
    /\ \A q \in Queue : /\ ToSet(queue[q].order) \subseteq Batch
                        /\ queue[q].taken \in 0 .. Batches
                        /\ {queue[q].closed, queue[q].blocked, queue[q].error} \subseteq BOOLEAN
    /\ budget \in Budgets /\ changes \in 0 .. MaxChanges
    /\ reserved \in Nat /\ waiting \subseteq Queue /\ faults \in 0 .. MaxFaults /\ shut \in BOOLEAN
    /\ moves \subseteq [b : Batch, number : Nat \ {0}, write : BOOLEAN, got : Nat, attempt : {0, 1}]

\* What an item of an agenda holds reserved: the claim of a push, the claim it
\* gives back, the reservation of a move that is not in the map, and those of
\* the moves a shutdown forgot.  A move being submitted is held by the map.
Holds(item) == IF item.do = "submit" THEN 0
               ELSE IF "move" \in DOMAIN item THEN item.move.got
               ELSE IF "got" \in DOMAIN item THEN item.got
               ELSE IF "total" \in DOMAIN item THEN item.total ELSE 0

Backing == MapThenSumSet(LAMBDA m : m.got, moves)
           + MapThenSumSet(LAMBDA at : Holds(agenda[at[1]][at[2]]),
                           UNION {{t} \X DOMAIN agenda[t] : t \in Thread})

\* The catalog's reserved bytes are the claims and the reservations somebody
\* will turn into residency or give back, whatever fails on the way: none is
\* leaked, not even through a shutdown, and until one none is given back twice.
\* A shutdown does give one back twice: it forgets a move that is in the map and
\* not yet submitted, and abandon gives the reservation back again when the
\* submission fails.
ReservationsBacked == reserved <= Backing /\ (~shut => reserved = Backing)

\* PL-I3, PL-I22: a step that adds to what is resident and reserved keeps it
\* within the budget in force.  The one exception is the claim of an admission,
\* which goes by the budget reserve read: it may pass a budget lowered since, and
\* never the one it read.
NeverPastBudget ==
    [][(Resident + reserved)' > Resident + reserved =>
          \/ (Resident + reserved)' <= budget
          \/ \E t \in Thread : /\ Doing(t, "claim") \/ Doing(t, "again")
                               /\ agenda'[t] # agenda[t]
                               /\ (Resident + reserved)' <= Head(agenda[t]).limit]_vars

\* reserve: what a claim is granted fits the budget in force when it is granted.
ClaimsFit == [][reserved' > reserved => (Resident + reserved)' <= budget]_vars

\* Every reservation is given back by the one that holds it, through a shutdown too.
GivenBackOnce == reserved = Backing

\* PL-I2: every move under way, being issued, with the reactor or being settled,
\* is the one its batch knows of, so no late completion finds another's batch.
OneMove ==
    ~shut => /\ \A m \in Unsettled : Current(m)
             /\ \A m, n \in Unsettled : m.b = n.b => m = n
             /\ \A b \in Batch : (batch[b].move # 0) <=> (batch[b].at \in {"demoting", "promoting"})

\* PL-I19: what a consumer holds is in memory and nothing is moving it.
HeldStays == \A b \in Batch : batch[b].held # {} => batch[b].at \in {"memory", "both"}

Idle == \A t \in Thread : agenda[t] = <<>>

\* f.18 rule 12: a queue that was found full does not stay full once it is
\* empty, however its passes overlapped.
FullHasWork ==
    Idle /\ ~shut => \A q \in Queue : queue[q].blocked /\ ~queue[q].error => queue[q].order # <<>>

\* The stall detector ends a run in which nothing runs, nothing is in flight and
\* nothing is claimed, saying that nothing more can be read back: so then no
\* queue's head is on disk while the budget has room for it.
Quiescent ==
    /\ Idle /\ ~shut /\ moves = {} /\ reserved = 0
    /\ \A b \in Batch : batch[b].held = {}
    /\ \A q \in Queue : ~queue[q].error /\ ~Ready(q)

StalledRunHasNoRoom ==
    Quiescent /\ (\A q \in Queue : queue[q].closed) =>
        \A q \in Queue : queue[q].order # <<>> /\ batch[queue[q].order[1]].at = "disk"
                            => ~Fits(Bytes[queue[q].order[1]], budget)

\* Every batch that is pushed is taken by each of its consumers and freed,
\* unless the run ends, however little room there is for the heads.
Drains == \A b \in Batch : batch[b].at # "new" ~> (batch[b].at = "freed" \/ shut)

\* PL-I18: a batch in memory is counted in its tier, unless its queues carry
\* the error that ends the run.
MemoryIsCounted ==
    Idle /\ ~shut /\ (\A q \in Queue : ~queue[q].error) =>
        \A b \in Batch : batch[b].at \in {"memory", "both"} => b \in Counted
=============================================================================
