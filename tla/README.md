# Verification of linak-dpg

TLA+ models of [linak-dpg](../src/README.md), a Go package that drives LINAK
desks over the DPG Bluetooth service; TLC configurations that check them on
small instances; and proofs, checked by TLAPS, of the properties that hold for
every value of the constants. Paths and lines below are those of `src/`.

## 1. The system

### Components, their state and operations

| Component | State | Operations | Modelled in |
|---|---|---|---|
| `Desk.Move`, `runMove`, `waitReadyForNewTarget` (desk/move.go) | `moving`, `chMove`, `lastTarget`/`lastTargetAt`, `lastPosition`; per move: targets, last reading, clocks, timers, error channel | `Move`, the goroutine it starts, the callbacks it registers | `MoveLoop`, closed by `MoveDesk` |
| Overlapping calls of `Move` | `moving`, `chMove`, goroutines | the load, the check, the store, the deferred calls, one at a time | `MoveCalls` |
| `slot` (desk/query.go), `newTargetHeigh` (desk/move.go) | a channel of one | `put` (three selects), receive, `drain` | `Slot` |
| Panel queries (desk/query.go, desk/desk.go) | `deskPanelMu`, `reminderMu`, `dpSub`, the slots | `MemoryPosition`, `updateReminder`, `TakeOwnership`, `InitDeskPanelSubscription`, `query`, `request`; `User`, `Capabilities`, `ProductInfo`, `Reminder`, `BaseOffset` have the same shape | `PanelQuery`; their bytes in `PanelFrames` |
| `Subscription` (subscription/subscription.go) | handlers, `started`, a channel of 200, the dispatch goroutine | `AddCallback`, its removal, `start`, dispatch | `Dispatch`, against `Broadcast` |
| Notification registry (notify.go, device.go) | callbacks per client and characteristic, one goroutine per client | `EnableNotifications`, register, fan out | `Dispatch` |
| GATT cache (gatt.go) | two process-wide maps from peripheral to services and characteristics | `GetCharacteristic`, `DiscoverServices`, `addCharacteristicToCache`, `Disconnect` | `GattCache` |
| Encoders (types.go, constants.go) and parsers (subscription/*/) | none | bytes to values and back | `Frames`, `PanelFrames`, against `PanelStore` |
| The controller in the desk | position, heading, silence | takes heights, reports, raises errors | `MoveDesk`, after `simDesk` of desk/move_sim_test.go |
| Device, logging | — | thin accessors | `EnableNotifications` and writes only |
| Examples | — | terminal and Bluetooth I/O | not modelled |

### How they interact

`Move` is called by any goroutine. If a move is running it puts the height into
`chMove`; otherwise it starts a goroutine that runs `runMove`: a `select` over
error frames, position reports, new targets, an offer ticker and a stall timer.
Reports and frames come from `Subscription`, which starts a goroutine per
handler and notification, so they are put into the loop's channels in any
order. Every frame comes through one goroutine per Bluetooth client, which puts
it into the channel of each `Subscription` of the characteristic, and waits
when one is full. Heights leave by `WriteWithoutResponse`: nobody is told of one that is
lost. Panel queries write a command under `deskPanelMu` and wait on a slot that
a callback fills; answers do not say which question they are to. `reminderMu`
is held across a query and the write that follows from it. Every operation
first looks its characteristic up in the GATT cache, which all goroutines share.

### What is hard

* **Timing.** The controller ignores heights for a while after any height it
  received at rest, halts when it is given another height while it travels,
  and runs down when it hears nothing. The code keeps `RetargetGap` between
  heights by three computations (a clock on the Desk, one in the move, two
  timers in `waitReadyForNewTarget`) that have to agree.
* **Interleaving.** The select takes any ready case; reports overtake one
  another; `moving` is loaded, checked and stored in separate steps; a put is
  three selects.
* **Loss and failure.** Lost heights, failed writes, a desk that meets
  resistance or collides, a link that drops, answers that come late or never.
* **Ends.** Nothing may wait for ever: a move, a query holding two mutexes, an
  `AddCallback` behind another one that talks to the Bluetooth client.
* **Staleness.** A handle cached over one link is asked for over the next;
  `Disconnect` empties the cache in two steps while lookups fill it.
* **Bytes.** A byte too many, a guard too short, a height of seventeen bits.

### What makes each component correct

* *Move*: a desk on its way is never halted by a height it was not heading for;
  a new height is not wasted on a deaf desk; the newest target wins; a desk
  stopped by an obstruction stays stopped; a desk that did not start is offered
  its target again but not for ever; a halting write's own error frame is not
  taken for a fault; a collision ends the move; where the desk is known to be is
  where it is, also after a move that ended early; every move ends.
* *Calls*: one loop at a time, `moving` covers it and is cleared after it.
* *Slot*: no put blocks; puts alone never leave the slot empty; nothing stale
  survives newer puts, and a reader never finds what went in before a put that is over had begun.
* *Queries*: an answer belongs to its question and is not thrown away; no update undoes another; who is
  told it owns the desk does; callbacks are registered once and before the first
  request; locks are given back.
* *Dispatch*: a handler is called with its own frames, each once, none that was
  sent after its removal, and every one sent after `AddCallback` returned;
  frames are dispatched in order; `AddCallback` returns.
* *Cache*: a lookup returns what it was asked for, with its own service, and never
  half of it; nothing cached is lost before `Disconnect`; after one nothing stale is returned.
* *Frames*: what is written is what the desk keeps, what the desk says is what a
  caller is told; a whole answer is never dropped; an update changes nothing else.

Every place where this can go wrong is listed, with its line, under `hazards`
in `PROJECT.json`.

## 2. Modules and their correspondence to the code

### MoveLoop

One variable per field or local of desk/move.go, under the code's name, one
action per case of a `select` and per outcome of it. `pc` is where the
goroutine is: `watch` (looking for the error characteristic), `sleep` (the wait
before the first height), `select`, `ready` (in `waitReadyForNewTarget`), `done`
(returned, deferred calls to run), `idle`.

* Times are elapsed times, capped where the code stops looking (`Aged`), so the
  state stays finite without a bound on time. `Tick` moves all of them.
* A speed is its sign. A height is an integer; `target` takes it modulo 2^16.
* A write is two steps: the goroutine hands the height over (`Writes`) and the
  link takes it (`Transmit`); the goroutine goes on only after that (`CanRun`).
  The clocks start at the first of the two; in the code they start when the
  call returns. In `MoveDesk` no time passes in between.
* `Retarget`'s second disjunct stands both for `HaltOnRetarget` switched off
  and for a halting write that failed.
* `offers` and `collected` are history variables.
* The environment is unconstrained: any report or frame may come at any time.
  That is what the proofs are about.

Definitions with a comment "A variant ..." (`waitPerMove`, `AnyLegOver`, ...) are
plausible mistakes. No specification uses them; `mutants` in `PROJECT.json`
names the definition each replaces and the property that then fails.

### MoveDesk

Puts MoveLoop in front of a controller: `simDesk.WriteWithoutResponse` is
`Sustained`, `Halted`, `Begun`, `NotHeard`; `simDesk.run` is `RunDown` and
`Travel`. Added from the comments of move.go, and marked external: stopping at
resistance (`StopShort`), a collision (`Collide`, `BackAway`), a lost height
(`Lose`), a link that drops (`Drop`). Time advances only when the goroutine has
nothing to do and the link has delivered all but the newest `Lag` reports:
code runs in microseconds, a tick is half a second. Every `MoveDesk` step is a
`MoveLoop` step or leaves its variables alone, which `MoveDeskProofs` proves.
`NeverHalts` is stated of states in which nothing was lost, refused or in the way.

### MoveCalls, Slot

`MoveCalls` splits a call of `Move` at every point where another goroutine may
run: `Load` (move.go:267), `Pass` (268), `There` (272-281), `Store` (283), `Fail`
(285-289), `Start` (298); and the goroutine's `Take`, `End`, `Clear`. `inTurn`
records whether two calls ever looked at `moving` together. `Slot` splits a put
into its three selects (`Offer`, `Displace`, `OfferAgain`); a value is the number
of its put; `Receive` is a reader, a drain or one turn of `latestTarget`. `since` and
`over` are history: how many puts had begun when the value in the channel went in,
and the newest put that is over.

### PanelQuery

A client asks for a memory position, which one of two slots answers; or updates
one reminder setting: it takes `reminderMu`, reads the settings by a query and
writes them all back; or takes ownership: it reads the user (desk.go:528), writes
it back with the owner bit and reads it again to be sure. The subscription is
made on first use by a look (`LookForSub`), an assignment (`MakeSub`) and a
registration (`WireSub`). An answer travels (`Arrive`, `Lose`) and is put by a
goroutine of its own (`Put`) for each registration. Contexts expire at any time
(`Expire`), a write may fail, and the desk may ignore a write, or clear the
owner bit by itself (`Clear`).

### Frames, PanelFrames, PanelStore

`Frames` is operators only: a frame is a sequence of bytes; packing is that of
types.go and constants.go, reading that of the three parser packages, a length
guard and then indices. A read beyond the frame is `Panic`. `PanelFrames` puts
the operations of a Desk around them, one at a time: an operation sends an
envelope, the desk (external: its idea of the bytes is what the README and the
comments tell) keeps values, and answers or reports unasked in frames that may
be whole or short. `PanelStore` is the same with no bytes in it, and
`ImplementsStore` is the refinement: what is on its way as bytes is read by the
desk's idea of them.

### Dispatch, Broadcast

A handler is one call of `AddCallback` and of the removal it returns, in a
goroutine of its own: `register`, the lock and `started` (`Start`), the call of the
client (`SetNotify`, which may fail), the registry made and the callback
registered. The desk sends frames; the registry's goroutine (`Fan`, `Forward`)
puts each into the channels of the Subscriptions of its characteristic; each
loop takes it, copies the handlers under the lock and starts a goroutine per
handler (`running`), which may run in any order. `Broadcast` is what a handler is
promised, with none of that in it; `ImplementsBroadcast` is the refinement:
handlers join with their first step and leave with their last.

### GattCache

One peripheral. A lookup is the load of the cache, the discovery of services
(cached or not), the call of the helper and, for each answer, `LoadOrStore`, the
append and the `Store`. A slice is an array and a length; `append` writes into the
array when there is room, in two halves, or copies it to one of twice the size.
Which characteristics the helper knows, and in which order it answers, is
external; gatt.go:117-123 says as much as is known of it. `DropServices` and
`DropCharacteristics` are the two deletions of `Disconnect`. `Whole` is an element both of
whose halves have been written, be it by two goroutines.

## 3. What the runs check

Durations are in ticks of half a second: `RetargetGap` 2 (1 s), `StartGrace` 5
(2.5 s), `StallTimeout` 10 (5 s), `StopSettle` 6 (3 s), as in move.go; the
controller is deaf for `Quiet` 2 and runs down after `Coast` 3. `MoveDesk_calls`
has a `StartGrace` of 6: the code makes its third offer after 2 s and notices
what it did well within 2.5 s, for which five of these ticks are too coarse. The dead band is
one height unit; a tick travels one. A shaft of 6 to 8 heights has room for near,
far and dead-band targets, for one ahead to queue and one behind, and for a leg
longer than `Coast`, so a desk that is not sustained runs down on the way.

| Run (distinct states) | Bounds | Question |
|---|---|---|
| `MoveDesk_calls` (501k states) | 3 calls, 1 lost height | Do queued legs, retargets, bursts and repeats ever halt the desk while nothing was lost (`NeverHalts`), waste a new height on a deaf desk (`NewHeightsAreHeard`), queue a target already passed (`QueuedFurther`) or finish elsewhere than asked (`FinishedThere`)? Is a lost height made up for (`Reached`, `RunsToTheEnd`) with bounded offers (`OffersBounded`) that keep the gap (`QuietGap`)? |
| `MoveDesk_halting` (167k) | 3 calls, `HaltOnRetarget` | Is the halting write's own error frame known for what it is (`FaultMeansResistance`)? |
| `MoveDesk_faults` (561k) | 2 calls, 1 obstruction, 1 failed write, 1 dropped link | Does a stopped desk stay stopped (`LeftStopped`), is a move it collides in over before it has backed away, on its way or coasting, with error frames or without (`CollisionEnds`), is it where it is known to be, also when it coasted there after its move (`PositionKnown`), and does every move end (`MoveEnds`)? |
| `Slot_puts` (94k) | 3 putters, 5 puts | Does a put ever hang (`PutReturns`), do puts lose one another (`NeverLostToAPut`), is what is left from the puts that went on last (`NewestHeld`), can a reader come upon what a finished put should have displaced (`NeverStale`)? |
| `MoveCalls_calls` (126k) | 2 callers, 4 calls | Is `moving` false once all is over (`NeverStuckMoving`), and is there one loop, but for calls that look at it together (`OneLoopInTurn`)? |
| `PanelQuery_calls` (3.9M) | 2 clients, 2 calls, 2 expiries, 1 lost answer, 1 owner bit cleared | Whose answer is taken (`AnswerBelongsInTurn`), is one that came thrown away (`AnswerKept`), does an update undo another (`NoLostUpdate`), is the owner the owner (`OwnedInTurn`), are the callbacks there in time (`WiredInTurn`)? |
| `PanelQuery_ends` (452k) | 2 clients, 2 updates or ownerships, 2 expiries, 1 lost answer | Does every question come to an end (`QuestionEnds`)? |
| `PanelFrames_settings` (162k) | 4 heights, 2 intervals, 3 options and 3 positions, one of each not valid; 2 speeds either way; 2 events | Do the bytes say what the values say (`ImplementsStore`), is a whole answer ever dropped (`WholeAnswerTaken`), is a short one read beyond (`TwoGuardsShort`), does an update change anything else (`UpdateKeepsRest`)? |
| `Dispatch_handlers` (279k) | 2 handlers, 2 Subscriptions on two characteristics, a channel of 1, 2 frames, 1 failure | Is a handler called as promised (`ImplementsBroadcast`), in order (`InOrder`) and in the end (`HeardInTheEnd`), and does `AddCallback` return (`AddReturns`)? |
| `GattCache_lookups` (3.8M) | 2 goroutines, 3 lookups, 6 characteristics of which 2 share a service and 1 is absent, 1 lost link, 1 failed call | Does a lookup return what it was asked for (`AskedFor`) with its service (`WithItsService`) and no half of it (`WholeHandles`), does the cache lose anything (`KeptAlone`), is what it returns of use (`OfUse`)? |

`PanelFrames_settings` and `Dispatch_handlers` also check `TypeOK` and `DispatchTypeOK`: what a
desk keeps is well-formed, only what was sent is on its way, and no channel holds
more than it can. Why the bounds are enough:

* *Moves.* Three calls give a move, a queued target or a retarget, and a target
  that supersedes, repeats or undoes it; two give a move and its successor, a
  retarget or a queued target, which is where faults bite. One obstruction ends a
  move, and the collision may come on a leg or, since a retarget writes nothing,
  while the desk coasts; a Desk may be without error frames. One loss reaches
  every height of a move because the loss may be any of them.
* *Slots.* Three putters are the fewest where the third select of one can lose
  to a second while a third displaces.
* *Queries.* Two clients are the fewest that contend for both mutexes; every
  call has a number, so the state does not depend on the number of positions.
* *Frames.* 65535 and 65792 are the two sides of sixteen bits, 256 is beyond a
  byte, 60 no option, 5 no position; 300 has two bytes that differ, and 6224 has
  bits of both bytes. A frame may be cut to every length. The proofs take the other values.
* *Dispatch.* A channel of one is full after one frame, and a Subscription on
  each of two characteristics is the least where one holds up the other.
* *Cache.* Three cached characteristics leave room for one in an array of four,
  so the next append writes in place, and the one after it copies; two
  goroutines write into the same room.

### Where the code and its documentation disagree

Two runs end in a counterexample, each to a sentence of the repository:

* `MoveCalls_two_loops`: move.go:234-235 says a second call never starts a
  second move; two first calls that overlap between the load (267) and the store
  (283) of `moving` start two.
* `PanelQuery_late_answer`: desk.go:452-454 says the answer belongs to the
  request because one question is outstanding at a time; the answer to a question
  given up on is taken for the answer to the next.

Others the models show but no run is kept for:

* move.go:142-144 says the first height of a new move waits for the gap;
  `waitBeforeTarget` (738) lets a move to the same place start at once, so a
  repeat after a move that stopped short or was never heard goes to a deaf desk.
  It is offered again later.
* README.md:265-268 says a new target brings the desk to rest first; after a
  move that ended on a failed write (move.go:436) the desk still coasts, and the
  next move's height halts it.
* A height passed to a move that is just returning (move.go:268) stays in
  `chMove` and redirects the next move.
* A put that loses its third select leaves an older value (query.go:58-59 says
  "at least as fresh").
* An update built on a late answer undoes the one before (desk.go:344-347).
* Two overlapping first calls of `InitDeskPanelSubscription` register twice, or
  let a request out before the callbacks are there (query.go:113-114).
* desk.go:97-101 says `AddCallback` changes its map without the lock that its
  dispatch loop reads under; it takes the lock now.
* desk.go:131-137 says a second Subscription makes every callback fire twice;
  README.md:393-394 says each feeds its own, and so it does (`Implements`
  is proved for any number of Subscriptions).
* subscription.go:84-86 says the client should never be called while holding a
  lock that the dispatch loop needs; `start` (138-150) holds it across
  `EnableNotifications`. It does no harm, since that loop is not started until
  then and the call has a time limit (`AddReturns`).
* subscription.go:143 sets `started` first: after a failure the Subscription
  stays deaf, and `AddCallback` has no error to return.
* deskpanel.go:77 and 154 guard for fewer bytes than are read: a memory position
  of four bytes and product information of six would be read beyond their end
  (`TwoGuardsShort` says that there are no others). The desk is not known to
  send such frames.
* gatt.go:139 calls the append "safe because Max ≈ 10"; two goroutines that
  append at once can lose an entry and return a characteristic under another's
  service (`KeptAlone` and `WithItsService` hold as long as they do not).

The passing properties `...InTurn`, `NoLostUpdate`, `WithItsService`, `KeptAlone`
and `OfUse` say exactly how far a promise holds: as long as no question has been
given up on, calls do not overlap at the look, no two goroutines add to the
cache at once, or the cache was emptied with no lookup going on.

### What the results depend on

* `Lag = 0`. With one report on its way across a tick, `LeftStopped`,
  `FinishedThere`, `RunsToTheEnd`, `FaultMeansResistance`, `CollisionEnds` and
  `PositionKnown` fail, the last two only because the report comes late or out of order: a travelling
  report from before a stop is answered with a sustaining write half a second
  later. At a radio delay of milliseconds that means a write that reaches a desk
  already at rest and silent for less than `Quiet`, which it ignores.
* `NewHeightsAreHeard` is not asked of `MoveDesk_halting`: a halting write to a
  desk that has just come to rest is not heard, which does no harm.
* `OffersBounded` allows three offers in five or six ticks of grace; the last can
  meet `noStart` in the same tick, and either may come first.

### Fairness

`FairDesk`: weak fairness of the goroutine, of the delivery of reports, frames
and heights (or their loss), and of the clock: the Go scheduler, the radio and
time. None of calls, losses, faults or drops. `MoveEnds` rests on the timers,
not on reports: it holds with the link down. `Slot`: each putter, never a
reader. `PanelQuery`: each client, and the expiry of its context (`withTimeout`
gives every context a deadline); strong fairness of a client that waits for
either mutex, which Go's starvation mode gives. Not the arrival of answers.
`Dispatch`: each `AddCallback`, each handler's goroutines, the registry's
goroutine and each loop; that `SetNotify` ends rests on the time limit of its
context. Nobody sends or removes by fairness.

`CHECK_DEADLOCK FALSE` stands where the calls are bounded and the system is then
at rest; `MoveDesk` runs on, so there deadlock is checked.

## 4. What is proved

For every set of heights, every duration in the order the code has them
(`RetargetGap < StopSettle`, `StartGrace < StallTimeout`), any number of callers,
calls and values:

| Module | Theorem | Says |
|---|---|---|
| `MoveLoopProofs` | `TypeCorrect`, `GapIsKept`, `OffersStayBounded`, `QueuedStaysFurther` | `[]TypeOK`, `QuietGap`, `[]OffersBounded`, `[]QueuedFurther` in an open environment |
| `MoveDeskProofs` | `DeskImplementsLoop`, `DeskGapIsKept`, `DeskInvariants`, `DeskTypeCorrect` | the closed system implements `MoveLoop`, so the same holds in front of the desk; `[]DeskTypeOK` |
| | `WhereItIs`, `CollisionsEndIt` | `[]PositionKnown`, `CollisionEnds`, for `Lag = 0` |
| | `StoppedIsLeft`, `NewHeightsHeard`, `NothingHalts`, `FinishedIsThere`, `FaultsMeanResistance`, `NeverRunsDown` | `LeftStopped`, `NewHeightsAreHeard`, `[]NeverHalts`, `[]FinishedThere`, `[]FaultMeansResistance`, `RunsToTheEnd`, each under the hypotheses below |
| `SlotProofs` | `NothingIsLost`, `NothingStale`, `AlwaysCurrent` | `[]NeverLostToAPut`, `[]NewestHeld`, `[]NeverStale` |
| `MoveCallsProofs` | `NotStuck`, `OneAtATime` | `[]NeverStuckMoving`, `[]OneLoopInTurn` |
| `PanelQueryProofs` | `RegisteredOnce`, `AnswersAreKept`, `UpdatesKept`, `AnswersBelong`, `OwnershipHolds` | `[]WiredInTurn`, `[]AnswerKept`, `[]NoLostUpdate`, `AnswerBelongsInTurn`, `OwnedInTurn` |
| `DispatchProofs` | `TypeCorrect`, `StartedInOrder`, `Implements` | `[]DispatchTypeOK`, `InOrder`, and `Dispatch` implements `Broadcast` |
| `GattCacheProofs` | `ReturnsWhatWasAsked`, `ReturnsItsService`, `NoHalves`, `CacheKept`, `StaysOfUse` | `[]AskedFor`, `[]WithItsService`, `[]WholeHandles`, `KeptAlone`, `OfUse` |
| `PanelFramesProofs` | `HeightComesBack`, `MemoryComesBack`, `MemoryEnvelopeTells`, `ReminderComesBack`, `ReadingComesBack`, `OwnerIsSet`, `AnswerComesBack` | what is packed is read back, for every value of every field |
| | `TypeCorrect`, `BytesImplementStore`, `WholeAnswersAreTaken`, `TwoGuardsAreShort`, `UpdatesKeepTheRest` | `[]TypeOK`, `PanelFrames` implements `PanelStore`, `WholeAnswerTaken`, `[]TwoGuardsShort`, `UpdateKeepsRest` |

**MoveLoop.** None of the three properties is inductive. `IInv` adds: *Busy*, a
move under way has a target that is a height. *Timed*, the clocks agree: in the
select and in the wait the move's clock equals the Desk's, which is why offering
by one keeps the gap that the other measures; before the first height the sleep
left and the age of the last height make a gap, unless the target is the same;
in the wait, a passed gap means a full clock, and the age of the give-up timer
never exceeds the clock of the gap until that is full, so giving up after
`StopSettle` also leaves the gap because `RetargetGap < StopSettle`. *Offered*,
`(offers - 1) * RetargetGap + written <= offered` until the grace is used up: each offer
after the first took a gap of the grace. *Queued*, nothing is queued when a leg
begins. `Disturbers` shows which steps can touch any of this; each of the four
parts is then one lemma per step. `QuietStep` goes through the five steps that
write.

**MoveDesk.** Beside `IInv`, what is in the air is a reading, the desk stands and
heads for a height, and a height that fits 16 bits goes out as itself
(`TravelAssumption`: heights fit the wire, and the desk may stop between any two).
`Base` adds the types. What the desk does with the loop takes more:

* *What always holds.* `ClockInv`: a height on the wire was written just now, and
  the desk's silence is at least the age of the last height written, which is
  how the loop's clock bounds one it cannot see. `LegInv` (for `Quiet <=
  RetargetGap`): a desk seen moving was travelling at its last report, the
  newest target is the one of the leg or the one queued, and every offer but
  the first of a leg meets a desk that is no longer deaf.
* `StoppedIsLeft` (for `Lag = 0`, any number of losses, obstructions, failures and
  drops): after resistance the loop is in its select with reports that end
  the move, or over; nothing it holds or has on the wire starts the desk.
* `WhereItIs` and `CollisionsEndIt` (for `Lag = 0`, whatever goes wrong): `KnownInv`, every
  report on its way says where the desk is, for it moves only in a tick that finds
  none, and is followed from the first call on; `CollideInv`, while the desk
  recovers nothing but that is on its way, and a loop that listens has it still to
  take, or began its wait or its leg in this very instant. The desk recovers for
  one tick, so before it has backed away that loop has taken the report and ended.
* `NewHeightsHeard` (without `HaltOnRetarget`, for `Quiet <= RetargetGap`): the last
  height written is the last one heard, or near it. A lost height in between
  can be near both its neighbours that are not near each other, so either none
  is lost or the heights asked for are `Apart`, as those of the run are.
* The other four share one invariant, `Held`. As long as nothing was in the way, no
  write failed, and the offers of a move still outlast the losses so far
  (`Undisturbed`), the loop and the desk are in step (`StepInvs`) while the link is
  up. *AlarmInv*: an error frame is only ever that of the halting write that
  the present wait knows of. *StillInv*: the desk travels only in front of a
  loop that listens. *SelectInv*: one report at most is on its way and it says
  how the desk is (`InHand`); a desk seen moving travels, or its last report is
  there to be taken (`Moved`); one not seen moving has begun within the grace or
  has been offered its target once more than heights were lost (`NotMoved`); it
  heads for the leg's target, each tick of travel restarts the stall timer, and
  its silence is bounded by the losses (`Course`). *ReadyInv*: the wait takes a
  travelling desk for one at rest only while the gap cannot have passed, and a
  desk left alone runs down before the wait gives up. *EndInv* is `FinishedThere`.
  Once the link is down the loop has one report at most and the desk runs down
  unseen; `Cut` is what remains true, and enough for what a move says at its end.

`Timely` is what they assume of the durations: a report is there before the next
tick (`Lag = 0`), the gap covers the controller's silence, gap and coast are at
least two ticks, a desk left alone runs down before `StopSettle`, and a tick of
travel is progress. `Outlasts` is `(Losses + 1) * RetargetGap + 1 < StartGrace`. At
0.1 s to a tick, the resolution of `offerCheck`, move.go has a gap of 10 and a
grace of 25, so every theorem covers a lost height; with the constants of
`simMove` (ticks of 10 ms, a gap of 20, `simQuiet` and `simCoast` 15) eleven.
`NothingHalts` needs only `RetargetGap + 1 < StartGrace` and no `HaltOnRetarget`;
`FinishedIsThere` takes `Failures = Blocks = 0`, for a desk that meets resistance
may stop anywhere, and either value of `HaltOnRetarget`; `FaultsMeanResistance`
takes `Failures = 0`: after a failed write the desk still coasts, and
the next move's height halts it with a frame that nobody expects;
`NeverRunsDown` also takes a link that stays up and `Losses + 1 < Coast`, for a desk
that misses as many heights as it can coast runs down. The values of
`MoveDesk_calls` and `MoveDesk_halting` satisfy the hypotheses of what they check.

**Slot.** A putter at its third select is what will fill a slot emptied by a
putter; a put of the present burst is numbered from `burst` on; and no put that is over began
after the value in the channel went in, nor did one at its third select that finds
the channel full.

**MoveCalls.** `moving` is set only while somebody is about to start a loop or one
runs; calls in turn are alone between their look at `moving` and their goroutine.

**PanelQuery.** `IInv` has these parts. *Typed* and *Locked* hold always: who is
between taking a lock and giving it back has it. *Wired* holds while first calls
have not overlapped: one client at most makes the subscription, and nobody is
beyond it before its callbacks are registered. *Flow*, *Single* and *Current*
hold while, besides, no question was given up on: every answer in the air, in a
handler or in a slot is to the question that somebody waits with, there is only
one, and what it says is what the desk still has, so what is written back is
built on the present settings. The lock makes the one who waits unique; the
drain makes the slots empty; only the three together are inductive. *Kept* adds, while nothing was lost or refused,
that whoever waits has its answer on its way or in a slot only it drains.

**Dispatch.** Frames are numbered. *Upstream* and *Downstream*: along the way
from the stream to the registry's goroutine, the channel of a Subscription, its
loop and its handlers the numbers strictly fall, so that what a handler gets
next is newer than all it has had; *Given* adds that what is started for a
handler is of its topic and from before its removal. Both need *Locked*: a
Subscription is registered once, because `started` is looked at under its lock.
The refinement maps a handler's `on` to its topic; the steps in between stutter.

**GattCache.** *Arrayed*: every slice lies within its array, and one whose
element is being written has room for it. *Meant*: what a lookup has found so
far is what it looks for. *InTurn*, as long as no two add at once: whoever adds
holds the cached slice, or one with all of it, and all that shows is complete,
also while one half of an element behind it is written. *Filled* needs no such
hypothesis: an element shows only once both halves are written, and writing over
one that is leaves it whole, if with the service of another. *InPeace*, once the cache
was emptied with no lookup going on: the helper knows all that is cached, all
that is on its way there, and all that lies in the room behind the slices.

**Frames and PanelFrames.** The bytes of `n` are its low sixteen bits (`LowBits`);
the rest is which index of a frame is which. The invariant of `PanelFrames` says
that the desk keeps only what it can keep and that an answer or report on its
way is the bytes of such a value, or a part of them. `AnswerComesBack` then gives
the refinement: each step with bytes is the step of `PanelStore` with the values.

**Model-checked only.** Liveness (`Reached`, `MoveEnds`, `PutReturns`,
`QuestionEnds`, `HeardInTheEnd`, `AddReturns`), which the prover cannot do, nor
`ENABLED`. Every invariant and every action property that a passing run checks is
also a theorem. No module declares a `RECURSIVE` operator; the prover could not
take one.

## 5. What is not modelled

* Text, logging, Bluetooth discovery, and the example tools: command-line
  programs that measure a real desk through the package's own calls.
* `NewReferenceOutput` (types.go:263-275), which nothing calls; `WakeUp` and `Stop`,
  which write a constant and wait for nothing (the README of the repository and
  stopcoast.go:10-12 say that Stop does not brake a desk heading for a height;
  desk.go:599 says it halts any movement); the UUIDs of characteristics.go and
  services.go.
* A notification whose base64 does not decode, and the descriptions of error
  codes.
* Real durations below half a second, and the drift of `time.Ticker`.
* In `PanelQuery`, `User`, `Capabilities`, `ProductInfo` and `BaseOffset`: each is a
  `query` like `MemoryPosition`, on a slot of its own. `PanelFrames` has them all.
* The closing of channels and process exit: the package never closes a channel.
* Data races as such, but for the append of the cache: `moving` is atomic and the
  rest is under mutexes or in one goroutine; the races the models show are
  between atomic steps.

Two hazards in `PROJECT.json` have no property, each with its reason.

## 6. How the modules fit, and what could come next

`MoveDesk` extends `MoveLoop` with the controller; `PanelFrames` extends
`Frames` and implements `PanelStore`; `Dispatch` implements `Broadcast`; `Slot`,
`MoveCalls`, `PanelQuery` and `GattCache` stand alone. `PanelQuery` takes a put
for one step, which `Slot` takes apart, and a delivery for one of any order,
which is what `Broadcast` promises.

What is left: an abstract one-place mailbox that `Slot` implements, in place of
the one-step puts; `StoppedIsLeft` and `Held` with reports that outlive a tick,
under the silence that makes such a report harmless; and `NothingHalts` after a
failed write, once the desk has run down.
