------------------------------ MODULE MoveLoop ------------------------------
(***************************************************************************)
(* Desk.Move and the goroutine it starts (desk/move.go): runMove with its  *)
(* select loop, waitReadyForNewTarget, and the fields of Desk that outlive *)
(* one move.  The environment is left open: position reports, error frames *)
(* and Move calls arrive in any order and with any content, the link takes *)
(* a written height at any time, and time passes at any time.  MoveDesk    *)
(* closes the system with a controller.                                    *)
(*                                                                         *)
(* Heights are integers (tenths of a millimetre).  A speed is abstracted   *)
(* to its sign, which is all the code looks at.  A time.Time is kept as    *)
(* the time elapsed since it, capped where the code stops caring.          *)
(***************************************************************************)
EXTENDS Integers, Sequences

CONSTANTS
    Height,             \* heights a caller may ask for and the desk may report
    ArrivalTolerance,   \* the dead band
    ProgressThreshold,  \* change of height that counts as progress
    RetargetGap, StartGrace, StallTimeout, StopSettle,  \* durations, in ticks
    ErrorFrames,        \* capacity of the errs channel
    HaltOnRetarget,     \* the experimental switch
    NoHeight, NoReading \* "nothing there"

ASSUME HeightAssumption ==
    /\ Height \subseteq Int
    /\ NoHeight \notin Int
    /\ ArrivalTolerance \in Nat
    /\ ProgressThreshold \in Nat

ASSUME TimeAssumption ==
    /\ {RetargetGap, StartGrace, StallTimeout, StopSettle} \subseteq Nat \ {0}
    /\ RetargetGap < StopSettle       \* 1s against 3s
    /\ StartGrace < StallTimeout      \* 2.5s against 5s

ASSUME MiscAssumption ==
    /\ ErrorFrames \in Nat \ {0}
    /\ HaltOnRetarget \in BOOLEAN

Reading == [extension : Height, speed : {-1, 0, 1}, recovering : BOOLEAN]

ASSUME NoReadingAssumption == NoReading \notin Reading

\* What faultFrame can tell apart: the empty frame, CodeInterrupted, the rest.
Frame == {"cleared", "interrupted", "fault"}

Outcome == {"none", "finished", "stoppedShort", "noStart", "fault", "stalled",
            "writeFailed"}

VARIABLES
    \* Desk, for its whole life
    moving,       \* d.moving
    chMove,       \* d.chMove, one slot
    lastTarget,   \* d.lastTarget / d.haveTarget
    targetAge,    \* time since d.lastTargetAt, capped at RetargetGap
    lastPosition, \* d.lastPosition / d.havePosition
    tracking,     \* d.trackPosition has run
    watching,     \* d.ControlErrors() has no error
    \* one move
    pc,           \* where its goroutine is
    readings, errs, mmx10, next, last, movedYet,
    written,      \* time since the last write, capped at RetargetGap
    offered,      \* time since offeredSince, capped at StartGrace
    stall,        \* age of the stall timer, fires at StallTimeout
    offerDue,     \* a tick waits in offer.C
    sleep,        \* what is left of waitBeforeTarget
    outcome,      \* how the move ended (its last log line)
    offers,       \* history: heights written since start() to a desk not seen moving
    collected,    \* history: the newest target the loop has taken
    \* waitReadyForNewTarget
    to, legEnd, atRest, gapPassed, deadline, halting,
    \* the link
    wire          \* a height handed to WriteWithoutResponse, not yet sent

deskVars  == <<moving, chMove, lastTarget, targetAge, lastPosition, tracking, watching>>
legVars   == <<mmx10, next, movedYet, collected>>
timeVars  == <<written, offered, stall, offerDue, sleep>>
waitVars  == <<to, legEnd, atRest, gapPassed, deadline, halting>>
loopVars  == <<pc, readings, errs, last, outcome, offers, wire>>
vars == <<deskVars, legVars, timeVars, waitVars, loopVars>>

-----------------------------------------------------------------------------
(* Helpers *)

abs(v)  == IF v < 0 THEN -v ELSE v
sign(v) == IF v > 0 THEN 1 ELSE IF v < 0 THEN -1 ELSE 0

sameDestination(a, b) == abs(a - b) <= ArrivalTolerance

\* target(): the two bytes that go out.
target(h) == h % 65536

\* A variant that takes the frame of its own halting write for a fault.
anyError(frame, expectHalt) == frame # "cleared"

faultFrame(frame, expectHalt) ==
    /\ frame # "cleared"
    /\ ~(frame = "interrupted" /\ expectHalt)

\* The direction extends() reads off the last report.
Direction(current) ==
    IF last.speed # 0 THEN last.speed ELSE sign(current - last.extension)

\* A variant that queues a target before the desk is seen moving.
extendsFromRest(current, newTarget) ==
    /\ last # NoReading
    /\ \/ Direction(current) = 1  /\ newTarget - current > ArrivalTolerance
       \/ Direction(current) = -1 /\ current - newTarget > ArrivalTolerance

extends(current, newTarget) ==
    /\ movedYet
    /\ last # NoReading
    /\ \/ Direction(current) = 1  /\ newTarget - current > ArrivalTolerance
       \/ Direction(current) = -1 /\ current - newTarget > ArrivalTolerance

\* A variant that times the gap per move and forgets the move before.
waitPerMove(h) == 0

waitBeforeTarget(h) ==
    IF lastTarget = NoHeight \/ sameDestination(h, lastTarget)
    THEN 0 ELSE RetargetGap - targetAge

\* Whether a tick puts the target in front of the desk again.  A missing
\* gap check would do it on every tick.
MayOfferEveryTick == ~movedYet /\ offered < StartGrace
MayOffer == ~movedYet /\ offered < StartGrace /\ written >= RetargetGap

\* A clock counts up to where the code stops caring; unbounded, it would not.
Aged(age, limit) == IF age < limit THEN age + 1 ELSE age

-----------------------------------------------------------------------------
(* Move: called when no move runs, or while one does. *)

MoveWhileMoving(h) ==
    /\ moving
    /\ chMove' = h                        \* newTargetHeigh
    /\ UNCHANGED <<moving, lastTarget, targetAge, lastPosition, tracking, watching,
                   legVars, timeVars, waitVars, loopVars>>

\* Once for the Desk's life, and never undone.
ensurePositionTracking == tracking' = TRUE

\* The desk is there already, or ReferenceInput could not be found.
MoveReturns ==
    /\ ~moving
    /\ ensurePositionTracking
    /\ UNCHANGED <<moving, chMove, lastTarget, targetAge, lastPosition, watching,
                   legVars, timeVars, waitVars, loopVars>>

MoveStarts(h) ==
    /\ ~moving
    /\ ~(lastPosition # NoHeight /\ sameDestination(h, lastPosition))
    /\ moving' = TRUE
    /\ ensurePositionTracking
    /\ readings' = NoReading
    /\ pc' = "watch"
    /\ mmx10' = h
    /\ collected' = h
    /\ outcome' = "none"
    /\ UNCHANGED <<chMove, lastTarget, targetAge, lastPosition, watching,
                   next, movedYet, timeVars, waitVars, errs, last, offers, wire>>

Move(h) == MoveWhileMoving(h) \/ MoveReturns \/ MoveStarts(h)

-----------------------------------------------------------------------------
(* What the notification handlers do with a report or a frame. *)

\* A variant stops following the desk with the move.
notePositionMoving(extension) ==
    lastPosition' = IF tracking /\ pc # "idle" THEN extension ELSE lastPosition
notePosition(extension) ==
    lastPosition' = IF tracking THEN extension ELSE lastPosition

DeliverReading(r) ==
    /\ readings' = IF pc # "idle" THEN r ELSE readings
    /\ notePosition(r.extension)
    /\ UNCHANGED <<moving, chMove, lastTarget, targetAge, tracking, watching,
                   legVars, timeVars, waitVars, pc, errs, last, outcome, offers, wire>>

DeliverFrame(f) ==
    /\ errs' = IF watching /\ pc \notin {"idle", "watch"} /\ Len(errs) < ErrorFrames
               THEN Append(errs, f) ELSE errs
    /\ UNCHANGED <<deskVars, legVars, timeVars, waitVars,
                   pc, readings, last, outcome, offers, wire>>

-----------------------------------------------------------------------------
(* Writing.  The goroutine goes on only when the last write has been sent. *)

CanRun == wire = NoHeight

noteTargetWritten(h) == lastTarget' = h /\ targetAge' = 0

\* write(), which also notes the target on the Desk.
Writes(h) ==
    /\ wire' = target(h)
    /\ written' = 0
    /\ noteTargetWritten(h)

NoWrite == UNCHANGED <<wire, written, lastTarget, targetAge>>

Ends(how) == pc' = "done" /\ outcome' = how

\* start(): the first height of a move or of a retarget.
Starts(h) ==
    /\ mmx10' = h
    /\ offered' = 0
    /\ movedYet' = FALSE
    /\ \/ /\ Writes(h)
          /\ stall' = 0
          /\ offers' = 1
          /\ pc' = "select"
          /\ UNCHANGED outcome
       \/ /\ Ends("writeFailed")
          /\ NoWrite
          /\ UNCHANGED <<stall, offers>>

-----------------------------------------------------------------------------
(* The goroutine, up to the select loop. *)

\* It looks for the error characteristic, then enters runMove.
WatchErrors ==
    /\ pc = "watch"
    /\ pc' = "sleep"
    /\ sleep' = waitBeforeTarget(mmx10)
    /\ errs' = <<>>
    /\ last' = NoReading
    /\ next' = NoHeight
    /\ movedYet' = FALSE
    /\ written' = 0 /\ offered' = 0 /\ stall' = 0 /\ offerDue' = FALSE
    /\ UNCHANGED <<deskVars, mmx10, collected, waitVars, readings, outcome, offers, wire>>

FirstWrite ==
    /\ pc = "sleep" /\ CanRun
    /\ sleep = 0
    /\ Starts(mmx10)
    /\ UNCHANGED <<moving, chMove, lastPosition, tracking, watching, next, collected,
                   offerDue, sleep, waitVars, readings, errs, last>>

-----------------------------------------------------------------------------
(* The select loop.  Go picks any case that is ready. *)

InSelect == pc = "select" /\ CanRun

TakeFrame ==
    /\ InSelect
    /\ errs # <<>>
    /\ errs' = Tail(errs)
    /\ IF faultFrame(Head(errs), FALSE) THEN Ends("fault") ELSE UNCHANGED <<pc, outcome>>
    /\ UNCHANGED <<deskVars, legVars, timeVars, waitVars, readings, last, offers, wire>>

\* Common to every reading taken: it becomes the last one, and progress
\* since the one before restarts the stall timer.
Progressed(r) ==
    last # NoReading /\ abs(r.extension - last.extension) >= ProgressThreshold

TakesReading(r) ==
    /\ InSelect
    /\ readings = r
    /\ readings # NoReading
    /\ readings' = NoReading
    /\ last' = r

TakeRecovering(r) ==
    /\ TakesReading(r)
    /\ r.recovering
    /\ stall' = IF Progressed(r) THEN 0 ELSE stall
    /\ Ends("fault")
    /\ UNCHANGED <<deskVars, legVars, written, offered, offerDue, sleep, waitVars,
                   errs, offers, wire>>

\* A travelling reading is answered with the target again.  A variant leaves
\* out those that show no progress.
AnswersProgress(r) ==
    IF Progressed(r) THEN Writes(mmx10) /\ UNCHANGED <<pc, outcome>>
                     ELSE NoWrite /\ UNCHANGED <<pc, outcome>>
Answers(r) ==
    \/ Writes(mmx10) /\ UNCHANGED <<pc, outcome>>
    \/ Ends("writeFailed") /\ NoWrite

\* Travelling: keep the target in front of the desk.
Sustain(r) ==
    /\ TakesReading(r)
    /\ ~r.recovering /\ r.speed # 0
    /\ movedYet' = TRUE
    /\ stall' = IF Progressed(r) THEN 0 ELSE stall
    /\ Answers(r)
    /\ UNCHANGED <<moving, chMove, lastPosition, tracking, watching, mmx10, next, collected,
                   offered, offerDue, sleep, waitVars, errs, offers>>

\* Entering waitReadyForNewTarget.
Waits(h, end, l, halts) ==
    /\ pc' = "ready"
    /\ to' = h
    /\ legEnd' = end
    /\ atRest' = (l # NoReading /\ l.speed = 0)
    /\ gapPassed' = FALSE
    /\ deadline' = 0
    /\ halting' = halts

\* The desk came to rest at the end of a leg with a target queued.  A variant
\* goes on to the queued target wherever it stopped.
AnyLegOver(r) == next # NoHeight
LegOver(r) == sameDestination(r.extension, mmx10) /\ next # NoHeight

\* At rest: arrived at a leg, arrived for good, halted short, or not begun.
LegFinished(r) ==
    /\ TakesReading(r)
    /\ ~r.recovering /\ r.speed = 0
    /\ LegOver(r)
    /\ next' = NoHeight
    /\ stall' = IF Progressed(r) THEN 0 ELSE stall
    /\ Waits(next, r.extension, r, FALSE)
    /\ UNCHANGED <<deskVars, mmx10, movedYet, collected, written, offered, offerDue, sleep,
                   errs, outcome, offers, wire>>

Rest(r) ==
    /\ TakesReading(r)
    /\ ~r.recovering /\ r.speed = 0
    /\ ~LegOver(r)
    /\ stall' = IF Progressed(r) THEN 0 ELSE stall
    /\ \/ sameDestination(r.extension, mmx10) /\ Ends("finished")
       \/ /\ ~sameDestination(r.extension, mmx10)
          /\ \/ movedYet /\ Ends("stoppedShort")
             \/ ~movedYet /\ offered < StartGrace /\ UNCHANGED <<pc, outcome>>
             \/ ~movedYet /\ offered >= StartGrace /\ Ends("noStart")
    /\ UNCHANGED <<deskVars, legVars, written, offered, offerDue, sleep, waitVars,
                   errs, offers, wire>>

TakeReading(r) == TakeRecovering(r) \/ Sustain(r) \/ LegFinished(r) \/ Rest(r)

\* A new target: a repeat, one further on, or one that interrupts.
TakesTarget(h) ==
    /\ InSelect
    /\ chMove = h
    /\ h # NoHeight
    /\ chMove' = NoHeight
    /\ collected' = h

\* A variant that does not drop the queued target.
RepeatIgnored(h) ==
    /\ TakesTarget(h)
    /\ sameDestination(h, mmx10)
    /\ UNCHANGED <<moving, lastTarget, targetAge, lastPosition, tracking, watching,
                   mmx10, next, movedYet, timeVars, waitVars, loopVars>>

Repeat(h) ==
    /\ TakesTarget(h)
    /\ sameDestination(h, mmx10)
    /\ next' = NoHeight
    /\ UNCHANGED <<moving, lastTarget, targetAge, lastPosition, tracking, watching,
                   mmx10, movedYet, timeVars, waitVars, loopVars>>

Extend(h) ==
    /\ TakesTarget(h)
    /\ ~sameDestination(h, mmx10)
    /\ extends(mmx10, h)
    /\ next' = h
    /\ UNCHANGED <<moving, lastTarget, targetAge, lastPosition, tracking, watching,
                   mmx10, movedYet, timeVars, waitVars, loopVars>>

Retarget(h) ==
    /\ TakesTarget(h)
    /\ ~sameDestination(h, mmx10)
    /\ ~extends(mmx10, h)
    /\ next' = NoHeight
    /\ \/ /\ HaltOnRetarget
          /\ Writes(h)                      \* the halting write
          /\ Waits(h, NoHeight, last, TRUE)
       \/ /\ NoWrite                        \* switched off, or it failed
          /\ Waits(h, NoHeight, last, FALSE)
    /\ UNCHANGED <<moving, lastPosition, tracking, watching, mmx10, movedYet,
                   offered, stall, offerDue, sleep, readings, errs, last, outcome, offers>>

TakeTarget(h) == Repeat(h) \/ Extend(h) \/ Retarget(h)

OfferTick ==
    /\ InSelect
    /\ offerDue
    /\ offerDue' = FALSE
    /\ \/ /\ ~MayOffer /\ (movedYet \/ offered < StartGrace)
          /\ NoWrite
          /\ UNCHANGED <<pc, outcome, offers>>
       \/ /\ ~movedYet /\ offered >= StartGrace
          /\ Ends("noStart")
          /\ NoWrite
          /\ UNCHANGED offers
       \/ /\ MayOffer
          /\ \/ Writes(mmx10) /\ offers' = offers + 1 /\ UNCHANGED <<pc, outcome>>
             \/ Ends("writeFailed") /\ NoWrite /\ UNCHANGED offers
    /\ UNCHANGED <<moving, chMove, lastPosition, tracking, watching, legVars,
                   offered, stall, sleep, waitVars, readings, errs, last>>

Stalled ==
    /\ InSelect
    /\ stall = StallTimeout
    /\ Ends("stalled")
    /\ UNCHANGED <<deskVars, legVars, timeVars, waitVars, readings, errs, last, offers, wire>>

-----------------------------------------------------------------------------
(* waitReadyForNewTarget, and what its callers do with the result. *)

\* A variant waits for one of the two only.
ReadyOnceQuiet == gapPassed
Ready == atRest /\ gapPassed

\* Its select runs only while the condition at the top of its loop is false.
InWait == pc = "ready" /\ CanRun /\ ~Ready

WaitFrame ==
    /\ InWait
    /\ errs # <<>>
    /\ errs' = Tail(errs)
    /\ IF faultFrame(Head(errs), halting) THEN Ends("fault") ELSE UNCHANGED <<pc, outcome>>
    /\ UNCHANGED <<deskVars, legVars, timeVars, waitVars, readings, last, offers, wire>>

\* A variant looks at the speed only.
WaitReadingSpeed ==
    /\ InWait
    /\ readings # NoReading
    /\ readings' = NoReading
    /\ last' = readings
    /\ atRest' = (readings.speed = 0)
    /\ UNCHANGED <<deskVars, legVars, timeVars, to, legEnd, gapPassed, deadline, halting,
                   pc, outcome, errs, offers, wire>>
WaitReading ==
    /\ InWait
    /\ readings # NoReading
    /\ readings' = NoReading
    /\ last' = readings
    /\ IF readings.recovering
       THEN Ends("fault") /\ UNCHANGED atRest
       ELSE atRest' = (readings.speed = 0) /\ UNCHANGED <<pc, outcome>>
    /\ UNCHANGED <<deskVars, legVars, timeVars, to, legEnd, gapPassed, deadline, halting,
                   errs, offers, wire>>

WaitGap ==
    /\ InWait
    /\ ~gapPassed /\ written = RetargetGap
    /\ gapPassed' = TRUE
    /\ UNCHANGED <<deskVars, legVars, timeVars, to, legEnd, atRest, deadline, halting, loopVars>>

\* stopSettle has passed.  Without that bound a desk that never reports rest
\* would hold the move forever.
NeverGivesUp == FALSE
GivesUp == deadline = StopSettle

\* latestTarget: what arrived while waiting supersedes what started it.
LatestForgotten(h) == h
Latest(h) == IF chMove # NoHeight THEN chMove ELSE h

\* After a leg: one that turns out to end where the newest target is finishes.
AfterLeg(latest) ==
    \/ /\ sameDestination(latest, legEnd)
       /\ Ends("finished")
       /\ NoWrite
       /\ UNCHANGED <<mmx10, movedYet, offered, stall, offers>>
    \/ /\ ~sameDestination(latest, legEnd)
       /\ Starts(latest)

\* After a retarget the desk has to start again from rest, even if the burst
\* ended where it began.
AfterRetarget(latest) == Starts(IF sameDestination(latest, mmx10) THEN mmx10 ELSE latest)

\* Ready, or given up on after stopSettle.
WaitOver ==
    /\ pc = "ready" /\ CanRun
    /\ Ready \/ GivesUp
    /\ chMove' = NoHeight
    /\ collected' = IF chMove # NoHeight THEN chMove ELSE collected
    /\ \/ legEnd # NoHeight /\ AfterLeg(Latest(to))
       \/ legEnd = NoHeight /\ AfterRetarget(Latest(to))
    /\ UNCHANGED <<moving, lastPosition, tracking, watching, next, offerDue, sleep,
                   waitVars, readings, errs, last>>

-----------------------------------------------------------------------------
\* The deferred calls: the callbacks are removed, then moving is cleared.
\* The locals die here; they are reset so that no state outlives the move.
Return ==
    /\ pc = "done" /\ CanRun
    /\ pc' = "idle"
    /\ moving' = FALSE
    /\ readings' = NoReading /\ errs' = <<>> /\ last' = NoReading
    /\ next' = NoHeight /\ movedYet' = FALSE
    /\ written' = 0 /\ offered' = 0 /\ stall' = 0 /\ offerDue' = FALSE
    /\ to' = NoHeight /\ legEnd' = NoHeight /\ atRest' = FALSE
    /\ gapPassed' = FALSE /\ deadline' = 0 /\ halting' = FALSE
    /\ offers' = 0
    /\ mmx10' = NoHeight
    /\ UNCHANGED <<chMove, lastTarget, targetAge, lastPosition, tracking, watching,
                   collected, sleep, outcome, wire>>

Goroutine ==
    \/ WatchErrors \/ FirstWrite
    \/ TakeFrame \/ OfferTick \/ Stalled
    \/ \E r \in Reading : TakeReading(r)
    \/ \E h \in Height : TakeTarget(h)
    \/ WaitFrame \/ WaitReading \/ WaitGap \/ WaitOver
    \/ Return

\* The link takes the height.
Transmit ==
    /\ wire # NoHeight
    /\ wire' = NoHeight
    /\ UNCHANGED <<deskVars, legVars, timeVars, waitVars,
                   pc, readings, errs, last, outcome, offers>>

\* Time passes: every clock the move holds, and the Desk's.
Tick ==
    /\ targetAge' = Aged(targetAge, RetargetGap)
    /\ IF pc \in {"idle", "done"}
       THEN UNCHANGED <<timeVars, deadline>>
       ELSE /\ written' = Aged(written, RetargetGap)
            /\ offered' = Aged(offered, StartGrace)
            /\ stall' = Aged(stall, StallTimeout)
            /\ sleep' = IF sleep > 0 THEN sleep - 1 ELSE 0
            /\ offerDue' = (pc # "watch")
            /\ deadline' = IF pc = "ready" THEN Aged(deadline, StopSettle) ELSE deadline
    /\ UNCHANGED <<moving, chMove, lastTarget, lastPosition, tracking, watching, legVars,
                   to, legEnd, atRest, gapPassed, halting, loopVars>>

\* Looked for once for the Desk's life: a desk may be without them.
ControlErrors == watching \in BOOLEAN

Init ==
    /\ moving = FALSE /\ chMove = NoHeight
    /\ lastTarget = NoHeight /\ targetAge = RetargetGap
    /\ lastPosition = NoHeight /\ tracking = FALSE
    /\ ControlErrors
    /\ pc = "idle" /\ outcome = "none"
    /\ readings = NoReading /\ errs = <<>> /\ last = NoReading
    /\ mmx10 = NoHeight /\ collected = NoHeight
    /\ next = NoHeight /\ movedYet = FALSE
    /\ written = 0 /\ offered = 0 /\ stall = 0 /\ offerDue = FALSE /\ sleep = 0
    /\ to = NoHeight /\ legEnd = NoHeight /\ atRest = FALSE
    /\ gapPassed = FALSE /\ deadline = 0 /\ halting = FALSE
    /\ offers = 0 /\ wire = NoHeight

Next ==
    \/ \E h \in Height : Move(h)
    \/ \E r \in Reading : DeliverReading(r)
    \/ \E f \in Frame : DeliverFrame(f)
    \/ Goroutine
    \/ Transmit
    \/ Tick

Spec == Init /\ [][Next]_vars

-----------------------------------------------------------------------------
(* Properties *)

Slot(S, none) == S \cup {none}

DeskOK ==
    /\ moving \in BOOLEAN /\ tracking \in BOOLEAN /\ watching \in BOOLEAN
    /\ chMove \in Slot(Height, NoHeight)
    /\ lastTarget \in Slot(Height, NoHeight) /\ targetAge \in 0..RetargetGap
    /\ lastPosition \in Slot(Height, NoHeight)

LegOK ==
    /\ mmx10 \in Slot(Height, NoHeight) /\ next \in Slot(Height, NoHeight)
    /\ collected \in Slot(Height, NoHeight) /\ movedYet \in BOOLEAN

TimeOK ==
    /\ written \in 0..RetargetGap /\ offered \in 0..StartGrace
    /\ stall \in 0..StallTimeout /\ offerDue \in BOOLEAN /\ sleep \in 0..RetargetGap

WaitOK ==
    /\ to \in Slot(Height, NoHeight) /\ legEnd \in Slot(Height, NoHeight)
    /\ atRest \in BOOLEAN /\ gapPassed \in BOOLEAN /\ halting \in BOOLEAN
    /\ deadline \in 0..StopSettle

Word == {n \in Nat : n < 65536}

LoopOK ==
    /\ pc \in {"idle", "watch", "sleep", "select", "ready", "done"}
    /\ outcome \in Outcome
    /\ readings \in Slot(Reading, NoReading) /\ last \in Slot(Reading, NoReading)
    /\ errs \in Seq(Frame) /\ Len(errs) <= ErrorFrames
    /\ offers \in Nat
    /\ wire \in Slot(Word, NoHeight)

TypeOK == DeskOK /\ LegOK /\ TimeOK /\ WaitOK /\ LoopOK

\* move.go:141-145.  A height goes out only after a full gap since the last
\* one, whichever move wrote that, unless it sustains the desk on its way,
\* is the halting write of the experiment, or is the first of a move to the
\* place the last height named (which waitBeforeTarget lets through at once).
QuietBefore ==
    wire = NoHeight /\ wire' # NoHeight /\ lastTarget # NoHeight =>
        \/ targetAge = RetargetGap
        \/ movedYet' /\ lastTarget' = lastTarget
        \/ pc' = "ready"
        \/ pc = "sleep" /\ sameDestination(lastTarget', lastTarget)

QuietGap == [][QuietBefore]_vars

\* move.go:113-124.  A desk not seen moving is offered the target a bounded
\* number of times, gaps apart within the grace: the first write and two more.
OffersBounded == offers > 0 => (offers - 1) * RetargetGap < StartGrace

\* move.go:205-219, 558-565.  A queued target is one the desk was on its way
\* past: there is never one before the desk has been seen moving, nor one
\* that the end of the leg already satisfies, whatever came in between.
QueuedFurther ==
    pc = "select" /\ next # NoHeight =>
        movedYet /\ mmx10 # NoHeight /\ ~sameDestination(next, mmx10)
=============================================================================
