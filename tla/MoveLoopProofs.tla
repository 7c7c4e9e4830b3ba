--------------------------- MODULE MoveLoopProofs ---------------------------
(***************************************************************************)
(* MoveLoop, for any set of heights, any durations in the order the code   *)
(* has them, and an environment that reports, fails and calls as it likes. *)
(***************************************************************************)
EXTENDS MoveLoop, TLAPS

\* A move knows where it is going.
Busy ==
    /\ pc \in {"watch", "sleep", "select", "ready"} => mmx10 \in Height
    /\ pc = "ready" => to \in Height

\* The ways the gap is timed agree: the Desk's clock, the move's, and the two
\* timers of waitReadyForNewTarget.
Timed ==
    /\ pc \in {"select", "ready"} => lastTarget \in Height /\ written = targetAge
    /\ pc = "select" => mmx10 = lastTarget
    /\ pc = "sleep" => \/ lastTarget = NoHeight
                       \/ sameDestination(mmx10, lastTarget)
                       \/ sleep + targetAge >= RetargetGap
    /\ pc = "ready" => /\ gapPassed => written = RetargetGap
                       /\ deadline <= written \/ written = RetargetGap

\* Every offer after the first has taken a gap of the grace.
Offered ==
    /\ OffersBounded
    /\ pc = "select" => /\ offers > 0
                        /\ \/ (offers - 1) * RetargetGap + written <= offered
                           \/ offered = StartGrace

\* Nothing is queued when a leg begins.
Queued ==
    /\ pc \in {"sleep", "ready"} => next = NoHeight
    /\ QueuedFurther

IInv == TypeOK /\ Busy /\ Timed /\ Offered /\ Queued

-----------------------------------------------------------------------------
\* What a report is made of.
LEMMA ReadingFields ==
    ASSUME NEW r \in Reading
    PROVE  r.extension \in Height /\ r.speed \in {-1, 0, 1} /\ r.recovering \in BOOLEAN
BY DEF Reading

\* The bytes that go out are sixteen bits.
LEMMA TargetIsWord ==
    ASSUME NEW h \in Height
    PROVE  target(h) \in Word
<1>1. h \in Int
  BY HeightAssumption DEF HeightAssumption
<1>2. QED BY <1>1 DEF target, Word

\* A wait never exceeds the gap, and with the age of the last target makes
\* one, unless it is that target again.
LEMMA WaitIsGap ==
    ASSUME DeskOK, NEW h \in Height
    PROVE  /\ waitBeforeTarget(h) \in 0..RetargetGap
           /\ \/ lastTarget = NoHeight
              \/ sameDestination(h, lastTarget)
              \/ waitBeforeTarget(h) + targetAge = RetargetGap
BY TimeAssumption DEF DeskOK, waitBeforeTarget

\* A target that extends a leg is further than the dead band from its end.
LEMMA ExtendsIsFurther ==
    ASSUME NEW a \in Height, NEW b \in Height, extends(a, b)
    PROVE  movedYet /\ ~sameDestination(b, a)
BY HeightAssumption DEF extends, sameDestination, abs

\* One more offer takes one more gap.
LEMMA OneMoreGap ==
    ASSUME NEW n \in Nat, n > 0
    PROVE  (n - 1) * RetargetGap + RetargetGap = n * RetargetGap
<1> DEFINE m == n - 1
<1>1. m \in Int /\ n = m + 1 /\ RetargetGap \in Int
  BY TimeAssumption
<1>2. m * RetargetGap + RetargetGap = (m + 1) * RetargetGap
  BY <1>1
<1>3. QED
  BY <1>1, <1>2

\* Clocks and timers start in range.
LEMMA ZeroIsTime ==
    /\ 0 \in 0..RetargetGap /\ 0 \in 0..StartGrace
    /\ 0 \in 0..StallTimeout /\ 0 \in 0..StopSettle
BY TimeAssumption

\* Variables left alone keep their types.
LEMMA SameTypes ==
    /\ DeskOK /\ UNCHANGED deskVars => DeskOK'
    /\ LegOK /\ UNCHANGED legVars => LegOK'
    /\ TimeOK /\ UNCHANGED timeVars => TimeOK'
    /\ WaitOK /\ UNCHANGED waitVars => WaitOK'
    /\ LoopOK /\ UNCHANGED loopVars => LoopOK'
<1>1. DeskOK /\ UNCHANGED deskVars => DeskOK'
  BY DEF DeskOK, deskVars
<1>2. LegOK /\ UNCHANGED legVars => LegOK'
  BY DEF LegOK, legVars
<1>3. TimeOK /\ UNCHANGED timeVars => TimeOK'
  BY DEF TimeOK, timeVars
<1>4. WaitOK /\ UNCHANGED waitVars => WaitOK'
  BY DEF WaitOK, waitVars
<1>5. LoopOK /\ UNCHANGED loopVars => LoopOK'
  BY DEF LoopOK, loopVars
<1>6. QED
  BY <1>1, <1>2, <1>3, <1>4, <1>5

\* A step keeps the types.
LEMMA TypeStep ==
    ASSUME TypeOK, Busy, Next PROVE TypeOK'
<1> USE DEF TypeOK
<1>1. ASSUME NEW h \in Height, MoveWhileMoving(h) PROVE TypeOK'
  <2>1. LegOK' /\ TimeOK' /\ WaitOK' /\ LoopOK'
    BY <1>1, SameTypes DEF MoveWhileMoving
  <2>2. DeskOK'
    BY <1>1 DEF MoveWhileMoving, DeskOK, Slot
  <2>3. QED BY <2>1, <2>2
<1>2. CASE MoveReturns
  <2>1. LegOK' /\ TimeOK' /\ WaitOK' /\ LoopOK'
    BY <1>2, SameTypes DEF MoveReturns, ensurePositionTracking
  <2>2. DeskOK'
    BY <1>2 DEF MoveReturns, ensurePositionTracking, DeskOK, Slot
  <2>3. QED BY <2>1, <2>2
<1>3. ASSUME NEW h \in Height, MoveStarts(h) PROVE TypeOK'
  <2>1. TimeOK' /\ WaitOK'
    BY <1>3, SameTypes DEF MoveStarts, ensurePositionTracking
  <2>2. DeskOK'
    BY <1>3 DEF MoveStarts, ensurePositionTracking, DeskOK, Slot
  <2>3. LegOK'
    BY <1>3 DEF MoveStarts, ensurePositionTracking, LegOK, Slot
  <2>4. LoopOK'
    BY <1>3 DEF MoveStarts, ensurePositionTracking, LoopOK, Slot, Outcome
  <2>5. QED BY <2>1, <2>2, <2>3, <2>4
<1>4. ASSUME NEW r \in Reading, DeliverReading(r) PROVE TypeOK'
  <2>1. LegOK' /\ TimeOK' /\ WaitOK'
    BY <1>4, SameTypes DEF DeliverReading, notePosition
  <2>2. DeskOK'
    BY <1>4, ReadingFields DEF DeliverReading, notePosition, DeskOK, Slot
  <2>3. LoopOK'
    BY <1>4 DEF DeliverReading, notePosition, LoopOK, Slot
  <2>4. QED BY <2>1, <2>2, <2>3
<1>5. ASSUME NEW f \in Frame, DeliverFrame(f) PROVE TypeOK'
  <2>1. DeskOK' /\ LegOK' /\ TimeOK' /\ WaitOK'
    BY <1>5, SameTypes DEF DeliverFrame
  <2>2. LoopOK'
    BY <1>5, MiscAssumption DEF DeliverFrame, LoopOK
  <2>3. QED BY <2>1, <2>2
<1>6. CASE WatchErrors
  <2>1. DeskOK' /\ WaitOK'
    BY <1>6, SameTypes DEF WatchErrors
  <2>2. LegOK'
    BY <1>6 DEF WatchErrors, LegOK, Slot
  <2>3. TimeOK'
    <3>1. mmx10 \in Height
      BY <1>6 DEF WatchErrors, Busy
    <3>2. sleep' \in 0..RetargetGap
      BY <1>6, <3>1, WaitIsGap DEF WatchErrors
    <3>3. QED
      BY <1>6, <3>2, ZeroIsTime DEF WatchErrors, TimeOK
  <2>4. LoopOK'
    BY <1>6, MiscAssumption DEF WatchErrors, LoopOK, Slot
  <2>5. QED BY <2>1, <2>2, <2>3, <2>4
<1>7. CASE FirstWrite
  <2>1. WaitOK'
    BY <1>7, SameTypes DEF FirstWrite
  <2>2. DeskOK'
    BY <1>7, TimeAssumption DEF FirstWrite, Starts, Writes, noteTargetWritten, NoWrite, DeskOK,
            Busy, Slot
  <2>3. LegOK'
    BY <1>7 DEF FirstWrite, Starts, LegOK, Busy, Slot
  <2>4. TimeOK'
    BY <1>7, TimeAssumption DEF FirstWrite, Starts, Writes, noteTargetWritten, NoWrite, TimeOK
  <2>5. LoopOK'
    BY <1>7, TargetIsWord DEF FirstWrite, Starts, Writes, noteTargetWritten, NoWrite, Ends, LoopOK,
            Busy, Slot, Outcome
  <2>6. QED BY <2>1, <2>2, <2>3, <2>4, <2>5
<1>8. CASE TakeFrame
  <2>1. DeskOK' /\ LegOK' /\ TimeOK' /\ WaitOK'
    BY <1>8, SameTypes DEF TakeFrame
  <2>2. LoopOK'
    <3>1. errs' \in Seq(Frame) /\ Len(errs') <= ErrorFrames
      BY <1>8, MiscAssumption DEF TakeFrame, LoopOK
    <3>2. pc' \in {"select", "done"} /\ outcome' \in Outcome
      BY <1>8 DEF TakeFrame, InSelect, Ends, LoopOK, Outcome
    <3>3. readings' \in Slot(Reading, NoReading) /\ last' \in Slot(Reading, NoReading) /\ offers' \in Nat
          /\ wire' \in Slot(Word, NoHeight)
      BY <1>8 DEF TakeFrame, LoopOK
    <3>4. QED
      BY <3>1, <3>2, <3>3 DEF LoopOK
  <2>3. QED BY <2>1, <2>2
<1>9. ASSUME NEW r \in Reading, TakeRecovering(r) PROVE TypeOK'
  <2>1. DeskOK' /\ LegOK' /\ WaitOK'
    BY <1>9, SameTypes DEF TakeRecovering
  <2>2. TimeOK'
    BY <1>9, TimeAssumption DEF TakeRecovering, TimeOK
  <2>3. LoopOK'
    BY <1>9 DEF TakeRecovering, TakesReading, Ends, LoopOK, Slot, Outcome
  <2>4. QED BY <2>1, <2>2, <2>3
<1>10. ASSUME NEW r \in Reading, Sustain(r) PROVE TypeOK'
  <2>1. WaitOK'
    BY <1>10, SameTypes DEF Sustain
  <2>2. DeskOK'
    BY <1>10, TimeAssumption DEF Sustain, TakesReading, InSelect, Answers, Writes,
            noteTargetWritten, NoWrite, DeskOK, Busy, Slot
  <2>3. LegOK'
    BY <1>10 DEF Sustain, LegOK
  <2>4. TimeOK'
    BY <1>10, TimeAssumption DEF Sustain, Answers, Writes, noteTargetWritten, NoWrite, TimeOK
  <2>5. LoopOK'
    BY <1>10, TargetIsWord DEF Sustain, TakesReading, InSelect, Answers, Writes, noteTargetWritten,
            NoWrite, Ends, LoopOK, Busy, Slot, Outcome
  <2>6. QED BY <2>1, <2>2, <2>3, <2>4, <2>5
<1>11. ASSUME NEW r \in Reading, LegFinished(r) PROVE TypeOK'
  <2>1. DeskOK'
    BY <1>11, SameTypes DEF LegFinished
  <2>2. LegOK'
    BY <1>11 DEF LegFinished, LegOK, Slot
  <2>3. TimeOK'
    BY <1>11, TimeAssumption DEF LegFinished, TimeOK
  <2>4. WaitOK'
    <3>1. to' \in Height /\ legEnd' \in Height
      BY <1>11, ReadingFields DEF LegFinished, LegOver, Waits, LegOK, Slot
    <3>2. gapPassed' = FALSE /\ deadline' = 0 /\ halting' = FALSE
      BY <1>11 DEF LegFinished, Waits
    <3>3. atRest' \in BOOLEAN
      BY <1>11 DEF LegFinished, Waits
    <3>4. QED
      BY <1>11, <3>1, <3>2, <3>3, ZeroIsTime DEF WaitOK, Slot
  <2>5. LoopOK'
    BY <1>11 DEF LegFinished, TakesReading, Waits, LoopOK, Slot
  <2>6. QED BY <2>1, <2>2, <2>3, <2>4, <2>5
<1>12. ASSUME NEW r \in Reading, Rest(r) PROVE TypeOK'
  <2>1. DeskOK' /\ LegOK' /\ WaitOK'
    BY <1>12, SameTypes DEF Rest
  <2>2. TimeOK'
    BY <1>12, TimeAssumption DEF Rest, TimeOK
  <2>3. LoopOK'
    BY <1>12 DEF Rest, TakesReading, Ends, LoopOK, Slot, Outcome
  <2>4. QED BY <2>1, <2>2, <2>3
<1>13. ASSUME NEW h \in Height, Repeat(h) PROVE TypeOK'
  <2>1. TimeOK' /\ WaitOK' /\ LoopOK'
    BY <1>13, SameTypes DEF Repeat
  <2>2. DeskOK'
    BY <1>13 DEF Repeat, TakesTarget, DeskOK, Slot
  <2>3. LegOK'
    BY <1>13 DEF Repeat, TakesTarget, LegOK, Slot
  <2>4. QED BY <2>1, <2>2, <2>3
<1>14. ASSUME NEW h \in Height, Extend(h) PROVE TypeOK'
  <2>1. TimeOK' /\ WaitOK' /\ LoopOK'
    BY <1>14, SameTypes DEF Extend
  <2>2. DeskOK'
    BY <1>14 DEF Extend, TakesTarget, DeskOK, Slot
  <2>3. LegOK'
    BY <1>14 DEF Extend, TakesTarget, LegOK, Slot
  <2>4. QED BY <2>1, <2>2, <2>3
<1>15. ASSUME NEW h \in Height, Retarget(h) PROVE TypeOK'
  <2>1. DeskOK'
    <3>1. lastTarget' \in Slot(Height, NoHeight) /\ targetAge' \in 0..RetargetGap
      BY <1>15, ZeroIsTime DEF Retarget, Writes, noteTargetWritten, NoWrite, DeskOK, Slot
    <3>2. chMove' = NoHeight /\ UNCHANGED <<moving, tracking, watching, lastPosition>>
      BY <1>15 DEF Retarget, TakesTarget
    <3>3. QED
      BY <1>15, <3>1, <3>2 DEF DeskOK, Slot
  <2>2. LegOK'
    BY <1>15 DEF Retarget, TakesTarget, LegOK, Slot
  <2>3. TimeOK'
    <3>1. written' \in 0..RetargetGap
      BY <1>15, ZeroIsTime DEF Retarget, Writes, noteTargetWritten, NoWrite, TimeOK
    <3>2. offered' \in 0..StartGrace /\ stall' \in 0..StallTimeout /\ sleep' \in 0..RetargetGap /\ offerDue' \in BOOLEAN
      BY <1>15 DEF Retarget, TimeOK
    <3>3. QED
      BY <3>1, <3>2 DEF TimeOK
  <2>4. WaitOK'
    <3>1. to' \in Height /\ legEnd' = NoHeight /\ gapPassed' = FALSE /\ deadline' = 0
      BY <1>15 DEF Retarget, Waits
    <3>2. atRest' \in BOOLEAN /\ halting' \in BOOLEAN
      BY <1>15 DEF Retarget, Waits
    <3>3. QED
      BY <1>15, <3>1, <3>2, ZeroIsTime DEF WaitOK, Slot
  <2>5. LoopOK'
    BY <1>15, TargetIsWord DEF Retarget, Waits, Writes, noteTargetWritten, NoWrite, LoopOK, Slot
  <2>6. QED BY <2>1, <2>2, <2>3, <2>4, <2>5
<1>16. CASE OfferTick
  <2>1. LegOK' /\ WaitOK'
    BY <1>16, SameTypes DEF OfferTick
  <2>2. DeskOK'
    BY <1>16, TimeAssumption DEF OfferTick, InSelect, Writes, noteTargetWritten, NoWrite, DeskOK,
            Busy, Slot
  <2>3. TimeOK'
    <3>1. written' \in 0..RetargetGap
      BY <1>16, ZeroIsTime DEF OfferTick, Writes, noteTargetWritten, NoWrite, TimeOK
    <3>2. offerDue' \in BOOLEAN
      BY <1>16 DEF OfferTick
    <3>3. offered' \in 0..StartGrace /\ stall' \in 0..StallTimeout /\ sleep' \in 0..RetargetGap
      BY <1>16 DEF OfferTick, TimeOK
    <3>4. QED
      BY <3>1, <3>2, <3>3 DEF TimeOK
  <2>4. LoopOK'
    BY <1>16, TargetIsWord DEF OfferTick, InSelect, Writes, noteTargetWritten, NoWrite, Ends,
            LoopOK, Busy, Slot, Outcome
  <2>5. QED BY <2>1, <2>2, <2>3, <2>4
<1>17. CASE Stalled
  <2>1. DeskOK' /\ LegOK' /\ TimeOK' /\ WaitOK'
    BY <1>17, SameTypes DEF Stalled
  <2>2. LoopOK'
    BY <1>17 DEF Stalled, Ends, LoopOK, Outcome
  <2>3. QED BY <2>1, <2>2
<1>18. CASE WaitFrame
  <2>1. DeskOK' /\ LegOK' /\ TimeOK' /\ WaitOK'
    BY <1>18, SameTypes DEF WaitFrame
  <2>2. LoopOK'
    <3>1. errs' \in Seq(Frame) /\ Len(errs') <= ErrorFrames
      BY <1>18, MiscAssumption DEF WaitFrame, LoopOK
    <3>2. pc' \in {"ready", "done"} /\ outcome' \in Outcome
      BY <1>18 DEF WaitFrame, InWait, Ends, LoopOK, Outcome
    <3>3. readings' \in Slot(Reading, NoReading) /\ last' \in Slot(Reading, NoReading) /\ offers' \in Nat
          /\ wire' \in Slot(Word, NoHeight)
      BY <1>18 DEF WaitFrame, LoopOK
    <3>4. QED
      BY <3>1, <3>2, <3>3 DEF LoopOK
  <2>3. QED BY <2>1, <2>2
<1>19. CASE WaitReading
  <2>1. DeskOK' /\ LegOK' /\ TimeOK'
    BY <1>19, SameTypes DEF WaitReading
  <2>2. WaitOK'
    BY <1>19 DEF WaitReading, WaitOK, Slot
  <2>3. LoopOK'
    BY <1>19 DEF WaitReading, Ends, LoopOK, Slot, Outcome
  <2>4. QED BY <2>1, <2>2, <2>3
<1>20. CASE WaitGap
  <2>1. DeskOK' /\ LegOK' /\ TimeOK' /\ LoopOK'
    BY <1>20, SameTypes DEF WaitGap
  <2>2. WaitOK'
    BY <1>20 DEF WaitGap, WaitOK, Slot
  <2>3. QED BY <2>1, <2>2
<1>21. CASE WaitOver
  <2>0. Latest(to) \in Height
    BY <1>21 DEF WaitOver, AfterRetarget, AfterLeg, Latest, DeskOK, Busy, Slot
  <2>1. WaitOK'
    BY <1>21, SameTypes DEF WaitOver, AfterRetarget, AfterLeg
  <2>2. DeskOK'
    BY <1>21, TimeAssumption, <2>0 DEF WaitOver, AfterRetarget, AfterLeg, Starts, Writes,
            noteTargetWritten, NoWrite, DeskOK, Busy, Slot
  <2>3. LegOK'
    BY <1>21, <2>0 DEF WaitOver, AfterRetarget, AfterLeg, Starts, LegOK, DeskOK, Busy, Slot
  <2>4. TimeOK'
    BY <1>21, TimeAssumption DEF WaitOver, AfterRetarget, AfterLeg, Starts, Writes,
            noteTargetWritten, NoWrite, TimeOK
  <2>5. LoopOK'
    BY <1>21, <2>0, TargetIsWord DEF WaitOver, AfterRetarget, AfterLeg, Starts, Writes,
            noteTargetWritten, NoWrite, Ends, LoopOK, Busy, Slot, Outcome
  <2>6. QED BY <2>1, <2>2, <2>3, <2>4, <2>5
<1>22. CASE Return
  <2>1. DeskOK'
    BY <1>22 DEF Return, DeskOK
  <2>2. LegOK'
    BY <1>22 DEF Return, LegOK, Slot
  <2>3. TimeOK'
    <3>1. sleep' \in 0..RetargetGap
      BY <1>22 DEF Return, TimeOK
    <3>2. QED
      BY <1>22, <3>1, ZeroIsTime DEF Return, TimeOK
  <2>4. WaitOK'
    BY <1>22, ZeroIsTime DEF Return, WaitOK, Slot
  <2>5. LoopOK'
    BY <1>22, MiscAssumption DEF Return, LoopOK, Slot
  <2>6. QED BY <2>1, <2>2, <2>3, <2>4, <2>5
<1>23. CASE Transmit
  <2>1. DeskOK' /\ LegOK' /\ TimeOK' /\ WaitOK'
    BY <1>23, SameTypes DEF Transmit
  <2>2. LoopOK'
    BY <1>23 DEF Transmit, LoopOK, Slot
  <2>3. QED BY <2>1, <2>2
<1>24. CASE Tick
  <2>1. LegOK' /\ LoopOK'
    BY <1>24, SameTypes DEF Tick
  <2>2. DeskOK'
    BY <1>24, TimeAssumption DEF Tick, Aged, DeskOK
  <2>3. TimeOK'
    <3>1. offerDue' \in BOOLEAN
      BY <1>24 DEF Tick, timeVars, TimeOK
    <3>2. written' \in 0..RetargetGap /\ offered' \in 0..StartGrace
      BY <1>24, TimeAssumption DEF Tick, Aged, timeVars, TimeOK
    <3>3. stall' \in 0..StallTimeout /\ sleep' \in 0..RetargetGap
      BY <1>24, TimeAssumption DEF Tick, Aged, timeVars, TimeOK
    <3>4. QED
      BY <3>1, <3>2, <3>3 DEF TimeOK
  <2>4. WaitOK'
    BY <1>24, TimeAssumption DEF Tick, Aged, WaitOK
  <2>5. QED BY <2>1, <2>2, <2>3, <2>4
<1>25. QED
  BY <1>1, <1>2, <1>3, <1>4, <1>5, <1>6, <1>7, <1>8, <1>9, <1>10, <1>11, <1>12, <1>13, <1>14, <1>15, <1>16, <1>17, <1>18, <1>19, <1>20, <1>21, <1>22, <1>23, <1>24
  DEF Next, Move, Goroutine, TakeReading, TakeTarget

-----------------------------------------------------------------------------
\* What the rest of the invariant speaks of.
spoken == <<pc, mmx10, to, lastTarget, targetAge, written, sleep, gapPassed,
            deadline, offers, offered, next, movedYet>>

\* A step that ends the move, or finds it ended.
Closing == pc' \in {"idle", "done"} /\ offers' \in {offers, 0}

\* A step that writes a height from the select loop or on the way into it.
Going == pc' = "select"

\* The steps that disturb it.
Disturbs ==
    \/ \E h \in Height : MoveStarts(h) \/ Repeat(h) \/ Extend(h) \/ Retarget(h)
    \/ \E r \in Reading : LegFinished(r) \/ (Sustain(r) /\ Going)
    \/ WatchErrors \/ WaitGap \/ Tick
    \/ (FirstWrite \/ OfferTick \/ WaitOver) /\ Going

\* Only these steps change what the desk was last told, or the clocks of it.
LEMMA Disturbers ==
    ASSUME Next PROVE UNCHANGED spoken \/ Closing \/ Disturbs
<1>1. ASSUME NEW h \in Height, Move(h)
      PROVE  UNCHANGED spoken \/ MoveStarts(h)
  BY <1>1 DEF Move, MoveWhileMoving, MoveReturns, ensurePositionTracking, spoken, legVars,
            timeVars, waitVars, loopVars
<1>2. ASSUME NEW r \in Reading, DeliverReading(r) PROVE UNCHANGED spoken
  BY <1>2 DEF DeliverReading, notePosition, spoken, legVars, timeVars, waitVars
<1>3. ASSUME NEW f \in Frame, DeliverFrame(f) PROVE UNCHANGED spoken
  BY <1>3 DEF DeliverFrame, spoken, deskVars, legVars, timeVars, waitVars
<1>4. ASSUME FirstWrite PROVE Closing \/ Going
  BY <1>4 DEF FirstWrite, Starts, Ends, Closing, Going
<1>5. CASE TakeFrame
  BY <1>5 DEF TakeFrame, Ends, Closing, spoken, deskVars, legVars, timeVars, waitVars
<1>6. ASSUME NEW r \in Reading, TakeRecovering(r) PROVE Closing
  BY <1>6 DEF TakeRecovering, Ends, Closing
<1>7. ASSUME NEW r \in Reading, Sustain(r) PROVE Closing \/ Going
  BY <1>7 DEF Sustain, TakesReading, InSelect, Answers, Ends, Closing, Going
<1>8. ASSUME NEW r \in Reading, Rest(r) PROVE UNCHANGED spoken \/ Closing
  BY <1>8 DEF Rest, Ends, Closing, spoken, deskVars, legVars, waitVars
<1>9. ASSUME OfferTick PROVE Closing \/ Going
  BY <1>9 DEF OfferTick, InSelect, Ends, Closing, Going
<1>10. CASE Stalled
  BY <1>10 DEF Stalled, Ends, Closing
<1>11. CASE WaitFrame
  BY <1>11 DEF WaitFrame, Ends, Closing, spoken, deskVars, legVars, timeVars, waitVars
<1>12. CASE WaitReading
  BY <1>12 DEF WaitReading, Ends, Closing, spoken, deskVars, legVars, timeVars
<1>13. ASSUME WaitOver PROVE Closing \/ Going
  BY <1>13 DEF WaitOver, AfterRetarget, AfterLeg, Starts, Ends, Closing, Going
<1>14. CASE Return
  BY <1>14 DEF Return, Closing
<1>15. CASE Transmit
  BY <1>15 DEF Transmit, spoken, deskVars, legVars, timeVars, waitVars
<1>16. ASSUME NEW r \in Reading, TakeReading(r)
       PROVE  UNCHANGED spoken \/ Closing \/ Disturbs
  BY <1>16, <1>6, <1>7, <1>8 DEF TakeReading, Disturbs
<1>17. ASSUME NEW h \in Height, TakeTarget(h) PROVE Disturbs
  BY <1>17 DEF TakeTarget, Disturbs
<1>18. Goroutine => UNCHANGED spoken \/ Closing \/ Disturbs
  <2>1. FirstWrite \/ OfferTick \/ WaitOver => Closing \/ Going
    BY <1>4, <1>9, <1>13
  <2>2. WatchErrors \/ WaitGap => Disturbs
    BY DEF Disturbs
  <2>3. (FirstWrite \/ OfferTick \/ WaitOver) /\ Going => Disturbs
    BY DEF Disturbs
  <2>4. TakeFrame \/ Stalled \/ WaitFrame \/ WaitReading \/ Return
           => UNCHANGED spoken \/ Closing \/ Disturbs
    BY <1>5, <1>10, <1>11, <1>12, <1>14
  <2>5. QED
    BY <1>16, <1>17, <2>1, <2>2, <2>3, <2>4 DEF Goroutine
<1>19. QED
  BY <1>1, <1>2, <1>3, <1>15, <1>18 DEF Next, Disturbs

\* The newest target is a height.
LEMMA LatestIsHeight ==
    ASSUME DeskOK, NEW h \in Height PROVE Latest(h) \in Height
BY DEF DeskOK, Latest, Slot

\* A step keeps the move going somewhere.
LEMMA BusyStep ==
    ASSUME TypeOK, Busy, Next PROVE Busy'
<1> USE DEF TypeOK
<1>1. CASE UNCHANGED spoken \/ Closing
  BY <1>1 DEF Busy, spoken, Closing
<1>2. ASSUME NEW h \in Height, MoveStarts(h) \/ Repeat(h) \/ Extend(h) PROVE Busy'
  BY <1>2 DEF MoveStarts, ensurePositionTracking, Repeat, Extend, TakesTarget, InSelect, Busy,
            waitVars, loopVars
<1>3. ASSUME NEW h \in Height, Retarget(h) PROVE Busy'
  BY <1>3 DEF Retarget, TakesTarget, InSelect, Waits, Busy
<1>4. ASSUME NEW r \in Reading, Sustain(r) /\ Going PROVE Busy'
  BY <1>4 DEF Sustain, TakesReading, InSelect, Going, Busy
<1>5. ASSUME NEW r \in Reading, LegFinished(r) PROVE Busy'
  BY <1>5 DEF LegFinished, LegOver, TakesReading, InSelect, Waits, Busy, LegOK, Slot
<1>6. CASE WatchErrors
  BY <1>6 DEF WatchErrors, Busy
<1>7. CASE FirstWrite /\ Going
  BY <1>7 DEF FirstWrite, Starts, Going, Busy
<1>8. CASE OfferTick /\ Going
  BY <1>8 DEF OfferTick, InSelect, Going, Busy, legVars
<1>9. CASE WaitGap
  BY <1>9 DEF WaitGap, Busy, legVars, loopVars
<1>10. CASE WaitOver /\ Going
  BY <1>10, LatestIsHeight DEF WaitOver, AfterRetarget, AfterLeg, Starts, Ends, Going, Busy
<1>11. CASE Tick
  BY <1>11 DEF Tick, Busy, legVars, loopVars
<1>12. QED
  BY Disturbers, <1>1, <1>2, <1>3, <1>4, <1>5, <1>6, <1>7, <1>8, <1>9, <1>10, <1>11 DEF Disturbs

\* A step that writes the target of a leg sets every clock of the gap together.
LEMMA WritesInStep ==
    ASSUME NEW h \in Height, Writes(h), Going, mmx10' = h
    PROVE  Timed'
BY DEF Writes, noteTargetWritten, Going, Timed

\* A step keeps the clocks of the gap in agreement.
LEMMA TimedStep ==
    ASSUME TypeOK, Busy, Timed, Next PROVE Timed'
<1> USE DEF TypeOK
<1>1. CASE UNCHANGED spoken \/ Closing
  BY <1>1 DEF Timed, spoken, Closing
<1>2. ASSUME NEW h \in Height, MoveStarts(h) PROVE Timed'
  BY <1>2 DEF MoveStarts, ensurePositionTracking, Timed
<1>3. ASSUME NEW h \in Height, Repeat(h) \/ Extend(h) PROVE Timed'
  BY <1>3 DEF Repeat, Extend, Timed, timeVars, waitVars, loopVars
<1>4. ASSUME NEW h \in Height, Retarget(h) PROVE Timed'
  <2>1. pc' = "ready" /\ gapPassed' = FALSE /\ deadline' = 0
    BY <1>4 DEF Retarget, Waits
  <2>2. lastTarget' \in Height /\ written' = targetAge' /\ written' >= 0
    <3>1. pc = "select" /\ (Writes(h) \/ NoWrite)
      BY <1>4 DEF Retarget, TakesTarget, InSelect
    <3>2. CASE Writes(h)
      BY <3>2 DEF Writes, noteTargetWritten
    <3>3. CASE NoWrite
      BY <3>1, <3>3, TimeAssumption DEF NoWrite, Timed, TimeOK
    <3>4. QED
      BY <3>1, <3>2, <3>3
  <2>3. QED
    BY <2>1, <2>2 DEF Timed
<1>5. ASSUME NEW r \in Reading, Sustain(r) /\ Going PROVE Timed'
  <2>1. Writes(mmx10) /\ mmx10' = mmx10 /\ mmx10 \in Height
    BY <1>5 DEF Sustain, TakesReading, InSelect, Answers, Ends, Going, Busy
  <2>2. QED
    BY <1>5, <2>1, WritesInStep
<1>6. ASSUME NEW r \in Reading, LegFinished(r) PROVE Timed'
  <2>1. pc = "select" /\ pc' = "ready" /\ gapPassed' = FALSE /\ deadline' = 0
    BY <1>6 DEF LegFinished, TakesReading, InSelect, Waits
  <2>2. lastTarget' = lastTarget /\ targetAge' = targetAge /\ written' = written
    BY <1>6 DEF LegFinished, deskVars
  <2>3. written >= 0
    BY TimeAssumption DEF TimeOK
  <2>4. QED
    BY <2>1, <2>2, <2>3 DEF Timed
<1>7. CASE WatchErrors
  <2>1. mmx10 \in Height /\ mmx10' = mmx10 /\ pc' = "sleep" /\ sleep' = waitBeforeTarget(mmx10)
    BY <1>7 DEF WatchErrors, Busy
  <2>2. lastTarget' = lastTarget /\ targetAge' = targetAge
    BY <1>7 DEF WatchErrors, deskVars
  <2>3. \/ lastTarget = NoHeight
        \/ sameDestination(mmx10, lastTarget)
        \/ waitBeforeTarget(mmx10) + targetAge = RetargetGap
    BY <2>1, WaitIsGap
  <2>4. \/ lastTarget = NoHeight
        \/ sameDestination(mmx10, lastTarget)
        \/ waitBeforeTarget(mmx10) + targetAge >= RetargetGap
    BY <2>3, TimeAssumption
  <2>5. QED
    BY <2>1, <2>2, <2>4 DEF Timed, sameDestination
<1>8. CASE FirstWrite /\ Going
  <2>1. Writes(mmx10) /\ mmx10' = mmx10 /\ mmx10 \in Height
    BY <1>8 DEF FirstWrite, Starts, Ends, Going, Busy
  <2>2. QED
    BY <1>8, <2>1, WritesInStep
<1>9. CASE OfferTick /\ Going
  <2>1. mmx10' = mmx10 /\ mmx10 \in Height /\ (NoWrite \/ Writes(mmx10))
    BY <1>9 DEF OfferTick, InSelect, Ends, Going, Busy, legVars
  <2>2. CASE Writes(mmx10)
    BY <1>9, <2>1, <2>2, WritesInStep
  <2>3. CASE NoWrite
    BY <1>9, <2>1, <2>3 DEF OfferTick, InSelect, NoWrite, Going, Timed
  <2>4. QED
    BY <2>1, <2>2, <2>3
<1>10. CASE WaitGap
  BY <1>10 DEF WaitGap, InWait, Timed, deskVars, legVars, timeVars, loopVars
<1>11. CASE WaitOver /\ Going
  <2>1. PICK h \in Height : Writes(h) /\ mmx10' = h
    BY <1>11, LatestIsHeight DEF WaitOver, AfterRetarget, AfterLeg, Starts, Ends, Going, Busy
  <2>2. QED
    BY <1>11, <2>1, WritesInStep
<1>12. CASE Tick
  <2>1. CASE pc \in {"idle", "done", "watch"}
    BY <1>12, <2>1 DEF Tick, Timed, loopVars
  <2>2. CASE pc \in {"select", "ready", "sleep"}
    <3>1. /\ lastTarget' = lastTarget /\ mmx10' = mmx10 /\ pc' = pc /\ gapPassed' = gapPassed
          /\ targetAge' = Aged(targetAge, RetargetGap)
          /\ written' = Aged(written, RetargetGap)
          /\ sleep' = (IF sleep > 0 THEN sleep - 1 ELSE 0)
          /\ pc = "ready" => deadline' = Aged(deadline, StopSettle)
      BY <1>12, <2>2 DEF Tick, legVars, loopVars
    <3>2. /\ targetAge \in 0..RetargetGap /\ written \in 0..RetargetGap
          /\ sleep \in 0..RetargetGap /\ deadline \in 0..StopSettle
          /\ RetargetGap \in Nat /\ StopSettle \in Nat
      BY TimeAssumption DEF DeskOK, TimeOK, WaitOK
    <3>3. sleep + targetAge >= RetargetGap => sleep' + targetAge' >= RetargetGap
      BY <3>1, <3>2 DEF Aged
    <3>4. written = RetargetGap => written' = RetargetGap
      BY <3>1, <3>2 DEF Aged
    <3>5. pc = "ready" /\ (deadline <= written \/ written = RetargetGap)
             => deadline' <= written' \/ written' = RetargetGap
      BY <3>1, <3>2 DEF Aged
    <3>6. written = targetAge => written' = targetAge'
      BY <3>1
    <3>7. sameDestination(mmx10, lastTarget) => sameDestination(mmx10', lastTarget')
      BY <3>1
    <3>8. QED
      BY <3>1, <3>3, <3>4, <3>5, <3>6, <3>7 DEF Timed
  <2>3. QED
    BY <2>1, <2>2 DEF LoopOK
<1>13. QED
  BY Disturbers, <1>1, <1>2, <1>3, <1>4, <1>5, <1>6, <1>7, <1>8, <1>9, <1>10, <1>11, <1>12 DEF Disturbs


\* A first height is one offer.
LEMMA FirstOffer ==
    ASSUME NEW h \in Height, Starts(h), Going
    PROVE  Offered'
BY TimeAssumption DEF Starts, Writes, noteTargetWritten, Ends, Going, Offered, OffersBounded

\* A step offers only after a gap, and stops when the grace is over.
LEMMA OfferedStep ==
    ASSUME TypeOK, Busy, Offered, Next PROVE Offered'
<1> USE DEF TypeOK
<1> DEFINE Spent == (offers - 1) * RetargetGap
<1>0. RetargetGap \in Nat /\ StartGrace \in Nat /\ StartGrace > 0 /\ offers \in Nat /\ Spent \in Int
  BY TimeAssumption DEF LoopOK
<1>1. CASE UNCHANGED spoken
  BY <1>1 DEF Offered, OffersBounded, spoken
<1>2. ASSUME offers' = offers, pc' # "select" PROVE Offered'
  BY <1>2 DEF Offered, OffersBounded
<1>3. CASE Closing
  <2>1. offers' = 0 => Offered'
    BY <1>3 DEF Closing, Offered, OffersBounded
  <2>2. QED
    BY <1>2, <1>3, <2>1 DEF Closing
<1>4. ASSUME NEW h \in Height, MoveStarts(h) PROVE Offered'
  BY <1>2, <1>4 DEF MoveStarts, ensurePositionTracking
<1>5. ASSUME NEW h \in Height, Repeat(h) \/ Extend(h) PROVE Offered'
  BY <1>5 DEF Repeat, Extend, Offered, OffersBounded, timeVars, loopVars
<1>6. ASSUME NEW h \in Height, Retarget(h) PROVE Offered'
  BY <1>2, <1>6 DEF Retarget, Waits
<1>7. ASSUME NEW r \in Reading, Sustain(r) /\ Going PROVE Offered'
  <2>1. pc = "select" /\ offers' = offers /\ offered' = offered /\ written' = 0
    BY <1>7 DEF Sustain, TakesReading, InSelect, Answers, Writes, noteTargetWritten, Ends, Going
  <2>2. written >= 0 /\ written \in Int /\ offered \in Int
    BY <1>0 DEF TimeOK
  <2>3. Spent + written <= offered => Spent + written' <= offered'
    BY <1>0, <2>1, <2>2
  <2>4. QED
    BY <1>7, <2>1, <2>3 DEF Offered, OffersBounded
<1>8. ASSUME NEW r \in Reading, LegFinished(r) PROVE Offered'
  BY <1>2, <1>8 DEF LegFinished, Waits
<1>9. CASE WatchErrors
  BY <1>2, <1>9 DEF WatchErrors
<1>10. CASE FirstWrite /\ Going
  BY <1>10, FirstOffer DEF FirstWrite, Busy
<1>11. CASE OfferTick /\ Going
  <2>1. pc = "select" /\ offered' = offered
    BY <1>11 DEF OfferTick, InSelect
  <2>2. \/ offers' = offers /\ NoWrite
        \/ MayOffer /\ offers' = offers + 1 /\ Writes(mmx10)
    BY <1>11 DEF OfferTick, Ends, Going
  <2>3. CASE offers' = offers /\ NoWrite
    BY <2>1, <2>3 DEF NoWrite, Offered, OffersBounded
  <2>4. CASE MayOffer /\ offers' = offers + 1 /\ Writes(mmx10)
    <3>1. offered < StartGrace /\ written >= RetargetGap /\ written' = 0
      BY <2>4 DEF MayOffer, Writes, noteTargetWritten
    <3>2. offers > 0 /\ Spent + written <= offered
      BY <2>1, <3>1, <1>0 DEF Offered
    <3>3. Spent + RetargetGap = offers * RetargetGap
      BY <1>0, <3>2, OneMoreGap
    <3>4. Spent + RetargetGap <= offered
      BY <1>0, <3>1, <3>2 DEF TimeOK
    <3>5. offers' - 1 = offers /\ offers' > 0
      BY <1>0, <2>4
    <3>6. (offers' - 1) * RetargetGap <= offered /\ (offers' - 1) * RetargetGap \in Int
      BY <1>0, <3>3, <3>4, <3>5
    <3>7. (offers' - 1) * RetargetGap < StartGrace
      BY <1>0, <3>1, <3>6 DEF TimeOK
    <3>8. (offers' - 1) * RetargetGap + written' <= offered'
      BY <2>1, <3>1, <3>6
    <3>9. QED
      BY <3>5, <3>7, <3>8 DEF Offered, OffersBounded
  <2>5. QED
    BY <2>2, <2>3, <2>4
<1>12. CASE WaitGap
  BY <1>12 DEF WaitGap, Offered, OffersBounded, timeVars, loopVars
<1>13. CASE WaitOver /\ Going
  <2>1. PICK h \in Height : Starts(h)
    BY <1>13, LatestIsHeight DEF WaitOver, AfterRetarget, AfterLeg, Ends, Going, Busy
  <2>2. QED
    BY <1>13, <2>1, FirstOffer
<1>14. CASE Tick
  <2>1. pc' = pc /\ offers' = offers
    BY <1>14 DEF Tick, loopVars
  <2>2. CASE pc # "select"
    BY <1>2, <2>1, <2>2
  <2>3. CASE pc = "select"
    <3>1. written' = Aged(written, RetargetGap) /\ offered' = Aged(offered, StartGrace)
      BY <1>14, <2>3 DEF Tick
    <3>2. Spent + written <= offered => Spent + written' <= offered' \/ offered' = StartGrace
      BY <1>0, <3>1 DEF Aged, TimeOK
    <3>3. offered = StartGrace => offered' = StartGrace
      BY <1>0, <3>1 DEF Aged
    <3>4. QED
      BY <2>1, <2>3, <3>2, <3>3 DEF Offered, OffersBounded
  <2>4. QED
    BY <2>2, <2>3
<1>15. QED
  BY Disturbers, <1>1, <1>3, <1>4, <1>5, <1>6, <1>7, <1>8, <1>9, <1>10, <1>11, <1>12,
     <1>13, <1>14 DEF Disturbs

\* A step queues only what the desk was on its way past.
LEMMA QueuedStep ==
    ASSUME TypeOK, Busy, Queued, Next PROVE Queued'
<1> USE DEF TypeOK
<1>1. CASE UNCHANGED spoken \/ Closing
  BY <1>1 DEF Queued, QueuedFurther, spoken, Closing
<1>2. ASSUME NEW h \in Height, MoveStarts(h) PROVE Queued'
  BY <1>2 DEF MoveStarts, ensurePositionTracking, Queued, QueuedFurther
<1>3. ASSUME NEW h \in Height, Repeat(h) PROVE Queued'
  BY <1>3 DEF Repeat, Queued, QueuedFurther
<1>4. ASSUME NEW h \in Height, Extend(h) PROVE Queued'
  <2>1. pc = "select" /\ pc' = "select" /\ mmx10' = mmx10 /\ next' = h /\ movedYet' = movedYet
    BY <1>4 DEF Extend, TakesTarget, InSelect, loopVars
  <2>2. mmx10 \in Height /\ mmx10 # NoHeight
    BY <2>1, HeightAssumption DEF Busy
  <2>3. movedYet /\ ~sameDestination(h, mmx10)
    BY <1>4, <2>2, ExtendsIsFurther DEF Extend
  <2>4. QED
    BY <2>1, <2>2, <2>3 DEF Queued, QueuedFurther, sameDestination
<1>5. ASSUME NEW h \in Height, Retarget(h) PROVE Queued'
  BY <1>5 DEF Retarget, Queued, QueuedFurther
<1>6. ASSUME NEW r \in Reading, Sustain(r) /\ Going PROVE Queued'
  BY <1>6 DEF Sustain, TakesReading, InSelect, Going, Queued, QueuedFurther, sameDestination
<1>7. ASSUME NEW r \in Reading, LegFinished(r) PROVE Queued'
  BY <1>7 DEF LegFinished, Queued, QueuedFurther
<1>8. CASE WatchErrors
  BY <1>8 DEF WatchErrors, Queued, QueuedFurther
<1>9. CASE FirstWrite /\ Going
  BY <1>9 DEF FirstWrite, Going, Queued, QueuedFurther
<1>10. CASE OfferTick /\ Going
  BY <1>10 DEF OfferTick, InSelect, Going, Queued, QueuedFurther, sameDestination, legVars
<1>11. CASE WaitGap
  BY <1>11 DEF WaitGap, InWait, Queued, QueuedFurther, legVars, loopVars
<1>12. CASE WaitOver /\ Going
  BY <1>12 DEF WaitOver, AfterRetarget, AfterLeg, Going, Queued, QueuedFurther
<1>13. CASE Tick
  BY <1>13 DEF Tick, Queued, QueuedFurther, sameDestination, legVars, loopVars
<1>14. QED
  BY Disturbers, <1>1, <1>2, <1>3, <1>4, <1>5, <1>6, <1>7, <1>8, <1>9, <1>10, <1>11,
     <1>12, <1>13 DEF Disturbs


-----------------------------------------------------------------------------
\* Before the first move nothing is written, queued or owed.
LEMMA InitInv == Init => IInv
<1> SUFFICES ASSUME Init PROVE IInv
  OBVIOUS
<1>1. DeskOK /\ LegOK
  <2>1. targetAge \in 0..RetargetGap
    BY TimeAssumption DEF Init
  <2>2. QED
    BY <2>1 DEF Init, ControlErrors, DeskOK, LegOK, Slot
<1>2. TimeOK /\ WaitOK
  BY ZeroIsTime DEF Init, TimeOK, WaitOK, Slot
<1>3. LoopOK
  BY MiscAssumption DEF Init, LoopOK, Outcome, Slot
<1>4. Busy /\ Timed /\ Offered /\ Queued
  BY DEF Init, Busy, Timed, Offered, OffersBounded, Queued, QueuedFurther
<1>5. QED
  BY <1>1, <1>2, <1>3, <1>4 DEF IInv, TypeOK

\* Every step keeps all of it.
LEMMA StepInv == IInv /\ [Next]_vars => IInv'
<1> SUFFICES ASSUME IInv, [Next]_vars PROVE IInv'
  OBVIOUS
<1>1. CASE Next
  BY <1>1, TypeStep, BusyStep, TimedStep, OfferedStep, QueuedStep DEF IInv
<1>2. CASE UNCHANGED vars
  <2>1. TypeOK'
    BY <1>2, SameTypes DEF IInv, TypeOK, vars
  <2>2. UNCHANGED spoken
    BY <1>2 DEF vars, deskVars, legVars, timeVars, waitVars, loopVars, spoken
  <2>3. Busy' /\ Timed'
    BY <2>2 DEF IInv, spoken, Busy, Timed
  <2>4. Offered' /\ Queued'
    BY <2>2 DEF IInv, spoken, Offered, OffersBounded, Queued, QueuedFurther
  <2>5. QED
    BY <2>1, <2>3, <2>4 DEF IInv
<1>3. QED
  BY <1>1, <1>2

\* The invariant holds whatever the environment does.
THEOREM Inductive == Spec => []IInv
<1>1. QED
  BY InitInv, StepInv, PTL DEF Spec

\* The variables keep their types: no clock leaves its range, errs its
\* capacity or the written word its sixteen bits (desk/move.go:253-311, 411-735).
THEOREM TypeCorrect == Spec => []TypeOK
<1>1. IInv => TypeOK
  BY DEF IInv
<1>2. QED
  BY Inductive, <1>1, PTL

\* A desk not seen moving is offered its target only so often
\* (desk/move.go:113-124, 621-648), however it reports and ticks come.
THEOREM OffersStayBounded == Spec => []OffersBounded
<1>1. IInv => OffersBounded
  BY DEF IInv, Offered
<1>2. QED
  BY Inductive, <1>1, PTL

\* A queued target always lies further along (desk/move.go:205-219, 476-497, 558-565).
THEOREM QueuedStaysFurther == Spec => []QueuedFurther
<1>1. IInv => QueuedFurther
  BY DEF IInv, Queued
<1>2. QED
  BY Inductive, <1>1, PTL

\* Only some steps write.
LEMMA Writers ==
    ASSUME Next, wire' # wire, wire' # NoHeight
    PROVE  \/ FirstWrite \/ OfferTick \/ WaitOver
           \/ \E r \in Reading : Sustain(r)
           \/ \E h \in Height : Retarget(h)
<1>1. ASSUME NEW h \in Height, Move(h) PROVE FALSE
  BY <1>1 DEF Move, MoveWhileMoving, MoveReturns, ensurePositionTracking, MoveStarts, loopVars
<1>2. ASSUME NEW r \in Reading, TakeRecovering(r) \/ LegFinished(r) \/ Rest(r) PROVE FALSE
  BY <1>2 DEF TakeRecovering, LegFinished, Rest
<1>3. ASSUME NEW h \in Height, Repeat(h) \/ Extend(h) PROVE FALSE
  BY <1>3 DEF Repeat, Extend, loopVars
<1>4. CASE TakeFrame \/ Stalled \/ WatchErrors \/ WaitFrame
  BY <1>4 DEF TakeFrame, Stalled, WatchErrors, WaitFrame
<1>5. CASE WaitReading \/ WaitGap \/ Return
  BY <1>5 DEF WaitReading, WaitGap, Return, loopVars
<1>6. CASE Transmit \/ Tick
  BY <1>6 DEF Transmit, Tick, loopVars
<1>7. ASSUME NEW x, DeliverReading(x) \/ DeliverFrame(x) PROVE FALSE
  BY <1>7 DEF DeliverReading, notePosition, DeliverFrame
<1>8. QED
  BY <1>1, <1>2, <1>3, <1>4, <1>5, <1>6, <1>7 DEF Next, Goroutine, TakeReading, TakeTarget

\* Each of them leaves the gap, or is one that need not.
LEMMA QuietStep ==
    ASSUME IInv, Next PROVE QuietBefore
<1> SUFFICES ASSUME wire = NoHeight, wire' # NoHeight, lastTarget # NoHeight
             PROVE  \/ targetAge = RetargetGap
                    \/ movedYet' /\ lastTarget' = lastTarget
                    \/ pc' = "ready"
                    \/ pc = "sleep" /\ sameDestination(lastTarget', lastTarget)
  BY DEF QuietBefore
<1> USE DEF IInv, TypeOK
<1>0. targetAge \in 0..RetargetGap /\ written \in 0..RetargetGap /\ RetargetGap \in Nat
      /\ StopSettle \in Nat /\ RetargetGap < StopSettle
  BY TimeAssumption DEF DeskOK, TimeOK
<1>1. CASE FirstWrite
  <2>1. pc = "sleep" /\ sleep = 0 /\ lastTarget' = mmx10
    BY <1>1 DEF FirstWrite, Starts, Writes, noteTargetWritten, NoWrite
  <2>2. sameDestination(mmx10, lastTarget) \/ sleep + targetAge >= RetargetGap
    BY <2>1 DEF Timed
  <2>3. QED
    BY <1>0, <2>1, <2>2
<1>2. ASSUME NEW r \in Reading, Sustain(r) PROVE movedYet' /\ lastTarget' = lastTarget
  BY <1>2 DEF Sustain, TakesReading, InSelect, Answers, Writes, noteTargetWritten, NoWrite, Timed
<1>3. ASSUME NEW h \in Height, Retarget(h) PROVE pc' = "ready"
  BY <1>3 DEF Retarget, Waits
<1>4. CASE OfferTick
  <2>1. pc = "select" /\ written >= RetargetGap
    BY <1>4 DEF OfferTick, InSelect, MayOffer, NoWrite
  <2>2. QED
    BY <1>0, <2>1 DEF Timed
<1>5. CASE WaitOver
  <2>1. pc = "ready" /\ (gapPassed \/ deadline = StopSettle)
    BY <1>5 DEF WaitOver, AfterRetarget, AfterLeg, Ready, GivesUp
  <2>2. written = RetargetGap
    BY <1>0, <2>1 DEF Timed
  <2>3. QED
    BY <2>1, <2>2 DEF Timed
<1>6. QED
  BY Writers, <1>1, <1>2, <1>3, <1>4, <1>5

\* A height waits for a full gap since the last one, across retargets, legs,
\* offers and moves (desk/move.go:141-145, 436, 625, 700-733, 738-745).
THEOREM GapIsKept == Spec => QuietGap
<1>1. IInv /\ [Next]_vars => [QuietBefore]_vars
  BY QuietStep
<1>2. QED
  BY Inductive, <1>1, PTL DEF Spec, QuietGap

=============================================================================
