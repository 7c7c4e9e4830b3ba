--------------------------- MODULE MoveDeskProofs ---------------------------
(***************************************************************************)
(* The closed system only ever takes steps of MoveLoop, so what is proved  *)
(* of the loop in an open environment holds of it in front of the desk.    *)
(* Then what only the two together can promise: that a stopped desk stays  *)
(* stopped, that a new height is heard, and, as long as little enough goes *)
(* wrong, that nothing halts the desk or lets it run down on its way, that *)
(* it is where a finished move says, and that only resistance is a fault;  *)
(* and, whatever goes wrong, that the desk is where it is known to be and  *)
(* that a move it collides in is over before it has backed away.           *)
(***************************************************************************)
EXTENDS MoveDesk, MoveLoopProofs

\* What is on its way to the loop, or will be once the desk has moved, is
\* something MoveLoop knows how to take.
AirOK ==
    /\ air \in Seq(Reading) /\ alarms \in Seq(Frame)
    /\ pos \in Height /\ heading \in Height
    /\ wire \in Slot(Height, NoHeight)

DeskInv == IInv /\ AirOK

-----------------------------------------------------------------------------
\* Sixteen bits fit in sixteen bits.
LEMMA WordFits == \A x \in Word : x % 65536 = x
<1>1. \A x \in Word : x \in Int /\ 0 <= x /\ x < 65536
  BY DEF Word
<1>2. \A x \in Int : 0 <= x /\ x < 65536 => x % 65536 = x
  OBVIOUS
<1>3. QED
  BY <1>1, <1>2

\* A height that fits the wire goes out as itself.
LEMMA TargetIsItself ==
    ASSUME NEW h \in Height
    PROVE  target(h) = h
<1>1. h \in Word
  BY TravelAssumption
<1>2. h % 65536 = h
  BY <1>1, WordFits
<1>3. QED
  BY <1>2 DEF target

\* A report of a height is a reading.
LEMMA ReportIsReading ==
    ASSUME NEW at \in Height, NEW speed \in {-1, 0, 1}
    PROVE  Report(at, speed) \in Reading
BY DEF Report, Reading

\* A direction is a speed.
LEMMA SignIsSpeed ==
    ASSUME NEW v \in Int
    PROVE  sign(v) \in {-1, 0, 1}
BY DEF sign

\* The desk travels between heights.
LEMMA TowardIsHeight ==
    ASSUME pos \in Height, heading \in Height
    PROVE  Toward \in Height
<1>1. pos \in Int /\ heading \in Int /\ Step \in Nat
  BY HeightAssumption, DeskAssumption
<1>2. CASE abs(heading - pos) <= Step
  BY <1>2 DEF Toward
<1>3. CASE ~(abs(heading - pos) <= Step) /\ heading > pos
  <2>1. Toward = pos + Step /\ pos + Step \in pos..heading
    BY <1>1, <1>3 DEF Toward, abs, sign
  <2>2. QED
    BY <2>1, TravelAssumption
<1>4. CASE ~(abs(heading - pos) <= Step) /\ ~(heading > pos)
  <2>1. Toward = pos - Step /\ pos - Step \in heading..pos
    BY <1>1, <1>4 DEF Toward, abs, sign
  <2>2. QED
    BY <2>1, TravelAssumption
<1>5. QED
  BY <1>2, <1>3, <1>4

\* What a step of the loop leaves on the wire.
LEMMA WireStep ==
    ASSUME IInv, Next, wire \in Slot(Height, NoHeight)
    PROVE  wire' \in Slot(Height, NoHeight)
<1> SUFFICES ASSUME wire' # wire, wire' # NoHeight
             PROVE  \E h \in Height : Writes(h)
  BY TargetIsItself DEF Writes, noteTargetWritten, Slot
<1> USE DEF IInv, TypeOK
<1>1. CASE FirstWrite
  BY <1>1 DEF FirstWrite, Starts, NoWrite, Busy
<1>2. CASE OfferTick
  BY <1>2 DEF OfferTick, InSelect, NoWrite, Busy
<1>3. CASE WaitOver
  <2>1. Latest(to) \in Height /\ mmx10 \in Height
    BY <1>3, LatestIsHeight DEF WaitOver, AfterRetarget, AfterLeg, Busy
  <2>2. QED
    BY <1>3, <2>1 DEF WaitOver, AfterRetarget, AfterLeg, Starts, NoWrite
<1>4. ASSUME NEW r \in Reading, Sustain(r) PROVE \E h \in Height : Writes(h)
  BY <1>4 DEF Sustain, TakesReading, InSelect, Answers, NoWrite, Busy
<1>5. ASSUME NEW h \in Height, Retarget(h) PROVE \E x \in Height : Writes(x)
  BY <1>5 DEF Retarget, NoWrite
<1>6. QED
  BY Writers, <1>1, <1>2, <1>3, <1>4, <1>5

\* Every step of the closed system is one of the loop, or none of its business.
LEMMA DeskStepIsStep ==
    ASSUME AirOK, [DeskNext]_deskAll
    PROVE  [Next]_vars
<1>1. ASSUME NEW h \in Target, Call(h) PROVE Next
  BY <1>1, DeskAssumption DEF Call, Next
<1>2. CASE Hear
  <2>1. PICK i \in 1..Len(air) : DeliverReading(air[i]) \/ UNCHANGED vars
    BY <1>2 DEF Hear
  <2>2. air[i] \in Reading
    BY DEF AirOK
  <2>3. QED
    BY <2>1, <2>2 DEF Next
<1>3. CASE HearAlarm
  <2>1. Head(alarms) \in Frame
    BY <1>3 DEF HearAlarm, AirOK
  <2>2. QED
    BY <1>3, <2>1 DEF HearAlarm, Next
<1>4. CASE Run
  BY <1>4 DEF Run, Next
<1>5. CASE Receive \/ Lose
  BY <1>5 DEF Receive, Lose, Next
<1>6. CASE Drop
  BY <1>6 DEF Drop
<1>7. CASE DeskTick
  BY <1>7 DEF DeskTick, Next
<1>8. CASE UNCHANGED deskAll
  BY <1>8 DEF deskAll
<1>9. QED
  BY <1>1, <1>2, <1>3, <1>4, <1>5, <1>6, <1>7, <1>8 DEF DeskNext

\* What a tick of the desk puts in the air.
LEMMA TickReports ==
    ASSUME AirOK, DeskTick
    PROVE  /\ air' \in Seq(Reading) /\ alarms' \in Seq(Frame)
           /\ pos' \in Height /\ heading' = heading
<1> USE DEF AirOK
<1>0. pos \in Int /\ heading \in Int
  BY HeightAssumption
<1>1. ASSUME NEW at \in Height, AtRest(at)
      PROVE  air' \in Seq(Reading) /\ pos' \in Height
  <2>1. Report(at, 0) \in Reading
    BY ReportIsReading
  <2>2. QED
    BY <1>1, <2>1 DEF AtRest
<1>2. CASE RunDown \/ StopShort
  BY <1>1, <1>2 DEF RunDown, StopShort
<1>3. CASE Travel
  <2>1. CASE Toward = heading
    BY <1>1, <1>3, <2>1 DEF Travel
  <2>2. CASE Toward # heading
    <3>1. Toward \in Height
      BY TowardIsHeight
    <3>2. sign(heading - pos) \in {-1, 0, 1}
      BY <1>0, SignIsSpeed
    <3>3. Report(Toward, sign(heading - pos)) \in Reading
      BY <3>1, <3>2, ReportIsReading
    <3>4. QED
      BY <1>3, <2>2, <3>1, <3>3 DEF Travel
  <2>3. QED
    BY <2>1, <2>2
<1>4. CASE Collide
  <2>1. [extension |-> pos, speed |-> sign(pos - heading), recovering |-> TRUE] \in Reading
    BY <1>0, SignIsSpeed DEF Reading
  <2>2. QED
    BY <1>4, <2>1 DEF Collide, Frame
<1>5. CASE BackAway
  BY <1>1, <1>5 DEF BackAway
<1>6. CASE UNCHANGED <<pos, heading, motion, air, alarms, blocks, resisted>>
  BY <1>6
<1>7. QED
  BY <1>2, <1>3, <1>4, <1>5, <1>6 DEF DeskTick

\* Every step keeps what is on its way fit to be taken.
LEMMA AirStep ==
    ASSUME DeskInv, DeskNext
    PROVE  AirOK'
<1> USE DEF DeskInv
<1>0. wire' \in Slot(Height, NoHeight)
  <2>1. CASE Next
    BY <2>1, WireStep DEF AirOK
  <2>2. CASE UNCHANGED vars
    BY <2>2 DEF AirOK, vars, loopVars
  <2>3. QED
    BY <2>1, <2>2, DeskStepIsStep
<1> USE DEF AirOK
<1>1. ASSUME NEW h \in Target, Call(h) PROVE AirOK'
  BY <1>0, <1>1 DEF Call, ctlVars, linkVars
<1>2. CASE Hear
  <2>1. PICK i \in 1..Len(air) : air' = Without(air, i)
    BY <1>2 DEF Hear
  <2>2. air' \in Seq(Reading)
    BY <2>1 DEF Without
  <2>3. QED
    BY <1>0, <1>2, <2>2 DEF Hear, ctlVars
<1>3. CASE HearAlarm
  BY <1>0, <1>3 DEF HearAlarm, ctlVars
<1>4. CASE Run
  BY <1>0, <1>4 DEF Run, ctlVars, linkVars
<1>5. CASE Receive
  <2>1. wire \in Height
    BY <1>5 DEF Receive, Transmit, Slot
  <2>2. Report(pos, 0) \in Reading /\ "interrupted" \in Frame
    BY ReportIsReading DEF Frame
  <2>3. CASE Sustained(wire) \/ NotHeard(wire)
    BY <1>0, <2>3 DEF Sustained, NotHeard
  <2>4. CASE Halted(wire)
    BY <1>0, <2>2, <2>4 DEF Halted, AtRest
  <2>5. CASE Begun(wire)
    BY <1>0, <2>1, <2>5 DEF Begun
  <2>6. QED
    BY <1>5, <2>3, <2>4, <2>5 DEF Receive
<1>6. CASE Lose
  BY <1>0, <1>6 DEF Lose, ctlVars, linkVars
<1>7. CASE Drop
  BY <1>0, <1>7 DEF Drop, ctlVars
<1>8. CASE DeskTick
  BY <1>0, <1>8, TickReports
<1>9. QED
  BY <1>1, <1>2, <1>3, <1>4, <1>5, <1>6, <1>7, <1>8 DEF DeskNext

-----------------------------------------------------------------------------
\* The loop's invariant and the air's hold of the closed system.
LEMMA DeskInductive == DeskSpec => []DeskInv
<1>1. DeskInit => DeskInv
  BY InitInv DEF DeskInit, Init, DeskInv, AirOK, Slot
<1>2. DeskInv /\ [DeskNext]_deskAll => DeskInv'
  <2> SUFFICES ASSUME DeskInv, [DeskNext]_deskAll PROVE DeskInv'
    OBVIOUS
  <2>1. IInv'
    BY DeskStepIsStep, StepInv DEF DeskInv
  <2>2. AirOK'
    <3>1. CASE DeskNext
      BY <3>1, AirStep
    <3>2. CASE UNCHANGED deskAll
      BY <3>2 DEF DeskInv, AirOK, deskAll, vars, loopVars, ctlVars, linkVars
    <3>3. QED
      BY <3>1, <3>2
  <2>3. QED
    BY <2>1, <2>2 DEF DeskInv
<1>3. QED
  BY <1>1, <1>2, PTL DEF DeskSpec

\* The closed system implements MoveLoop: whatever desk/move.go does against
\* the controller of desk/move_sim_test.go it may do in an open environment.
THEOREM DeskImplementsLoop == DeskSpec => Spec
<1>1. DeskInit => Init
  BY DEF DeskInit
<1>2. DeskInv /\ [DeskNext]_deskAll => [Next]_vars
  BY DeskStepIsStep DEF DeskInv
<1>3. QED
  BY <1>1, <1>2, DeskInductive, PTL DEF DeskSpec, Spec

\* The gap is kept in front of the desk, for any number of calls, losses,
\* stops and failures (desk/move.go:141-145).
THEOREM DeskGapIsKept == DeskSpec => QuietGap
<1>1. QED
  BY DeskImplementsLoop, GapIsKept, PTL

\* So are the bound on offers and what may be queued
\* (desk/move.go:113-124, 205-219).
THEOREM DeskInvariants == DeskSpec => [](OffersBounded /\ QueuedFurther)
<1>1. QED
  BY DeskImplementsLoop, OffersStayBounded, QueuedStaysFurther, PTL

-----------------------------------------------------------------------------
(* Types *)

\* No more than the tick's report and a halt's are on their way; a halt takes
\* a desk that travels, and it travels again only after a tick.
AirBound ==
    /\ Len(air) <= Lag + 2
    /\ motion = "travel" \/ silence >= Quiet => Len(air) <= Lag + 1

\* What the rest of the types says.
DeskTypes ==
    /\ motion \in {"rest", "travel", "recover"} /\ silence \in 0..Longest
    /\ halts \in Nat /\ linked \in BOOLEAN
    /\ calls \in Nat /\ losses \in 0..Losses /\ blocks \in 0..Blocks
    /\ failures \in 0..Failures /\ drops \in Nat
    /\ heard \in Height \cup {NoHeight} /\ asked \in Height \cup {NoHeight}
    /\ resisted \in BOOLEAN

Base == DeskInv /\ AirBound /\ DeskTypes

\* The durations of the controller are durations.
LEMMA Durations ==
    /\ Step \in Nat /\ Step > 0 /\ Quiet \in Nat /\ Quiet > 0 /\ Coast \in Nat /\ Coast > 0
    /\ Lag \in Nat /\ Calls \in Nat /\ Losses \in Nat /\ Blocks \in Nat /\ Failures \in Nat
    /\ Drops \in Nat
    /\ Longest \in Nat /\ Quiet <= Longest /\ Coast <= Longest
BY DeskAssumption DEF Longest

\* A step other than a tick and what reaches the desk leaves it alone.
LEMMA Untouched ==
    ASSUME AirBound, UNCHANGED <<motion, silence>>, Len(air') <= Len(air), Len(air) \in Nat,
           Len(air') \in Nat
    PROVE  AirBound'
BY Durations DEF AirBound

\* A report taken off the air.
LEMMA OneLess ==
    ASSUME NEW s \in Seq(Reading), NEW i \in 1..Len(s)
    PROVE  Without(s, i) \in Seq(Reading) /\ Len(Without(s, i)) = Len(s) - 1
<1> DEFINE a == SubSeq(s, 1, i - 1)
           b == SubSeq(s, i + 1, Len(s))
<1>1. Len(s) \in Nat /\ i \in Nat /\ 1 <= i /\ i <= Len(s)
  OBVIOUS
<1>2. a \in Seq(Reading) /\ Len(a) = i - 1
  BY <1>1
<1>3. b \in Seq(Reading) /\ Len(b) = Len(s) - i
  BY <1>1
<1> HIDE DEF a, b
<1>4. a \o b \in Seq(Reading) /\ Len(a \o b) = Len(a) + Len(b)
  BY <1>2, <1>3
<1>5. Without(s, i) = a \o b
  BY DEF Without, a, b
<1>6. Len(s) - 1 = (i - 1) + (Len(s) - i)
  BY <1>1
<1>7. QED BY <1>2, <1>3, <1>4, <1>5, <1>6

\* What a tick does to the air and to the desk.
LEMMA TickIs ==
    ASSUME Base, DeskTick
    PROVE  /\ Len(air) <= Lag /\ Len(air') <= Len(air) + 1
           /\ motion' \in {"rest", "travel", "recover"} /\ blocks' \in 0..Blocks
           /\ resisted' \in BOOLEAN
<1> USE DEF Base, DeskInv, AirOK, DeskTypes
<1>1. Len(air) <= Lag
  BY DEF DeskTick
<1>2. ASSUME NEW at, AtRest(at) PROVE Len(air') <= Len(air) + 1 /\ motion' = "rest"
  BY <1>2 DEF AtRest
<1>3. CASE UNCHANGED <<pos, heading, motion, air, alarms, blocks, resisted>>
  BY <1>1, <1>3
<1>4. CASE RunDown
  BY <1>1, <1>2, <1>4 DEF RunDown
<1>5. CASE Travel
  <2>1. CASE Toward = heading
    BY <1>1, <1>2, <1>5, <2>1 DEF Travel
  <2>2. CASE Toward # heading
    BY <1>1, <1>5, <2>2 DEF Travel
  <2>3. QED BY <2>1, <2>2
<1>6. CASE StopShort
  BY <1>1, <1>2, <1>6, Durations DEF StopShort, Resists
<1>7. CASE Collide
  BY <1>1, <1>7, Durations DEF Collide, Resists
<1>8. CASE BackAway
  BY <1>1, <1>2, <1>8 DEF BackAway
<1>9. QED
  BY <1>3, <1>4, <1>5, <1>6, <1>7, <1>8 DEF DeskTick

\* A step keeps the bound on the air.
LEMMA AirBoundStep ==
    ASSUME Base, DeskNext, AirOK' PROVE AirBound'
<1> USE DEF Base, DeskInv, AirOK
<1>0. Len(air) \in Nat /\ Len(air') \in Nat
  OBVIOUS
<1>1. ASSUME NEW h \in Target, Call(h) PROVE AirBound'
  BY <1>0, <1>1, Untouched DEF Call, ctlVars, linkVars
<1>2. CASE Hear
  <2>1. PICK i \in 1..Len(air) : air' = Without(air, i)
    BY <1>2 DEF Hear
  <2>2. QED
    BY <1>0, <1>2, <2>1, OneLess, Untouched DEF Hear, ctlVars
<1>3. CASE HearAlarm \/ Run \/ Lose \/ Drop
  BY <1>0, <1>3, Untouched DEF HearAlarm, Run, Lose, Drop, ctlVars, linkVars
<1>4. CASE Receive
  <2>1. silence' = 0 /\ ~(0 >= Quiet)
    BY <1>4, Durations DEF Receive
  <2>2. CASE Sustained(wire) \/ NotHeard(wire)
    BY <1>0, <2>1, <2>2, Durations DEF Sustained, NotHeard, AirBound
  <2>3. CASE Halted(wire)
    BY <1>0, <2>1, <2>3, Durations DEF Halted, AtRest, AirBound
  <2>4. CASE Begun(wire)
    BY <1>0, <2>1, <2>4, Durations DEF Begun, Heard, AirBound
  <2>5. QED
    BY <1>4, <2>2, <2>3, <2>4 DEF Receive
<1>5. CASE DeskTick
  BY <1>0, <1>5, TickIs, Durations DEF AirBound
<1>6. QED
  BY <1>1, <1>2, <1>3, <1>4, <1>5 DEF DeskNext

\* And the types.
LEMMA DeskTypesStep ==
    ASSUME Base, DeskNext PROVE DeskTypes'
<1> USE DEF DeskTypes
<1>1. ASSUME NEW h \in Target, Call(h) PROVE DeskTypes'
  <2>1. calls' \in Nat
    BY <1>1 DEF Base, Call
  <2>2. resisted' \in BOOLEAN
    BY <1>1 DEF Call
  <2>3. asked' \in Height
    BY <1>1, DeskAssumption DEF Call
  <2>4. QED
    BY <1>1, <2>1, <2>2, <2>3 DEF Base, Call, ctlVars, linkVars
<1>2. CASE Hear \/ HearAlarm
  BY <1>2, Durations DEF Base, Hear, HearAlarm, ctlVars, bounds, history
<1>3. CASE Run
  BY <1>3, Durations DEF Base, Run, ctlVars, linkVars, history
<1>4. CASE Receive
  <2>1. wire \in Height /\ Quiet > 0
    BY <1>4, Durations DEF Base, DeskInv, AirOK, Receive, Transmit, Slot
  <2>2. motion' \in {"rest", "travel", "recover"} /\ halts' \in Nat
    BY <1>4 DEF Base, Receive, Sustained, Halted, AtRest, Begun, NotHeard
  <2>3. QED
    BY <1>4, <2>1, <2>2, Durations DEF Base, Receive, bounds
<1>5. CASE Lose
  BY <1>5, Durations DEF Base, Lose, ctlVars, linkVars, history
<1>6. CASE Drop
  <2>1. drops' \in Nat
    BY <1>6 DEF Base, Drop
  <2>2. linked' \in BOOLEAN
    BY <1>6 DEF Drop
  <2>3. QED
    BY <1>6, <2>1, <2>2 DEF Base, Drop, ctlVars, history
<1>7. CASE DeskTick
  <2>1. silence' \in 0..Longest
    BY <1>7, Durations DEF Base, DeskTick, Aged
  <2>2. QED
    BY <1>7, <2>1, TickIs DEF Base, DeskTick
<1>8. QED
  BY <1>1, <1>2, <1>3, <1>4, <1>5, <1>6, <1>7 DEF DeskNext

\* The base of what follows: the loop's invariant, the air's and the types.
LEMMA BaseHolds == DeskSpec => []Base
<1>1. DeskInit /\ DeskInv => AirBound /\ DeskTypes
  <2> SUFFICES ASSUME DeskInit PROVE AirBound /\ DeskTypes
    OBVIOUS
  <2>1. AirBound
    BY Durations DEF DeskInit, AirBound
  <2>2. DeskTypes
    <3>1. linked \in BOOLEAN /\ resisted \in BOOLEAN
      BY DEF DeskInit
    <3>2. QED
      BY <3>1, Durations DEF DeskInit, DeskTypes
  <2>3. QED BY <2>1, <2>2
<1>2. Base /\ [DeskNext]_deskAll /\ DeskInv' => (AirBound /\ DeskTypes)'
  <2> SUFFICES ASSUME Base, [DeskNext]_deskAll, DeskInv' PROVE (AirBound /\ DeskTypes)'
    OBVIOUS
  <2>1. CASE DeskNext
    BY <2>1, AirBoundStep, DeskTypesStep DEF DeskInv
  <2>2. CASE UNCHANGED deskAll
    BY <2>2 DEF Base, AirBound, DeskTypes, deskAll, ctlVars, linkVars, bounds, history
  <2>3. QED BY <2>1, <2>2
<1>3. QED
  BY <1>1, <1>2, DeskInductive, PTL DEF DeskSpec, Base

\* Whatever is asked, lost, refused or in the way, each variable of the loop,
\* the desk and the link keeps its type, and no more than the tick's report
\* and one of a halt are ever on their way beyond the link's own lag
\* (desk/move.go, desk/move_sim_test.go:48-110).
THEOREM DeskTypeCorrect == DeskSpec => []DeskTypeOK
<1>1. Base => DeskTypeOK
  BY DEF Base, DeskInv, IInv, AirOK, AirBound, DeskTypes, DeskTypeOK, bounds
<1>2. QED
  BY <1>1, BaseHolds, PTL

-----------------------------------------------------------------------------
(* A desk stopped by resistance is left alone *)

\* A report no answer is due to: of a desk backing away, or at rest away from
\* where the move is going.
Harmless(r, h) == r.recovering \/ (r.speed = 0 /\ ~sameDestination(r.extension, h))

\* Once it has been stopped nothing is on the wire, nothing newer is asked for,
\* and what the loop is still to hear of it ends the move.
LeftInv ==
    resisted =>
      /\ motion # "travel" /\ wire = NoHeight
      /\ pc \in {"done", "idle", "select"}
      /\ pc = "select" =>
           /\ movedYet /\ chMove = NoHeight
           /\ readings # NoReading => Harmless(readings, mmx10)
           /\ linked => \A i \in 1..Len(air) : Harmless(air[i], mmx10)
           /\ linked /\ motion = "recover" => air # <<>> \/ readings # NoReading

\* What stays on the air was there before.
LEMMA StaysOnAir ==
    ASSUME NEW s \in Seq(Reading), NEW i \in 1..Len(s), NEW k \in 1..Len(Without(s, i))
    PROVE  \E j \in 1..Len(s) : Without(s, i)[k] = s[j]
<1> DEFINE a == SubSeq(s, 1, i - 1)
           b == SubSeq(s, i + 1, Len(s))
<1>1. Len(s) \in Nat /\ i \in Nat /\ 1 <= i /\ i <= Len(s)
  OBVIOUS
<1>2. a \in Seq(Reading) /\ Len(a) = i - 1 /\ \A n \in 1..i - 1 : a[n] = s[n]
  BY <1>1
<1>3. b \in Seq(Reading) /\ Len(b) = Len(s) - i /\ \A n \in 1..Len(s) - i : b[n] = s[n + i]
  BY <1>1
<1> HIDE DEF a, b
<1>4. Without(s, i) = a \o b /\ k \in Nat /\ 1 <= k /\ k <= Len(s) - 1
  <2>1. Len(Without(s, i)) = Len(s) - 1
    BY OneLess
  <2>2. Without(s, i) = a \o b
    BY DEF Without, a, b
  <2>3. QED BY <1>1, <2>1, <2>2
<1>5. CASE k <= i - 1
  <2>1. (a \o b)[k] = a[k]
    BY <1>1, <1>2, <1>3, <1>4, <1>5
  <2>2. k \in 1..i - 1 /\ k \in 1..Len(s)
    BY <1>1, <1>4, <1>5
  <2>3. QED BY <1>2, <1>4, <2>1, <2>2
<1>6. CASE ~(k <= i - 1)
  <2>1. (a \o b)[k] = b[k - (i - 1)]
    <3>1. Len(a) \in Nat /\ Len(b) \in Nat /\ k > Len(a) /\ k <= Len(a) + Len(b)
      BY <1>1, <1>2, <1>3, <1>4, <1>6
    <3>2. (a \o b)[k] = b[k - Len(a)]
      BY <1>2, <1>3, <1>4, <3>1
    <3>3. QED BY <1>2, <3>2
  <2>2. k - (i - 1) \in 1..Len(s) - i /\ (k - (i - 1)) + i = k + 1 /\ k + 1 \in 1..Len(s)
    BY <1>1, <1>4, <1>6
  <2>3. b[k - (i - 1)] = s[(k - (i - 1)) + i]
    BY <1>3, <2>2
  <2>4. QED BY <1>4, <2>1, <2>2, <2>3
<1>7. QED BY <1>5, <1>6

\* What the loop does then: nothing but end the move, or its goroutine.
LEMMA LeftRun ==
    ASSUME Base, LeftInv, Run, resisted
    PROVE  /\ wire' = NoHeight
           /\ \/ pc' \in {"done", "idle"}
              \/ pc = "select" /\ pc' = "select"
                 /\ UNCHANGED <<movedYet, chMove, readings, mmx10>>
<1> USE DEF LeftInv
<1>1. Goroutine
  BY DEF Run
<1>2. CASE Return
  BY <1>2 DEF Return
<1>3. CASE TakeFrame \/ Stalled
  BY <1>3 DEF TakeFrame, Stalled, InSelect, Ends, deskVars, legVars
<1>4. CASE OfferTick
  BY <1>4 DEF OfferTick, InSelect, Ends, NoWrite, MayOffer, legVars
<1>5. ASSUME NEW r \in Reading, TakeReading(r) PROVE pc' = "done" /\ wire' = NoHeight
  <2>1. pc = "select" /\ movedYet /\ Harmless(r, mmx10)
    BY <1>5 DEF TakeReading, TakeRecovering, Sustain, LegFinished, Rest, TakesReading, InSelect
  <2>2. ~Sustain(r) /\ ~LegFinished(r)
    BY <2>1 DEF Harmless, Sustain, LegFinished, LegOver
  <2>3. CASE TakeRecovering(r)
    BY <2>3 DEF TakeRecovering, Ends
  <2>4. CASE Rest(r)
    BY <2>1, <2>4 DEF Harmless, Rest, Ends
  <2>5. QED BY <1>5, <2>2, <2>3, <2>4 DEF TakeReading
<1>6. ASSUME NEW h \in Height, TakeTarget(h) PROVE FALSE
  BY <1>6 DEF TakeTarget, Repeat, Extend, Retarget, TakesTarget, InSelect
<1>7. ~WatchErrors /\ ~FirstWrite /\ ~WaitFrame /\ ~WaitReading /\ ~WaitGap /\ ~WaitOver
  BY DEF WatchErrors, FirstWrite, WaitFrame, WaitReading, WaitGap, WaitOver, InWait
<1>8. QED
  BY <1>1, <1>2, <1>3, <1>4, <1>5, <1>6, <1>7 DEF Goroutine

\* A tick that finds it stopped, and one that stops it.
LEMMA LeftTick ==
    ASSUME Base, LeftInv, DeskTick, Lag = 0 PROVE LeftInv'
<1> USE DEF Base, DeskInv, AirOK
<1>1. air = <<>> /\ wire = NoHeight /\ (pc \in {"select", "ready"} => readings = NoReading)
  BY DEF DeskTick, Urgent
<1>2. UNCHANGED <<pc, movedYet, chMove, readings, mmx10, wire, linked>>
  BY DEF DeskTick, Tick, legVars, loopVars
<1>3. CASE resisted
  <2>1. motion' # "travel" /\ (motion' = "recover" => motion = "recover")
    <3>1. motion \in {"rest", "recover"}
      BY <1>3 DEF LeftInv, DeskTypes
    <3>2. QED BY <3>1 DEF DeskTick, BackAway, AtRest
  <2>2. pc = "select" => air' = <<>> \/ ~linked
    BY <1>1, <1>3 DEF LeftInv, DeskTick
  <2>3. pc = "select" /\ linked => motion # "recover"
    BY <1>1, <1>3 DEF LeftInv
  <2>4. QED BY <1>1, <1>2, <1>3, <2>1, <2>2, <2>3 DEF LeftInv
<1>4. CASE ~resisted /\ resisted'
  <2>1. (StopShort \/ Collide) /\ Resists
    BY <1>4 DEF DeskTick, RunDown, Travel, BackAway, StopShort, Collide
  <2>2. pc = "select" /\ chMove = NoHeight /\ movedYet /\ ~(abs(pos - mmx10) <= ArrivalTolerance)
    <3>1. abs(pos - mmx10) > ArrivalTolerance
      BY <1>4, <2>1 DEF Resists
    <3>2. mmx10 \in Int /\ pos \in Int
      BY <1>4, <2>1, HeightAssumption DEF Resists, IInv, Busy
    <3>3. ~(abs(pos - mmx10) <= ArrivalTolerance)
      BY <3>1, <3>2, HeightAssumption DEF abs
    <3>4. QED BY <1>4, <2>1, <3>3 DEF Resists
  <2>3. PICK r : /\ air' = Append(air, r) /\ Harmless(r, mmx10) /\ motion' # "travel"
    <3>1. CASE StopShort
      <4>1. ~sameDestination(Report(pos, 0).extension, mmx10)
        BY <2>2 DEF sameDestination, Report
      <4>2. Harmless(Report(pos, 0), mmx10)
        BY <4>1 DEF Harmless, Report
      <4>3. QED BY <3>1, <4>2 DEF StopShort, AtRest
    <3>2. CASE Collide
      BY <3>2 DEF Collide, Harmless
    <3>3. QED BY <2>1, <3>1, <3>2
  <2>4. air' = <<r>>
    BY <1>1, <2>3
  <2>5. Len(air') = 1 /\ air'[1] = r /\ air' # <<>>
    BY <2>4
  <2>6. \A i \in 1..Len(air') : Harmless(air'[i], mmx10)
    BY <2>3, <2>5
  <2>7. QED BY <1>1, <1>2, <2>2, <2>3, <2>5, <2>6 DEF LeftInv
<1>5. QED BY <1>3, <1>4 DEF LeftInv

\* Every step keeps it.
LEMMA LeftStep ==
    ASSUME Base, LeftInv, DeskNext, Lag = 0 PROVE LeftInv'
<1> USE DEF Base, DeskInv, AirOK
<1>1. ASSUME NEW h \in Target, Call(h) PROVE LeftInv'
  BY <1>1 DEF Call, LeftInv
<1>2. CASE Hear
  <2> SUFFICES ASSUME resisted PROVE LeftInv'
    BY <1>2 DEF Hear, history, LeftInv
  <2>1. PICK i \in 1..Len(air) :
          /\ IF linked THEN DeliverReading(air[i]) ELSE UNCHANGED vars
          /\ air' = Without(air, i)
    BY <1>2 DEF Hear
  <2>2. UNCHANGED <<motion, resisted, linked, wire, pc, movedYet, chMove, mmx10>>
    BY <1>2, <2>1 DEF Hear, DeliverReading, ctlVars, history, vars, deskVars, legVars, loopVars
  <2>3. IF linked THEN pc # "idle" => readings' = air[i] ELSE readings' = readings
    BY <2>1 DEF DeliverReading, vars, loopVars
  <2>4. air[i] \in Reading /\ air[i] # NoReading
    BY NoReadingAssumption
  <2>5. \A k \in 1..Len(air') : \E j \in 1..Len(air) : air'[k] = air[j]
    BY <2>1, StaysOnAir
  <2>6. pc = "select" => (readings' # NoReading => Harmless(readings', mmx10))
    BY <2>3 DEF LeftInv
  <2>7. pc = "select" /\ linked => \A k \in 1..Len(air') : Harmless(air'[k], mmx10)
    BY <2>5 DEF LeftInv
  <2>8. QED BY <2>2, <2>3, <2>4, <2>6, <2>7 DEF LeftInv
<1>3. CASE HearAlarm
  BY <1>3 DEF HearAlarm, DeliverFrame, LeftInv, Harmless, ctlVars, history, vars, deskVars,
     legVars, loopVars
<1>4. CASE Run
  BY <1>4, LeftRun DEF Run, LeftInv, Harmless, ctlVars, linkVars, history
<1>5. CASE Receive \/ Lose
  BY <1>5 DEF Receive, Lose, Transmit, LeftInv, history
<1>6. CASE Drop
  BY <1>6 DEF Drop, LeftInv, Harmless, ctlVars, history, vars, deskVars, legVars, loopVars
<1>7. CASE DeskTick
  BY <1>7, LeftTick
<1>8. QED
  BY <1>1, <1>2, <1>3, <1>4, <1>5, <1>6, <1>7 DEF DeskNext

\* A desk that met resistance on a move that saw it travel is not started again
\* before someone asks: no late answer, no offer and no queued target reaches
\* it, whatever else fails, is lost or drops.  The link is taken to deliver a
\* report before the next tick (desk/move.go:243-247, 508-513, 622-633).
THEOREM StoppedIsLeft ==
    ASSUME Lag = 0 PROVE DeskSpec => LeftStopped
<1>1. DeskInit => LeftInv
  BY DEF DeskInit, LeftInv
<1>2. Base /\ LeftInv /\ [DeskNext]_deskAll => LeftInv'
  <2> SUFFICES ASSUME Base, LeftInv, UNCHANGED deskAll PROVE LeftInv'
    BY LeftStep
  <2>1. QED
    BY DEF LeftInv, Harmless, deskAll, vars, deskVars, legVars, loopVars, ctlVars, linkVars, history
<1>3. LeftInv /\ [DeskNext]_deskAll
        => [resisted /\ motion # "travel" => motion' # "travel"]_deskAll
  <2> SUFFICES ASSUME LeftInv, DeskNext, resisted, motion # "travel" PROVE motion' # "travel"
    OBVIOUS
  <2>1. CASE Receive \/ Lose
    BY <2>1 DEF LeftInv, Receive, Lose, Transmit
  <2>2. CASE DeskTick
    BY <2>2 DEF DeskTick, BackAway, AtRest
  <2>3. CASE (\E h \in Target : Call(h)) \/ Hear \/ HearAlarm \/ Run \/ Drop
    BY <2>3 DEF Call, Hear, HearAlarm, Run, Drop, ctlVars
  <2>4. QED BY <2>1, <2>2, <2>3 DEF DeskNext
<1>4. QED
  BY <1>1, <1>2, <1>3, BaseHolds, PTL DEF DeskSpec, LeftStopped

-----------------------------------------------------------------------------
(* The wire and the desk's silence *)

\* Without a move there is no goroutine.
MovingOK == ~moving => pc = "idle"

\* A height on the wire was written just now: by the select loop its target,
\* by waitReadyForNewTarget at most the halting write.
WireOK ==
    wire # NoHeight =>
      /\ pc \in {"select", "ready"} /\ written = 0 /\ targetAge = 0
      /\ pc = "select" => wire = mmx10
      /\ pc = "ready" => HaltOnRetarget /\ halting /\ deadline = 0 /\ ~gapPassed

\* The desk has heard nothing since the last height was written.
SilenceOK == silence = Longest \/ silence >= targetAge

ClockInv == MovingOK /\ WireOK /\ SilenceOK

\* What a step of the goroutine writes.
Wrote(h) ==
    /\ Writes(h) /\ wire' = h
    /\ \/ pc' = "select" /\ mmx10' = h
       \/ pc' = "ready" /\ HaltOnRetarget /\ halting' /\ deadline' = 0 /\ ~gapPassed'

\* It runs with nothing on the wire, and writes one height or none.
LEMMA RunWrites ==
    ASSUME Base, WireOK, Goroutine
    PROVE  /\ wire = NoHeight
           /\ \/ wire' = NoHeight /\ UNCHANGED <<lastTarget, targetAge>>
              \/ \E h \in Height : Wrote(h)
<1> USE DEF Base, DeskInv, IInv, TypeOK
<1>0. ASSUME NEW h \in Height, Writes(h) PROVE wire' = h
  BY <1>0, TargetIsItself DEF Writes
<1>1. CASE WatchErrors
  BY <1>1 DEF WatchErrors, WireOK, deskVars
<1>2. CASE FirstWrite
  <2>1. mmx10 \in Height /\ wire = NoHeight
    BY <1>2 DEF FirstWrite, CanRun, Busy
  <2>2. QED
    BY <1>0, <1>2, <2>1 DEF FirstWrite, Starts, NoWrite, Wrote
<1>3. CASE TakeFrame \/ Stalled
  BY <1>3 DEF TakeFrame, Stalled, InSelect, CanRun, deskVars
<1>4. CASE OfferTick
  <2>1. mmx10 \in Height /\ wire = NoHeight /\ pc = "select" /\ mmx10' = mmx10
    BY <1>4 DEF OfferTick, InSelect, CanRun, Busy, legVars
  <2>2. QED
    BY <1>0, <1>4, <2>1 DEF OfferTick, NoWrite, Wrote
<1>5. ASSUME NEW r \in Reading, TakeReading(r)
      PROVE  /\ wire = NoHeight
             /\ \/ wire' = NoHeight /\ UNCHANGED <<lastTarget, targetAge>>
                \/ \E h \in Height : Wrote(h)
  <2>1. wire = NoHeight /\ pc = "select" /\ mmx10 \in Height
    BY <1>5 DEF TakeReading, TakeRecovering, Sustain, LegFinished, Rest, TakesReading, InSelect,
       CanRun, Busy
  <2>2. CASE Sustain(r)
    BY <1>0, <2>1, <2>2 DEF Sustain, Answers, NoWrite, Wrote
  <2>3. CASE TakeRecovering(r) \/ LegFinished(r) \/ Rest(r)
    BY <2>1, <2>3 DEF TakeRecovering, LegFinished, Rest, deskVars
  <2>4. QED BY <1>5, <2>2, <2>3 DEF TakeReading
<1>6. ASSUME NEW h \in Height, TakeTarget(h)
      PROVE  /\ wire = NoHeight
             /\ \/ wire' = NoHeight /\ UNCHANGED <<lastTarget, targetAge>>
                \/ \E x \in Height : Wrote(x)
  <2>1. wire = NoHeight
    BY <1>6 DEF TakeTarget, Repeat, Extend, Retarget, TakesTarget, InSelect, CanRun
  <2>2. CASE Repeat(h) \/ Extend(h)
    BY <2>1, <2>2 DEF Repeat, Extend, loopVars
  <2>3. CASE Retarget(h)
    BY <1>0, <2>1, <2>3 DEF Retarget, Waits, NoWrite, Wrote
  <2>4. QED BY <1>6, <2>2, <2>3 DEF TakeTarget
<1>7. CASE WaitFrame \/ WaitReading \/ WaitGap
  BY <1>7 DEF WaitFrame, WaitReading, WaitGap, InWait, CanRun, deskVars, loopVars
<1>8. CASE WaitOver
  <2>1. wire = NoHeight /\ Latest(to) \in Height /\ mmx10 \in Height
    BY <1>8, LatestIsHeight DEF WaitOver, CanRun, Busy
  <2>2. QED
    BY <1>0, <1>8, <2>1 DEF WaitOver, AfterLeg, AfterRetarget, Starts, NoWrite, Wrote
<1>9. CASE Return
  BY <1>9 DEF Return, CanRun
<1>10. QED
  BY <1>1, <1>2, <1>3, <1>4, <1>5, <1>6, <1>7, <1>8, <1>9 DEF Goroutine

\* What a goroutine does to d.moving.
LEMMA RunMoves ==
    ASSUME Goroutine, MovingOK PROVE MovingOK'
<1>1. CASE Return
  BY <1>1 DEF Return, MovingOK
<1>2. CASE WatchErrors \/ FirstWrite \/ TakeFrame \/ OfferTick \/ Stalled
  BY <1>2 DEF WatchErrors, FirstWrite, TakeFrame, OfferTick, Stalled, InSelect, deskVars, MovingOK
<1>3. ASSUME NEW r \in Reading, TakeReading(r) PROVE MovingOK'
  BY <1>3 DEF TakeReading, TakeRecovering, Sustain, LegFinished, Rest, TakesReading, InSelect,
     deskVars, MovingOK
<1>4. ASSUME NEW h \in Height, TakeTarget(h) PROVE MovingOK'
  BY <1>4 DEF TakeTarget, Repeat, Extend, Retarget, TakesTarget, InSelect, MovingOK
<1>5. CASE WaitFrame \/ WaitReading \/ WaitGap \/ WaitOver
  BY <1>5 DEF WaitFrame, WaitReading, WaitGap, WaitOver, InWait, deskVars, MovingOK
<1>6. QED BY <1>1, <1>2, <1>3, <1>4, <1>5 DEF Goroutine

\* Every step keeps the wire and the silence in step.
LEMMA ClockStep ==
    ASSUME Base, ClockInv, DeskNext PROVE ClockInv'
<1> USE DEF ClockInv
<1>0. targetAge \in Nat /\ silence \in Nat /\ silence <= Longest /\ RetargetGap \in Nat
  BY TimeAssumption, Durations DEF Base, DeskInv, IInv, TypeOK, DeskOK, DeskTypes
<1>1. ASSUME NEW h \in Target, Call(h) PROVE ClockInv'
  <2>1. UNCHANGED <<wire, targetAge, silence>>
    BY <1>1 DEF Call, Move, MoveWhileMoving, MoveReturns, MoveStarts, loopVars, ctlVars
  <2>2. CASE MoveStarts(h)
    BY <2>1, <2>2 DEF MoveStarts, MovingOK, WireOK, SilenceOK
  <2>3. CASE MoveWhileMoving(h) \/ MoveReturns
    BY <2>1, <2>3 DEF MoveWhileMoving, MoveReturns, MovingOK, WireOK, SilenceOK, loopVars, legVars,
       timeVars, waitVars
  <2>4. QED BY <1>1, <2>2, <2>3 DEF Call, Move
<1>2. CASE Hear \/ HearAlarm \/ Drop
  <2>1. UNCHANGED <<moving, pc, wire, written, targetAge, mmx10, halting, deadline, gapPassed,
                    silence>>
    BY <1>2 DEF Hear, HearAlarm, Drop, DeliverReading, DeliverFrame, vars, deskVars, loopVars,
       legVars, timeVars, waitVars, ctlVars
  <2>2. QED BY <2>1 DEF MovingOK, WireOK, SilenceOK
<1>3. CASE Run
  <2>1. Goroutine /\ silence' = silence
    BY <1>3 DEF Run, ctlVars
  <2>2. MovingOK'
    BY <2>1, RunMoves
  <2>3. WireOK' /\ SilenceOK'
    <3>1. CASE wire' = NoHeight /\ UNCHANGED <<lastTarget, targetAge>>
      BY <2>1, <3>1 DEF WireOK, SilenceOK
    <3>2. ASSUME NEW h \in Height, Wrote(h) PROVE WireOK' /\ SilenceOK'
      BY <1>0, <2>1, <3>2 DEF Wrote, Writes, noteTargetWritten, WireOK, SilenceOK
    <3>3. QED BY <2>1, <3>1, <3>2, RunWrites
  <2>4. QED BY <2>2, <2>3
<1>4. CASE Receive \/ Lose
  <2>1. Transmit /\ wire' = NoHeight /\ targetAge' = targetAge /\ UNCHANGED <<moving, pc>>
    BY <1>4 DEF Receive, Lose, Transmit, deskVars
  <2>2. silence' = silence \/ (silence' = 0 /\ targetAge = 0)
    BY <1>4 DEF Receive, Lose, Transmit, WireOK, ctlVars
  <2>3. QED BY <2>1, <2>2 DEF MovingOK, WireOK, SilenceOK
<1>5. CASE DeskTick
  <2>1. wire = NoHeight /\ wire' = wire /\ UNCHANGED <<moving, pc>>
    BY <1>5 DEF DeskTick, Urgent, Tick, loopVars
  <2>2. silence' = Aged(silence, Longest) /\ targetAge' = Aged(targetAge, RetargetGap)
    BY <1>5 DEF DeskTick, Tick
  <2>3. SilenceOK'
    BY <1>0, <2>2, Durations DEF SilenceOK, Aged
  <2>4. QED BY <2>1, <2>3 DEF MovingOK, WireOK
<1>6. QED
  BY <1>1, <1>2, <1>3, <1>4, <1>5 DEF DeskNext

\* They always are.
LEMMA ClockHolds == DeskSpec => []ClockInv
<1>1. DeskInit => ClockInv
  <2> SUFFICES ASSUME DeskInit PROVE ClockInv
    OBVIOUS
  <2>1. wire = NoHeight /\ pc = "idle" /\ silence = Longest
    BY DEF DeskInit, Init
  <2>2. QED BY <2>1, Durations DEF ClockInv, MovingOK, WireOK, SilenceOK
<1>2. Base /\ ClockInv /\ [DeskNext]_deskAll => ClockInv'
  <2> SUFFICES ASSUME ClockInv, UNCHANGED deskAll PROVE ClockInv'
    BY ClockStep
  <2>1. QED
    BY DEF ClockInv, MovingOK, WireOK, SilenceOK, deskAll, vars, deskVars, legVars, timeVars,
       waitVars, loopVars, ctlVars
<1>3. QED
  BY <1>1, <1>2, BaseHolds, PTL DEF DeskSpec

-----------------------------------------------------------------------------
(* New heights are heard *)

\* Heights asked for that are near each other are near the same others.
Apart == \A a, b, c \in Target :
            sameDestination(a, b) /\ sameDestination(b, c) => sameDestination(a, c)

\* Every height the loop holds or has sent is one that was asked for.
Goal(v) == v \in Target \cup {NoHeight}
Goals == /\ Goal(chMove) /\ Goal(mmx10) /\ Goal(next) /\ Goal(to)
         /\ Goal(lastTarget) /\ Goal(wire) /\ Goal(heard)

\* What the desk heard last is what was written last, give or take a loss, or
\* is far enough back.
SinceHeard ==
    /\ wire # NoHeight => lastTarget = wire
    /\ heard # NoHeight => lastTarget # NoHeight
    /\ linked /\ heard # NoHeight =>
         \/ silence >= Quiet
         \/ wire = NoHeight /\ \/ lastTarget = heard
                               \/ Apart /\ sameDestination(lastTarget, heard)
         \/ wire # NoHeight /\ sameDestination(wire, heard)

HeardInv == Goals /\ SinceHeard

\* Near is near itself.
LEMMA NearItself == \A h \in Height : sameDestination(h, h)
BY HeightAssumption DEF sameDestination, abs

\* What the loop writes is asked for.
LEMMA WritesGoal ==
    ASSUME NEW h \in Target, Writes(h) PROVE Goal(lastTarget)' /\ Goal(wire)'
BY DeskAssumption, TargetIsItself DEF Writes, noteTargetWritten, Goal

\* Nothing but what is asked for gets into the loop.
LEMMA GoalsRun ==
    ASSUME Base, Goals, Goroutine, heard' = heard PROVE Goals'
<1> USE DEF Goals
<1>0. Goal(heard)' /\ Goal(NoHeight) /\ NoHeight \notin Target /\ NoHeight \notin Height
  <2>1. Target \subseteq Int /\ Height \subseteq Int
    BY DeskAssumption, HeightAssumption
  <2>2. QED BY <2>1, HeightAssumption DEF Goal
<1>1. CASE WatchErrors
  BY <1>0, <1>1 DEF WatchErrors, deskVars, waitVars, Goal
<1>2. ASSUME NEW h \in Target, Starts(h)
      PROVE  Goal(mmx10)' /\ (UNCHANGED <<wire, lastTarget>> \/ (Goal(wire)' /\ Goal(lastTarget)'))
  BY <1>2, WritesGoal DEF Starts, NoWrite, Goal
<1>3. CASE FirstWrite
  <2>1. mmx10 \in Target
    BY <1>0, <1>3 DEF FirstWrite, Base, DeskInv, IInv, Busy, Goal
  <2>2. QED BY <1>0, <1>2, <1>3, <2>1 DEF FirstWrite, waitVars, Goal
<1>4. CASE TakeFrame \/ Stalled
  BY <1>0, <1>4 DEF TakeFrame, Stalled, deskVars, legVars, waitVars, Goal
<1>5. CASE OfferTick
  <2>1. mmx10 \in Target
    BY <1>0, <1>5 DEF OfferTick, InSelect, Base, DeskInv, IInv, Busy, Goal
  <2>2. UNCHANGED <<wire, lastTarget>> \/ (Goal(wire)' /\ Goal(lastTarget)')
    BY <1>5, <2>1, WritesGoal DEF OfferTick, NoWrite
  <2>3. QED BY <1>0, <1>5, <2>2 DEF OfferTick, legVars, waitVars, Goal
<1>6. ASSUME NEW r \in Reading, TakeReading(r) PROVE Goals'
  <2>1. mmx10 \in Target
    BY <1>0, <1>6 DEF TakeReading, TakeRecovering, Sustain, LegFinished, Rest, TakesReading,
       InSelect, Base, DeskInv, IInv, Busy, Goal
  <2>2. CASE Sustain(r)
    <3>1. UNCHANGED <<wire, lastTarget>> \/ (Goal(wire)' /\ Goal(lastTarget)')
      BY <2>1, <2>2, WritesGoal DEF Sustain, Answers, NoWrite
    <3>2. QED BY <1>0, <2>2, <3>1 DEF Sustain, waitVars, Goal
  <2>3. CASE TakeRecovering(r) \/ Rest(r)
    BY <1>0, <2>3 DEF TakeRecovering, Rest, deskVars, legVars, waitVars, Goal
  <2>4. CASE LegFinished(r)
    BY <1>0, <2>4 DEF LegFinished, Waits, deskVars, Goal
  <2>5. QED BY <1>6, <2>2, <2>3, <2>4 DEF TakeReading
<1>7. ASSUME NEW h \in Height, TakeTarget(h) PROVE Goals'
  <2>1. h \in Target /\ chMove' = NoHeight
    BY <1>0, <1>7 DEF TakeTarget, Repeat, Extend, Retarget, TakesTarget, Goal
  <2>2. CASE Repeat(h) \/ Extend(h)
    BY <1>0, <2>1, <2>2 DEF Repeat, Extend, waitVars, loopVars, Goal
  <2>3. CASE Retarget(h)
    <3>1. UNCHANGED <<wire, lastTarget>> \/ (Goal(wire)' /\ Goal(lastTarget)')
      BY <2>1, <2>3, WritesGoal DEF Retarget, NoWrite
    <3>2. QED BY <1>0, <2>1, <2>3, <3>1 DEF Retarget, Waits, Goal
  <2>4. QED BY <1>7, <2>2, <2>3 DEF TakeTarget
<1>8. CASE WaitFrame \/ WaitReading \/ WaitGap
  BY <1>0, <1>8 DEF WaitFrame, WaitReading, WaitGap, deskVars, legVars, waitVars, loopVars, Goal
<1>9. CASE WaitOver
  <2>1. Latest(to) \in Target /\ mmx10 \in Target
    BY <1>0, <1>9 DEF WaitOver, Latest, Base, DeskInv, IInv, Busy, Goal
  <2>2. \/ UNCHANGED <<mmx10, wire, lastTarget>>
        \/ \E h \in Target : Starts(h)
    BY <1>9, <2>1 DEF WaitOver, AfterLeg, AfterRetarget, NoWrite
  <2>3. QED BY <1>0, <1>2, <1>9, <2>2 DEF WaitOver, waitVars, Goal
<1>10. CASE Return
  BY <1>0, <1>10 DEF Return, Goal
<1>11. QED
  BY <1>1, <1>3, <1>4, <1>5, <1>6, <1>7, <1>8, <1>9, <1>10 DEF Goroutine

\* What it writes names where the desk is already headed, or comes late enough.
LEMMA HeardRun ==
    ASSUME Base, ClockInv, HeardInv, Goals', Run, ~HaltOnRetarget, Quiet <= RetargetGap
    PROVE  SinceHeard'
<1> USE DEF HeardInv, SinceHeard
<1>0. Goroutine /\ UNCHANGED <<heard, linked, silence>>
  BY DEF Run, history, linkVars, ctlVars
<1>1. wire = NoHeight
  BY <1>0, RunWrites DEF ClockInv
<1>2. CASE wire' = NoHeight /\ UNCHANGED <<lastTarget, targetAge>>
  BY <1>0, <1>1, <1>2
<1>3. ASSUME NEW h \in Height, Wrote(h) PROVE SinceHeard'
  <2>1. wire' = h /\ lastTarget' = h /\ h # NoHeight
    BY <1>3, HeightAssumption DEF Wrote, Writes, noteTargetWritten
  <2> SUFFICES ASSUME linked, heard # NoHeight, ~(silence >= Quiet)
               PROVE  sameDestination(h, heard)
    BY <1>0, <2>1
  <2>2. heard \in Height /\ lastTarget # NoHeight
    BY DEF Base, DeskTypes
  <2>3. QuietBefore
    BY <1>0, QuietStep DEF Base, DeskInv, Next
  <2>4. targetAge # RetargetGap
    BY Durations, TimeAssumption DEF ClockInv, SilenceOK, Base, DeskTypes
  <2>5. pc' # "ready"
    BY <1>3 DEF Wrote
  <2>6. h = lastTarget \/ sameDestination(h, lastTarget)
    BY <1>1, <2>1, <2>2, <2>3, <2>4, <2>5 DEF QuietBefore
  <2>7. lastTarget = heard \/ (Apart /\ sameDestination(lastTarget, heard))
    BY <1>1
  <2>8. h \in Target /\ lastTarget \in Target /\ heard \in Target
    BY <2>1, <2>2 DEF Goals, Goal
  <2>9. CASE lastTarget = heard
    BY <2>2, <2>6, <2>9, NearItself
  <2>10. CASE Apart /\ sameDestination(lastTarget, heard)
    BY <2>6, <2>8, <2>10 DEF Apart
  <2>11. QED BY <2>7, <2>9, <2>10
<1>4. QED
  BY <1>0, <1>2, <1>3, RunWrites DEF ClockInv

\* Every step keeps it.
LEMMA HeardStep ==
    ASSUME Base, ClockInv, HeardInv, DeskNext,
           ~HaltOnRetarget, Quiet <= RetargetGap, Losses = 0 \/ Apart
    PROVE  HeardInv'
<1> USE DEF HeardInv
<1>0. Goal(NoHeight) /\ NoHeight \notin Target
  <2>1. Target \subseteq Int
    BY DeskAssumption, HeightAssumption
  <2>2. QED BY <2>1, HeightAssumption DEF Goal
<1>1. ASSUME NEW h \in Target, Call(h) PROVE HeardInv'
  <2>1. UNCHANGED <<next, to, lastTarget, wire, heard, linked, silence>>
    BY <1>1 DEF Call, Move, MoveWhileMoving, MoveReturns, MoveStarts, loopVars, legVars, waitVars,
       linkVars, ctlVars
  <2>2. Goal(chMove)' /\ Goal(mmx10)'
    BY <1>1 DEF Call, Move, MoveWhileMoving, MoveReturns, MoveStarts, legVars, Goal, Goals
  <2>3. QED BY <2>1, <2>2 DEF Goals, Goal, SinceHeard
<1>2. CASE Hear \/ HearAlarm
  <2>1. UNCHANGED <<chMove, mmx10, next, to, lastTarget, wire, heard, linked, silence>>
    BY <1>2 DEF Hear, HearAlarm, DeliverReading, DeliverFrame, vars, deskVars, loopVars,
       legVars, waitVars, ctlVars, history
  <2>2. QED BY <2>1 DEF Goals, Goal, SinceHeard
<1>3. CASE Run
  <2>1. Goals'
    BY <1>3, GoalsRun DEF Run, history
  <2>2. QED BY <1>3, <2>1, HeardRun
<1>4. CASE Receive
  <2>1. wire' = NoHeight /\ heard' = wire /\ wire # NoHeight
        /\ UNCHANGED <<chMove, mmx10, next, to, lastTarget>>
    BY <1>4 DEF Receive, Transmit, deskVars, legVars, waitVars
  <2>2. QED BY <1>0, <2>1 DEF Goals, Goal, SinceHeard
<1>5. CASE Lose
  <2>1. wire' = NoHeight /\ wire # NoHeight
        /\ UNCHANGED <<chMove, mmx10, next, to, lastTarget, heard, linked, silence>>
    BY <1>5 DEF Lose, Transmit, deskVars, legVars, waitVars, history, linkVars, ctlVars
  <2>2. linked => Losses # 0
    BY <1>5, Durations DEF Lose, Base, DeskTypes
  <2>3. QED BY <1>0, <2>1, <2>2 DEF Goals, Goal, SinceHeard
<1>6. CASE Drop
  <2>1. linked' = FALSE /\ UNCHANGED <<chMove, mmx10, next, to, lastTarget, wire, heard>>
    BY <1>6 DEF Drop, vars, deskVars, loopVars, legVars, waitVars, history
  <2>2. QED BY <2>1 DEF Goals, Goal, SinceHeard
<1>7. CASE DeskTick
  <2>1. UNCHANGED <<chMove, mmx10, next, to, lastTarget, wire, heard, linked>>
    BY <1>7 DEF DeskTick, Tick, legVars, loopVars
  <2>2. silence >= Quiet => silence' >= Quiet
    BY <1>7, Durations DEF DeskTick, Aged, Base, DeskTypes
  <2>3. QED BY <2>1, <2>2 DEF Goals, Goal, SinceHeard
<1>8. QED
  BY <1>1, <1>2, <1>3, <1>4, <1>5, <1>6, <1>7 DEF DeskNext

\* With no halting writes and a gap no shorter than what the desk needs, a
\* resting desk has had its silence whenever a height reaches it that is not
\* near the one before: if none was lost, or if the heights asked for are far
\* enough apart that a loss in between cannot add two steps of the dead band
\* (README.md:269-270, desk/move.go:141-160).
THEOREM NewHeightsHeard ==
    ASSUME ~HaltOnRetarget, Quiet <= RetargetGap, Losses = 0 \/ Apart
    PROVE  DeskSpec => NewHeightsAreHeard
<1>1. DeskInit => HeardInv
  <2> SUFFICES ASSUME DeskInit PROVE HeardInv
    OBVIOUS
  <2>1. chMove = NoHeight /\ mmx10 = NoHeight /\ next = NoHeight /\ to = NoHeight
        /\ lastTarget = NoHeight /\ wire = NoHeight /\ heard = NoHeight
    BY DEF DeskInit, Init
  <2>2. QED BY <2>1 DEF HeardInv, Goals, Goal, SinceHeard
<1>2. Base /\ ClockInv /\ HeardInv /\ [DeskNext]_deskAll => HeardInv'
  <2> SUFFICES ASSUME HeardInv, UNCHANGED deskAll PROVE HeardInv'
    BY HeardStep
  <2>1. UNCHANGED <<chMove, mmx10, next, to, lastTarget, wire, heard, linked, silence>>
    BY DEF deskAll, vars, deskVars, loopVars, legVars, waitVars, history, linkVars, ctlVars
  <2>2. QED BY <2>1 DEF HeardInv, Goals, Goal, SinceHeard
<1>3. HeardInv /\ [DeskNext]_deskAll
        => [ Receive /\ motion = "rest" /\ heard # NoHeight
               /\ ~sameDestination(wire, heard) => silence >= Quiet ]_deskAll
  BY DEF HeardInv, SinceHeard, Receive, Transmit
<1>4. QED
  BY <1>1, <1>2, <1>3, BaseHolds, ClockHolds, PTL DEF DeskSpec, NewHeightsAreHeard

-----------------------------------------------------------------------------
(* What the loop knows of the leg it is on *)

\* A desk seen moving was travelling at its last report.
LastOK == pc = "select" /\ movedYet => last # NoReading /\ last.speed # 0

\* The newest target is where the move is going, or is queued.
TakenOK ==
    /\ pc = "select" => IF next = NoHeight THEN sameDestination(collected, mmx10)
                                           ELSE collected = next
    /\ pc = "ready" => collected = to
    /\ pc \in {"watch", "sleep"} => collected = mmx10
    /\ pc \in {"watch", "sleep", "select", "ready"} => collected \in Height

\* Offers are made as often as the gap allows, and only the first can come
\* before the desk has had its silence.
OfferOK ==
    pc = "select" /\ ~movedYet =>
      /\ offered <= (offers - 1) * RetargetGap + written
      /\ ~offerDue => offered < StartGrace /\ written < RetargetGap
      /\ stall <= offered \/ offered = StartGrace
      /\ wire # NoHeight => silence >= Quiet \/ offers <= 1

LegInv == LastOK /\ TakenOK /\ OfferOK

legState == <<pc, mmx10, next, to, collected, last, movedYet, written, offered, offerDue, stall,
              offers>>

\* A step that is not the loop's own leaves it where it is.
LEMMA Elsewhere ==
    ASSUME Hear \/ HearAlarm \/ Receive \/ Lose \/ Drop
    PROVE  UNCHANGED legState /\ wire' \in {wire, NoHeight}
<1>1. CASE Hear
  BY <1>1 DEF Hear, DeliverReading, legState, vars, deskVars, legVars, timeVars, waitVars, loopVars
<1>2. CASE HearAlarm
  BY <1>2 DEF HearAlarm, DeliverFrame, legState, vars, legVars, timeVars, waitVars, loopVars
<1>3. CASE Receive \/ Lose
  BY <1>3 DEF Receive, Lose, Transmit, legState, legVars, timeVars, waitVars
<1>4. CASE Drop
  BY <1>4 DEF Drop, legState, vars, legVars, timeVars, waitVars, loopVars
<1>5. QED BY <1>1, <1>2, <1>3, <1>4

\* What the loop does with the last report.
LEMMA LastRun ==
    ASSUME Base, LastOK, Goroutine PROVE LastOK'
<1> USE DEF LastOK
<1>1. CASE WatchErrors \/ Return
  BY <1>1 DEF WatchErrors, Return
<1>2. CASE FirstWrite \/ WaitOver
  BY <1>2 DEF FirstWrite, WaitOver, AfterLeg, AfterRetarget, Starts, Ends
<1>3. CASE TakeFrame \/ OfferTick \/ Stalled
  BY <1>3 DEF TakeFrame, OfferTick, Stalled, InSelect, Ends, legVars
<1>4. ASSUME NEW r \in Reading, TakeReading(r) PROVE LastOK'
  <2>1. CASE Sustain(r)
    BY <2>1, NoReadingAssumption DEF Sustain, TakesReading
  <2>2. CASE TakeRecovering(r) \/ LegFinished(r)
    BY <2>2 DEF TakeRecovering, LegFinished, Waits, Ends
  <2>3. CASE Rest(r)
    BY <2>3 DEF Rest, Ends, legVars
  <2>4. QED BY <1>4, <2>1, <2>2, <2>3 DEF TakeReading
<1>5. ASSUME NEW h \in Height, TakeTarget(h) PROVE LastOK'
  BY <1>5 DEF TakeTarget, Repeat, Extend, Retarget, Waits, loopVars
<1>6. CASE WaitFrame \/ WaitReading \/ WaitGap
  BY <1>6 DEF WaitFrame, WaitReading, WaitGap, InWait, Ends, loopVars
<1>7. QED BY <1>1, <1>2, <1>3, <1>4, <1>5, <1>6 DEF Goroutine

\* What it does with the newest target.
LEMMA TakenRun ==
    ASSUME Base, TakenOK, Goroutine PROVE TakenOK'
<1> USE DEF TakenOK
<1>0. /\ pc \in {"sleep", "ready"} => next = NoHeight
      /\ pc \in {"watch", "sleep", "select", "ready"} => mmx10 \in Height
      /\ pc = "ready" => to \in Height
      /\ NoHeight \notin Height
  BY HeightAssumption DEF Base, DeskInv, IInv, Queued, Busy
<1>1. CASE WatchErrors \/ Return
  BY <1>1 DEF WatchErrors, Return
<1>2. CASE FirstWrite
  BY <1>0, <1>2, NearItself DEF FirstWrite, Starts, Ends
<1>3. CASE TakeFrame \/ OfferTick \/ Stalled
  BY <1>3 DEF TakeFrame, OfferTick, Stalled, InSelect, Ends, legVars, sameDestination
<1>4. ASSUME NEW r \in Reading, TakeReading(r) PROVE TakenOK'
  <2>1. CASE Sustain(r)
    BY <2>1 DEF Sustain, TakesReading, InSelect, Answers, Ends, sameDestination
  <2>2. CASE TakeRecovering(r)
    BY <2>2 DEF TakeRecovering, Ends
  <2>3. CASE LegFinished(r)
    BY <2>3 DEF LegFinished, LegOver, Waits, TakesReading, InSelect
  <2>4. CASE Rest(r)
    BY <2>4 DEF Rest, TakesReading, InSelect, Ends, legVars, sameDestination
  <2>5. QED BY <1>4, <2>1, <2>2, <2>3, <2>4 DEF TakeReading
<1>5. ASSUME NEW h \in Height, TakeTarget(h) PROVE TakenOK'
  <2>1. CASE Repeat(h)
    BY <2>1 DEF Repeat, TakesTarget, InSelect, loopVars, sameDestination
  <2>2. CASE Extend(h)
    BY <1>0, <2>2 DEF Extend, TakesTarget, InSelect, loopVars
  <2>3. CASE Retarget(h)
    BY <2>3 DEF Retarget, TakesTarget, Waits
  <2>4. QED BY <1>5, <2>1, <2>2, <2>3 DEF TakeTarget
<1>6. CASE WaitFrame \/ WaitReading \/ WaitGap
  BY <1>6 DEF WaitFrame, WaitReading, WaitGap, InWait, Ends, legVars, loopVars, waitVars
<1>7. CASE WaitOver
  <2>1. /\ collected' = Latest(to) /\ next' = NoHeight /\ mmx10 \in Height
        /\ Latest(to) \in Height
    BY <1>0, <1>7, LatestIsHeight DEF WaitOver, Latest, Base, DeskInv, IInv, TypeOK
  <2>2. CASE pc' = "done"
    BY <2>2
  <2>3. CASE pc' = "select"
    <3>1. mmx10' = Latest(to) \/ (sameDestination(Latest(to), mmx10) /\ mmx10' = mmx10)
      BY <1>7, <2>3 DEF WaitOver, AfterLeg, AfterRetarget, Starts, Ends
    <3>2. QED BY <2>1, <2>3, <3>1, NearItself DEF sameDestination
  <2>4. QED BY <1>7, <2>2, <2>3 DEF WaitOver, AfterLeg, AfterRetarget, Starts, Ends
<1>8. QED BY <1>1, <1>2, <1>3, <1>4, <1>5, <1>6, <1>7 DEF Goroutine

\* What it does with the clocks of the offers.
LEMMA OfferRun ==
    ASSUME Base, ClockInv, OfferOK, Goroutine, silence' = silence, Quiet <= RetargetGap
    PROVE  OfferOK'
<1> DEFINE Spent == (offers - 1) * RetargetGap
<1>0. /\ RetargetGap \in Nat /\ RetargetGap > 0 /\ StartGrace \in Nat /\ StartGrace > 0
      /\ offers \in Nat /\ Spent \in Int /\ offered \in Nat /\ written \in Nat /\ stall \in Nat
  BY TimeAssumption DEF Base, DeskInv, IInv, TypeOK, LoopOK, TimeOK
<1>1. ASSUME NEW h \in Height, Starts(h) PROVE OfferOK'
  BY <1>0, <1>1 DEF Starts, Writes, Ends, OfferOK
<1>2. CASE WatchErrors \/ Return
  BY <1>2 DEF WatchErrors, Return, OfferOK
<1>3. CASE FirstWrite
  BY <1>1, <1>3 DEF FirstWrite, Base, DeskInv, IInv, Busy
<1>4. CASE TakeFrame \/ Stalled
  BY <1>4 DEF TakeFrame, Stalled, InSelect, Ends, timeVars, legVars, OfferOK
<1>5. CASE OfferTick
  <2> SUFFICES ASSUME pc' = "select", ~movedYet PROVE OfferOK'
    BY <1>5 DEF OfferTick, legVars, OfferOK
  <2>0. pc = "select" /\ wire = NoHeight /\ UNCHANGED <<offered, stall>> /\ movedYet' = movedYet
    BY <1>5 DEF OfferTick, InSelect, CanRun, legVars
  <2>1. CASE ~MayOffer /\ offered < StartGrace /\ NoWrite /\ UNCHANGED offers
    BY <1>0, <2>0, <2>1 DEF MayOffer, NoWrite, OfferOK
  <2>2. CASE MayOffer /\ Writes(mmx10) /\ offers' = offers + 1
    <3>1. offered < StartGrace /\ written >= RetargetGap /\ written' = 0
      BY <2>2 DEF MayOffer, Writes
    <3>2. written = RetargetGap /\ written = targetAge
      BY <1>0, <2>0, <3>1 DEF Base, DeskInv, IInv, Timed, TypeOK, TimeOK
    <3>3. silence >= Quiet
      <4>1. silence \in Nat
        BY Durations DEF Base, DeskTypes
      <4>2. QED BY <1>0, <3>2, <4>1, Durations DEF ClockInv, SilenceOK
    <3>4. offers > 0 /\ Spent + RetargetGap = offers * RetargetGap
      <4>1. offers > 0
        BY <2>0 DEF Base, DeskInv, IInv, Offered
      <4>2. QED BY <1>0, <4>1, OneMoreGap
    <3>5. offered <= Spent + written
      BY <2>0 DEF OfferOK
    <3>6. offered <= offers * RetargetGap /\ offers * RetargetGap \in Int
      BY <1>0, <3>2, <3>4, <3>5
    <3>7. offers' - 1 = offers
      BY <1>0, <2>2
    <3>8. offered' <= (offers' - 1) * RetargetGap + written'
      BY <1>0, <2>0, <3>1, <3>6, <3>7
    <3>9. stall' <= offered' \/ offered' = StartGrace
      BY <2>0 DEF OfferOK
    <3>10. offered' < StartGrace /\ written' < RetargetGap
      BY <1>0, <2>0, <3>1
    <3>11. QED BY <3>3, <3>8, <3>9, <3>10 DEF OfferOK
  <2>3. QED BY <1>5, <2>1, <2>2 DEF OfferTick, Ends
<1>6. ASSUME NEW r \in Reading, TakeReading(r) PROVE OfferOK'
  <2>1. CASE Sustain(r)
    BY <2>1 DEF Sustain, OfferOK
  <2>2. CASE TakeRecovering(r) \/ LegFinished(r)
    BY <2>2 DEF TakeRecovering, LegFinished, Waits, Ends, OfferOK
  <2>3. CASE Rest(r)
    <3>1. wire' = wire /\ UNCHANGED <<offered, offers, written, offerDue, movedYet>> /\ pc = "select"
          /\ (stall' = 0 \/ stall' = stall)
      BY <2>3 DEF Rest, TakesReading, InSelect, legVars
    <3>2. QED BY <1>0, <3>1 DEF OfferOK
  <2>4. QED BY <1>6, <2>1, <2>2, <2>3 DEF TakeReading
<1>7. ASSUME NEW h \in Height, TakeTarget(h) PROVE OfferOK'
  <2>1. CASE Repeat(h) \/ Extend(h)
    BY <2>1 DEF Repeat, Extend, timeVars, loopVars, OfferOK
  <2>2. CASE Retarget(h)
    BY <2>2 DEF Retarget, Waits, OfferOK
  <2>3. QED BY <1>7, <2>1, <2>2 DEF TakeTarget
<1>8. CASE WaitFrame \/ WaitReading \/ WaitGap
  BY <1>8 DEF WaitFrame, WaitReading, WaitGap, InWait, Ends, loopVars, OfferOK
<1>9. CASE WaitOver
  <2>1. Latest(to) \in Height /\ mmx10 \in Height
    BY <1>9, LatestIsHeight DEF WaitOver, Base, DeskInv, IInv, TypeOK, Busy
  <2>2. pc' = "done" \/ \E h \in Height : Starts(h)
    BY <1>9, <2>1 DEF WaitOver, AfterLeg, AfterRetarget, Ends
  <2>3. QED BY <1>1, <2>2 DEF OfferOK
<1>10. QED BY <1>2, <1>3, <1>4, <1>5, <1>6, <1>7, <1>8, <1>9 DEF Goroutine

\* A tick finds the offer of the last one dealt with.
LEMMA OfferTicks ==
    ASSUME Base, OfferOK, DeskTick PROVE OfferOK'
<1> SUFFICES ASSUME pc = "select", ~movedYet PROVE OfferOK'
  BY DEF DeskTick, Tick, legVars, loopVars, OfferOK
<1> DEFINE Spent == (offers - 1) * RetargetGap
<1>0. /\ RetargetGap \in Nat /\ StartGrace \in Nat /\ StallTimeout \in Nat
      /\ Spent \in Int /\ offered \in Nat /\ written \in Nat /\ stall \in Nat
  BY TimeAssumption DEF Base, DeskInv, IInv, TypeOK, LoopOK, TimeOK
<1>1. ~offerDue /\ wire = NoHeight
  BY DEF DeskTick, Urgent
<1>2. /\ offered <= Spent + written /\ offered < StartGrace /\ written < RetargetGap
      /\ stall <= offered \/ offered = StartGrace
  BY <1>1 DEF OfferOK
<1>3. /\ written' = written + 1 /\ offered' = offered + 1 /\ stall' <= stall + 1 /\ stall' \in Nat
      /\ UNCHANGED <<offers, wire>>
  BY <1>0, <1>2 DEF DeskTick, Tick, Aged, loopVars
<1>4. offerDue'
  BY DEF DeskTick, Tick
<1>5. offered' <= Spent + written' /\ (stall' <= offered' \/ offered' = StartGrace)
  BY <1>0, <1>2, <1>3
<1>6. QED BY <1>1, <1>3, <1>4, <1>5 DEF OfferOK

\* Every step keeps what it knows.
LEMMA LegStep ==
    ASSUME Base, ClockInv, LegInv, DeskNext, Quiet <= RetargetGap PROVE LegInv'
<1> USE DEF LegInv
<1>1. ASSUME NEW h \in Target, Call(h) PROVE LegInv'
  <2>1. (UNCHANGED legState /\ wire' = wire /\ silence' = silence) \/ MoveStarts(h)
    BY <1>1 DEF Call, Move, MoveWhileMoving, MoveReturns, legState, legVars, timeVars, waitVars,
       loopVars, ctlVars
  <2>2. CASE MoveStarts(h)
    BY <2>2, DeskAssumption DEF MoveStarts, LastOK, TakenOK, OfferOK
  <2>3. CASE UNCHANGED legState /\ wire' = wire /\ silence' = silence
    BY <2>3 DEF legState, LastOK, TakenOK, OfferOK, sameDestination
  <2>4. QED BY <2>1, <2>2, <2>3
<1>2. CASE Hear \/ HearAlarm \/ Drop \/ Receive \/ Lose
  <2>1. UNCHANGED legState
    BY <1>2, Elsewhere
  <2>2. wire' = NoHeight \/ (wire' = wire /\ silence' = silence)
    <3>1. CASE Receive \/ Lose
      <4>1. Transmit
        BY <3>1 DEF Receive, Lose
      <4>2. QED BY <4>1 DEF Transmit
    <3>2. CASE Hear \/ HearAlarm
      BY <3>2 DEF Hear, HearAlarm, DeliverReading, DeliverFrame, vars, loopVars, ctlVars
    <3>3. CASE Drop
      BY <3>3 DEF Drop, vars, loopVars, ctlVars
    <3>4. QED BY <1>2, <3>1, <3>2, <3>3
  <2>3. QED BY <2>1, <2>2 DEF legState, LastOK, TakenOK, OfferOK, sameDestination
<1>3. CASE Run
  BY <1>3, LastRun, TakenRun, OfferRun DEF Run, ctlVars
<1>4. CASE DeskTick
  <2>1. UNCHANGED <<pc, mmx10, next, to, collected, last, movedYet>>
    BY <1>4 DEF DeskTick, Tick, legVars, loopVars
  <2>2. QED BY <1>4, <2>1, OfferTicks DEF LastOK, TakenOK, sameDestination
<1>5. QED BY <1>1, <1>2, <1>3, <1>4 DEF DeskNext

\* So it always does.
LEMMA LegHolds ==
    ASSUME Quiet <= RetargetGap PROVE DeskSpec => []LegInv
<1>1. DeskInit => LegInv
  BY DEF DeskInit, Init, LegInv, LastOK, TakenOK, OfferOK
<1>2. Base /\ ClockInv /\ LegInv /\ [DeskNext]_deskAll => LegInv'
  <2> SUFFICES ASSUME LegInv, UNCHANGED deskAll PROVE LegInv'
    BY LegStep
  <2>1. UNCHANGED legState /\ UNCHANGED <<wire, silence>>
    BY DEF deskAll, vars, legState, legVars, timeVars, waitVars, loopVars, ctlVars
  <2>2. QED BY <2>1 DEF LegInv, legState, LastOK, TakenOK, OfferOK, sameDestination
<1>3. QED BY <1>1, <1>2, BaseHolds, ClockHolds, PTL DEF DeskSpec

-----------------------------------------------------------------------------
(* The loop and the desk in step                                           *)
(*                                                                         *)
(* Where nothing is in the way, no write fails and few enough heights are  *)
(* lost for the offers to outlast them, the loop knows what the desk does. *)

\* The durations are in the order of the code and of simDesk: reports are
\* there before the next tick, the gap is silence enough and more than a tick,
\* a desk left alone runs down before waitReadyForNewTarget gives up on it,
\* and a tick of travel counts as progress (desk/move.go:141-160, 243-254,
\* desk/move_sim_test.go:48-110).
Timely ==
    /\ Lag = 0
    /\ 2 <= RetargetGap /\ Quiet <= RetargetGap
    /\ 2 <= Coast /\ Coast < StopSettle
    /\ ProgressThreshold <= Step

\* The heights the link has lost.
Lost == Losses - losses

\* Nothing was in the way and no write failed; the offers of a move outlast
\* the losses, and one more that comes too early, within the grace.
Undisturbed ==
    /\ blocks = Blocks /\ failures = Failures
    /\ (Lost + 1) * RetargetGap + 1 < StartGrace

Calm == linked /\ Undisturbed

\* The reports the loop is still to take.
Pend == {air[i] : i \in 1..Len(air)} \cup ({readings} \ {NoReading})
Single == air = <<>> \/ (readings = NoReading /\ Len(air) = 1)

\* The only frames are those a halting write provokes, and they are taken
\* while the wait for it still knows of it.
Alarmed(s) ==
    s # <<>> =>
      /\ pc = "ready" /\ halting /\ written = 0 /\ deadline = 0 /\ ~gapPassed
      /\ \A i \in 1..Len(s) : s[i] = "interrupted"

AlarmInv == Alarmed(alarms) /\ Alarmed(errs)

\* The desk travels only in front of a loop that listens, and has nothing to
\* say to any other.
StillInv ==
    /\ motion \in {"rest", "travel"}
    /\ motion = "travel" => pc \in {"select", "ready"} /\ silence < Coast
    /\ pc \notin {"select", "ready"} => Pend = {}

\* In the select loop there is one report at most and it says how the desk is.
Fresh(r) == ~r.recovering /\ r.extension = pos /\ (r.speed = 0 <=> motion = "rest")
InHand == Single /\ \A r \in Pend : Fresh(r)

\* A desk seen moving travels, or its last report is there to be taken.
Moved ==
    movedYet =>
      /\ motion = "rest" => Pend # {} /\ wire = NoHeight
      /\ motion = "travel" /\ Pend = {} => last.extension = pos
      /\ motion = "travel" /\ Pend # {} =>
           abs(pos - last.extension) >= ProgressThreshold

\* One not seen moving has only just begun, on an offer within the grace.
NotMoved ==
    ~movedYet =>
      /\ motion = "travel" /\ Pend = {} => silence = 0 /\ offered + 1 < StartGrace
      /\ Pend # {} => silence <= 1 /\ offered < StartGrace
      /\ Pend # {} /\ motion = "rest" => pos = mmx10
      /\ motion = "rest" /\ ~sameDestination(pos, mmx10) =>
           offers <= Lost + 2 /\ (wire = NoHeight => offers <= Lost + 1)

\* It goes where the loop wants it, the stall timer never gets near a desk
\* that travels, and only losses keep it from hearing its target every tick.
Course ==
    /\ motion = "travel" => heading = mmx10
    /\ motion = "travel" /\ Pend = {} => stall < StartGrace
    /\ Pend # {} => stall <= StartGrace
    /\ motion = "travel" => silence <= Lost + 1
    /\ motion = "travel" /\ Pend = {} /\ wire = NoHeight => silence <= Lost

SelectInv == pc = "select" => InHand /\ Moved /\ NotMoved /\ Course

\* waitReadyForNewTarget takes a travelling desk for one at rest only for as
\* long as the gap cannot pass, and the desk runs down before it gives up.
Waiting ==
    /\ Single \/ written = 0
    /\ \A r \in Pend : ~r.recovering /\ (r.speed = 0 /\ motion = "travel" => written = 0)
    /\ motion = "travel" => deadline <= silence
    /\ Pend # {} => deadline <= Coast
    /\ atRest /\ Pend # {} => written <= 1
    /\ atRest /\ Pend = {} /\ motion = "travel" => written = 0
    /\ atRest /\ motion = "travel" => written <= 1
    /\ legEnd # NoHeight => motion = "rest" /\ pos = legEnd /\ Pend = {} /\ ~halting

ReadyInv == pc = "ready" => Waiting

\* A move that finished left the desk at rest where the newest target was.
EndInv == pc = "done" /\ outcome = "finished" => motion = "rest" /\ Near(collected)

\* Without the halting writes of the experiment nothing halts the desk.
HaltInv == HaltOnRetarget \/ halts = 0

StepInvs == AlarmInv /\ StillInv /\ SelectInv /\ ReadyInv /\ EndInv /\ HaltInv

\* What the facts so far say of every step.
Facts == Base /\ ClockInv /\ LegInv

stepState == <<pc, mmx10, movedYet, last, written, offered, stall, offers, readings, errs, wire,
               deadline, halting, atRest, gapPassed, legEnd,
               pos, heading, motion, silence, halts, air, alarms, losses>>

-----------------------------------------------------------------------------
(* Reports on their way *)

\* None is on its way.
LEMMA PendNone ==
    ASSUME Base
    PROVE  /\ Pend = {} <=> air = <<>> /\ readings = NoReading
           /\ Pend \subseteq Reading
<1>0. air \in Seq(Reading) /\ readings \in Slot(Reading, NoReading)
  BY DEF Base, DeskInv, AirOK, IInv, TypeOK, LoopOK
<1>1. Pend \subseteq Reading
  BY <1>0 DEF Pend, Slot
<1>2. air = <<>> /\ readings = NoReading => Pend = {}
  BY DEF Pend
<1>3. air # <<>> => air[1] \in Pend
  <2>1. air # <<>> => 1 \in 1..Len(air)
    BY <1>0
  <2>2. QED BY <2>1 DEF Pend
<1>4. readings # NoReading => readings \in Pend
  BY DEF Pend
<1>5. QED BY <1>1, <1>2, <1>3, <1>4

\* The oldest or a younger one gets to the loop, over one that was there.
LEMMA PendHear ==
    ASSUME Base, NEW i \in 1..Len(air), air' = Without(air, i), readings' = air[i]
    PROVE  /\ Pend' \subseteq Pend /\ Pend' # {} /\ Pend # {}
           /\ Single => Single'
<1>0. air \in Seq(Reading)
  BY DEF Base, DeskInv, AirOK
<1>1. \A k \in 1..Len(air') : \E j \in 1..Len(air) : air'[k] = air[j]
  BY <1>0, StaysOnAir
<1>2. air[i] \in Reading /\ air[i] \in Pend
  BY <1>0 DEF Pend
<1>3. readings' \in Pend'
  BY <1>2, NoReadingAssumption DEF Pend
<1>4. Pend' \subseteq Pend
  BY <1>1, <1>2 DEF Pend
<1>5. ASSUME Single PROVE Single'
  <2>1. air # <<>> /\ Len(air) \in Nat
    BY <1>0
  <2>2. Len(air') = 0 /\ air' \in Seq(Reading)
    BY <1>0, <1>5, <2>1, OneLess DEF Single
  <2>3. QED BY <2>2 DEF Single
<1>6. QED BY <1>2, <1>3, <1>4, <1>5

\* The loop takes one.
LEMMA PendTake ==
    ASSUME Base, readings # NoReading, readings' = NoReading, air' = air
    PROVE  /\ Pend' \subseteq Pend /\ readings \in Pend
           /\ Single => Pend' = {} /\ Single'
<1>1. Pend' \subseteq Pend /\ readings \in Pend
  BY DEF Pend
<1>2. Single => air' = <<>>
  BY DEF Single
<1>3. Single => Pend' = {}
  BY <1>2 DEF Pend
<1>4. QED BY <1>1, <1>2, <1>3 DEF Single

\* The desk reports.
LEMMA PendReport ==
    ASSUME Base, NEW r \in Reading, air' = Append(air, r), readings' = readings
    PROVE  /\ Pend' = Pend \cup {r} /\ Pend' # {}
           /\ Pend = {} => Single' /\ Pend' = {r}
<1>0. air \in Seq(Reading) /\ Len(air) \in Nat
  BY DEF Base, DeskInv, AirOK
<1>1. /\ Len(air') = Len(air) + 1 /\ air'[Len(air) + 1] = r
      /\ \A i \in 1..Len(air) : air'[i] = air[i]
  BY <1>0
<1>2. 1..Len(air') = 1..Len(air) \cup {Len(air) + 1}
  BY <1>0, <1>1
<1>3. {air'[i] : i \in 1..Len(air')} = {air[i] : i \in 1..Len(air)} \cup {r}
  BY <1>1, <1>2
<1>4. Pend' = Pend \cup {r}
  BY <1>3 DEF Pend
<1>5. Pend = {} => Single'
  <2>1. Pend = {} => air = <<>> /\ readings = NoReading
    BY PendNone
  <2>2. Pend = {} => Len(air') = 1
    BY <1>1, <2>1
  <2>3. QED BY <2>1, <2>2 DEF Single
<1>6. QED BY <1>4, <1>5

\* Neither the air nor the loop's slot changes.
LEMMA PendSame ==
    ASSUME UNCHANGED <<air, readings>>
    PROVE  Pend' = Pend /\ (Single' <=> Single)
BY DEF Pend, Single

-----------------------------------------------------------------------------
(* The steps *)

\* Every clock is a number in its range.
LEMMA Numbers ==
    ASSUME Base
    PROVE  /\ pos \in Int /\ heading \in Int /\ silence \in 0..Longest /\ silence \in Nat
           /\ written \in 0..RetargetGap /\ written \in Nat /\ offered \in 0..StartGrace
           /\ offered \in Nat /\ stall \in 0..StallTimeout /\ stall \in Nat
           /\ deadline \in 0..StopSettle /\ deadline \in Nat /\ offers \in Nat
           /\ RetargetGap \in Nat /\ StartGrace \in Nat /\ StallTimeout \in Nat
           /\ StopSettle \in Nat /\ RetargetGap > 0 /\ StartGrace > 0
           /\ StartGrace < StallTimeout /\ RetargetGap < StopSettle
           /\ Lost \in Nat /\ losses \in Nat /\ ProgressThreshold \in Nat /\ ArrivalTolerance \in Nat
<1>1. pos \in Int /\ heading \in Int
  BY HeightAssumption DEF Base, DeskInv, AirOK
<1>2. silence \in 0..Longest /\ silence \in Nat /\ losses \in Nat /\ Lost \in Nat
  BY Durations DEF Base, DeskTypes, Lost
<1>3. /\ RetargetGap \in Nat /\ StartGrace \in Nat /\ StallTimeout \in Nat
      /\ StopSettle \in Nat /\ RetargetGap > 0 /\ StartGrace > 0
      /\ StartGrace < StallTimeout /\ RetargetGap < StopSettle
  BY TimeAssumption
<1>4. /\ written \in 0..RetargetGap /\ offered \in 0..StartGrace /\ stall \in 0..StallTimeout
      /\ deadline \in 0..StopSettle /\ offers \in Nat
  BY DEF Base, DeskInv, IInv, TypeOK, TimeOK, WaitOK, LoopOK
<1>5. QED BY <1>1, <1>2, <1>3, <1>4, HeightAssumption

\* A step of no consequence here.
LEMMA StepSame ==
    ASSUME StepInvs, UNCHANGED stepState, EndInv' PROVE StepInvs'
<1> USE DEF StepInvs, stepState
<1>1. Pend' = Pend /\ (Single' <=> Single) /\ Lost' = Lost
  BY PendSame DEF Lost
<1>2. AlarmInv'
  BY DEF AlarmInv, Alarmed
<1>3. StillInv'
  BY <1>1 DEF StillInv
<1>4. SelectInv'
  <2>1. \A r : Fresh(r)' <=> Fresh(r)
    BY DEF Fresh
  <2>2. InHand' <=> InHand
    BY <1>1, <2>1 DEF InHand
  <2>3. (Moved' <=> Moved) /\ (NotMoved' <=> NotMoved) /\ (Course' <=> Course)
    BY <1>1 DEF Moved, NotMoved, Course, sameDestination, abs
  <2>4. QED BY <2>2, <2>3 DEF SelectInv
<1>5. ReadyInv'
  BY <1>1 DEF ReadyInv, Waiting
<1>6. HaltInv'
  BY DEF HaltInv
<1>7. QED BY <1>2, <1>3, <1>4, <1>5, <1>6

\* Losing one more height makes the offers take no less.
LEMMA LessLost ==
    ASSUME Base, losses' = losses - 1, losses > 0, (Lost' + 1) * RetargetGap + 1 < StartGrace
    PROVE  (Lost + 1) * RetargetGap + 1 < StartGrace /\ Lost' = Lost + 1
<1>1. Lost \in Nat /\ RetargetGap \in Nat /\ StartGrace \in Nat /\ Losses \in Nat /\ losses \in Nat
  BY Numbers, Durations
<1>2. Lost' = Lost + 1
  BY <1>1 DEF Lost
<1> DEFINE n == Lost + 2
           m == (Lost + 1) * RetargetGap
<1>3. n \in Nat /\ n > 0 /\ n - 1 = Lost + 1 /\ Lost' + 1 = n
  BY <1>1, <1>2
<1>4. (n - 1) * RetargetGap + RetargetGap = n * RetargetGap
  BY <1>3, OneMoreGap
<1>5. m + RetargetGap = (Lost' + 1) * RetargetGap /\ m \in Int
  BY <1>1, <1>3, <1>4
<1> HIDE DEF m
<1>6. m + RetargetGap + 1 < StartGrace
  BY <1>1, <1>5
<1>7. m + 1 < StartGrace
  BY <1>1, <1>5, <1>6
<1>8. QED BY <1>2, <1>7 DEF m

\* What is undisturbed after a step was so before it.
LEMMA WasUndisturbed ==
    ASSUME Base, DeskNext, Undisturbed'
    PROVE  /\ Undisturbed /\ UNCHANGED <<blocks, failures>>
           /\ (losses' = losses \/ (losses' = losses - 1 /\ losses > 0 /\ Lost' = Lost + 1))
<1> USE DEF Undisturbed
<1>0. /\ blocks \in Nat /\ blocks <= Blocks /\ failures \in Nat /\ failures <= Failures
      /\ Blocks \in Nat /\ Failures \in Nat
  BY Durations DEF Base, DeskTypes
<1>1. ASSUME UNCHANGED <<losses, blocks, failures>>
      PROVE  Undisturbed /\ UNCHANGED <<blocks, failures>> /\ losses' = losses
  BY <1>1 DEF Lost
<1>2. ASSUME NEW h \in Target, Call(h) PROVE UNCHANGED <<losses, blocks, failures>>
  BY <1>2 DEF Call
<1>3. CASE Hear \/ HearAlarm \/ Receive
  BY <1>1, <1>3 DEF Hear, HearAlarm, Receive, bounds
<1>4. CASE Run
  <2>1. failures' = failures
    BY <1>0, <1>4 DEF Run
  <2>2. QED BY <1>1, <1>4, <2>1 DEF Run
<1>5. CASE Lose
  <2>1. CASE linked
    BY <1>5, <2>1, LessLost DEF Lose
  <2>2. CASE ~linked
    BY <1>1, <1>5, <2>2 DEF Lose
  <2>3. QED BY <2>1, <2>2
<1>6. CASE Drop
  BY <1>1, <1>6 DEF Drop
<1>7. CASE DeskTick
  <2>1. blocks' = blocks
    BY <1>0, <1>7 DEF DeskTick, RunDown, Travel, StopShort, Collide, BackAway
  <2>2. QED BY <1>1, <1>7, <2>1 DEF DeskTick
<1>8. QED BY <1>1, <1>2, <1>3, <1>4, <1>5, <1>6, <1>7 DEF DeskNext

\* Someone asks.
LEMMA CallKeeps ==
    ASSUME Facts, StepInvs, NEW h \in Target, Call(h) PROVE StepInvs'
<1>1. CASE MoveWhileMoving(h) \/ MoveReturns
  <2>1. UNCHANGED stepState
    BY <1>1 DEF Call, MoveWhileMoving, MoveReturns, stepState, legVars, timeVars, waitVars, loopVars,
       ctlVars, linkVars
  <2>2. EndInv'
    BY <1>1, <2>1 DEF MoveWhileMoving, MoveReturns, StepInvs, EndInv, Near, abs, stepState, legVars,
       loopVars
  <2>3. QED BY <2>1, <2>2, StepSame
<1>2. CASE MoveStarts(h)
  <2>1. pc = "idle" /\ pc' = "watch"
    BY <1>2 DEF MoveStarts, Facts, ClockInv, MovingOK
  <2>2. UNCHANGED <<motion, silence, halts, air, alarms, errs, deadline, halting, written, gapPassed>>
        /\ readings' = NoReading
    BY <1>2 DEF MoveStarts, Call, ctlVars, linkVars, timeVars, waitVars
  <2>3. Pend = {} /\ motion = "rest"
    BY <2>1 DEF StepInvs, StillInv
  <2>4. air = <<>> /\ readings = NoReading
    BY <2>3, PendNone DEF Facts
  <2>5. Pend' = {}
    BY <2>2, <2>3, <2>4, PendSame
  <2>6. AlarmInv'
    BY <2>1, <2>2 DEF StepInvs, AlarmInv, Alarmed
  <2>7. StillInv' /\ HaltInv'
    BY <2>1, <2>2, <2>3, <2>5 DEF StepInvs, StillInv, HaltInv
  <2>8. QED BY <2>1, <2>6, <2>7 DEF StepInvs, SelectInv, ReadyInv, EndInv
<1>3. QED BY <1>1, <1>2 DEF Call, Move

\* A report gets to the loop.
LEMMA HearKeeps ==
    ASSUME Facts, StepInvs, Hear, linked PROVE StepInvs'
<1>1. PICK i \in 1..Len(air) : DeliverReading(air[i]) /\ air' = Without(air, i)
  BY DEF Hear
<1>2. air # <<>>
  BY <1>1
<1>3. pc \in {"select", "ready"}
  BY <1>2, PendNone DEF StepInvs, StillInv, Facts
<1>4. readings' = air[i]
  BY <1>1, <1>3 DEF DeliverReading
<1>5. Pend' \subseteq Pend /\ Pend' # {} /\ Pend # {} /\ (Single => Single')
  BY <1>1, <1>4, PendHear DEF Facts
<1>6. UNCHANGED <<pc, mmx10, movedYet, last, written, offered, stall, offers, errs, wire,
                  deadline, halting, atRest, gapPassed, legEnd, collected, outcome,
                  pos, heading, motion, silence, halts, alarms, losses>>
  BY <1>1 DEF Hear, DeliverReading, legVars, timeVars, waitVars, ctlVars, bounds
<1> USE DEF StepInvs
<1>7. AlarmInv' /\ StillInv' /\ EndInv' /\ HaltInv'
  BY <1>3, <1>6 DEF AlarmInv, Alarmed, StillInv, EndInv, HaltInv, Near, abs
<1>8. CASE pc = "select"
  <2>1. \A r : Fresh(r)' <=> Fresh(r)
    BY <1>6 DEF Fresh
  <2>2. InHand'
    BY <1>5, <1>8, <2>1 DEF SelectInv, InHand
  <2>3. Lost' = Lost
    BY <1>6 DEF Lost
  <2>4. Moved' /\ NotMoved' /\ Course'
    BY <1>5, <1>6, <1>8, <2>3 DEF SelectInv, Moved, NotMoved, Course, sameDestination, abs
  <2>5. QED BY <1>6, <1>7, <1>8, <2>2, <2>4 DEF SelectInv, ReadyInv
<1>9. CASE pc = "ready"
  <2>1. Waiting'
    BY <1>5, <1>6, <1>9 DEF ReadyInv, Waiting
  <2>2. QED BY <1>6, <1>7, <1>9, <2>1 DEF SelectInv, ReadyInv
<1>10. QED BY <1>3, <1>8, <1>9

\* So does a frame.
LEMMA FrameKeeps ==
    ASSUME Facts, StepInvs, HearAlarm, linked PROVE StepInvs'
<1>1. alarms # <<>> /\ DeliverFrame(Head(alarms)) /\ alarms' = Tail(alarms)
  BY DEF HearAlarm
<1>2. alarms \in Seq(Frame) /\ errs \in Seq(Frame)
  BY DEF Facts, Base, DeskInv, AirOK, IInv, TypeOK, LoopOK
<1>3. UNCHANGED <<pc, mmx10, movedYet, last, written, offered, stall, offers, readings, wire,
                  deadline, halting, atRest, gapPassed, legEnd, collected, outcome,
                  pos, heading, motion, silence, halts, air, losses>>
  BY <1>1 DEF HearAlarm, DeliverFrame, legVars, timeVars, waitVars, ctlVars, bounds
<1> USE DEF StepInvs
<1>4. /\ pc = "ready" /\ halting /\ written = 0 /\ deadline = 0 /\ ~gapPassed
      /\ \A i \in 1..Len(alarms) : alarms[i] = "interrupted"
      /\ \A i \in 1..Len(errs) : errs[i] = "interrupted"
  BY <1>1, <1>2 DEF AlarmInv, Alarmed
<1>5. \A i \in 1..Len(alarms') : alarms'[i] = "interrupted"
  <2>1. Len(alarms') = Len(alarms) - 1 /\ \A i \in 1..Len(alarms') : alarms'[i] = alarms[i + 1]
    BY <1>1, <1>2
  <2>2. Len(alarms) \in Nat /\ \A i \in 1..Len(alarms) - 1 : i + 1 \in 1..Len(alarms)
    BY <1>2
  <2>3. QED BY <1>4, <2>1, <2>2
<1>6. \A i \in 1..Len(errs') : errs'[i] = "interrupted"
  <2>1. CASE errs' = errs
    BY <1>4, <2>1
  <2>2. CASE errs' = Append(errs, Head(alarms))
    <3>1. Head(alarms) = "interrupted"
      <4>1. Head(alarms) = alarms[1] /\ 1 \in 1..Len(alarms)
        BY <1>1, <1>2
      <4>2. QED BY <1>4, <4>1
    <3>2. errs' = Append(errs, "interrupted") /\ Len(errs) \in Nat
      BY <1>2, <2>2, <3>1
    <3>3. \A i \in 1..Len(errs) + 1 : i \in 1..Len(errs) \/ i = Len(errs) + 1
      BY <3>2
    <3>4. /\ Len(errs') = Len(errs) + 1 /\ errs'[Len(errs) + 1] = "interrupted"
          /\ \A i \in 1..Len(errs) : errs'[i] = errs[i]
      BY <1>2, <3>2
    <3>5. QED BY <1>4, <3>3, <3>4
  <2>3. QED BY <1>1, <2>1, <2>2 DEF DeliverFrame
<1>7. AlarmInv'
  BY <1>3, <1>4, <1>5, <1>6 DEF AlarmInv, Alarmed
<1>8. Pend' = Pend /\ (Single' <=> Single)
  BY <1>3, PendSame
<1>9. StillInv' /\ HaltInv' /\ ReadyInv'
  BY <1>3, <1>8 DEF StillInv, HaltInv, ReadyInv, Waiting
<1>10. QED BY <1>3, <1>4, <1>7, <1>9 DEF SelectInv, EndInv

\* More gaps take longer.
LEMMA MoreGaps ==
    ASSUME NEW a \in Int, NEW b \in Int, a <= b PROVE a * RetargetGap <= b * RetargetGap
<1> DEFINE d == b - a
<1>1. d \in Nat /\ RetargetGap \in Nat /\ b = a + d
  BY TimeAssumption
<1>2. (a + d) * RetargetGap = a * RetargetGap + d * RetargetGap
  BY <1>1
<1>3. d * RetargetGap \in Nat /\ a * RetargetGap \in Int
  BY <1>1
<1>4. QED BY <1>1, <1>2, <1>3

\* One more frame of a halting write.
LEMMA OneMoreFrame ==
    ASSUME NEW s \in Seq(Frame), \A i \in 1..Len(s) : s[i] = "interrupted"
    PROVE  \A i \in 1..Len(Append(s, "interrupted")) : Append(s, "interrupted")[i] = "interrupted"
<1>1. Len(s) \in Nat /\ Len(Append(s, "interrupted")) = Len(s) + 1
  BY DEF Frame
<1>2. \A i \in 1..Len(s) + 1 : i \in 1..Len(s) \/ i = Len(s) + 1
  BY <1>1
<1>3. /\ Append(s, "interrupted")[Len(s) + 1] = "interrupted"
      /\ \A i \in 1..Len(s) : Append(s, "interrupted")[i] = s[i]
  BY <1>1
<1>4. QED BY <1>1, <1>2, <1>3

\* The desk begins to travel within the grace.
LEMMA BeginsInTime ==
    ASSUME Facts, StepInvs, Undisturbed, pc = "select", wire # NoHeight, motion = "rest",
           Heard(wire)
    PROVE  /\ wire = mmx10 /\ ~movedYet /\ Pend = {}
           /\ offered + 1 < StartGrace /\ stall < StartGrace
<1> USE DEF StepInvs, SelectInv
<1>0. wire = mmx10 /\ written = 0 /\ mmx10 \in Int
  BY HeightAssumption DEF Facts, ClockInv, WireOK, Base, DeskInv, IInv, Busy
<1>1. ~movedYet
  BY DEF Moved
<1>2. abs(mmx10 - pos) > ArrivalTolerance
  BY <1>0 DEF Heard
<1>3. pos # mmx10 /\ ~sameDestination(pos, mmx10)
  <2>1. pos \in Int /\ ArrivalTolerance \in Nat
    BY Numbers DEF Facts
  <2>2. QED BY <1>0, <1>2, <2>1 DEF abs, sameDestination
<1>4. Pend = {}
  BY <1>1, <1>3 DEF NotMoved
<1>5. offers <= Lost + 2
  BY <1>1, <1>3 DEF NotMoved
<1>6. offered <= (offers - 1) * RetargetGap + written /\ (stall <= offered \/ offered = StartGrace)
  BY <1>1 DEF Facts, LegInv, OfferOK
<1>7. offered + 1 < StartGrace
  <2> DEFINE x == (offers - 1) * RetargetGap
             y == (Lost + 1) * RetargetGap
  <2>1. offers - 1 \in Int /\ Lost + 1 \in Int /\ offers - 1 <= Lost + 1 /\ offered \in Nat
        /\ RetargetGap \in Nat /\ StartGrace \in Nat
    BY <1>5, Numbers DEF Facts
  <2>2. x <= y
    BY <2>1, MoreGaps
  <2>3. x \in Int /\ y \in Int
    BY <2>1
  <2>4. offered <= x + written /\ y + 1 < StartGrace
    BY <1>6 DEF Undisturbed
  <2> HIDE DEF x, y
  <2>5. QED BY <1>0, <2>1, <2>2, <2>3, <2>4
<1>8. stall < StartGrace
  BY <1>6, <1>7, Numbers DEF Facts
<1>9. QED BY <1>0, <1>1, <1>4, <1>7, <1>8

\* A height reaches the desk in the select loop.
LEMMA ReceiveSelect ==
    ASSUME Facts, StepInvs, Receive, Undisturbed, pc = "select" PROVE StepInvs'
<1> USE DEF StepInvs
<1>0. /\ wire # NoHeight /\ wire' = NoHeight /\ silence' = 0
      /\ UNCHANGED <<pc, mmx10, movedYet, last, written, offered, stall, offers, readings, errs,
                     deadline, halting, atRest, gapPassed, legEnd, collected, outcome, losses>>
  BY DEF Receive, Transmit, legVars, timeVars, waitVars, bounds
<1>1. wire = mmx10 /\ written = 0
  BY <1>0 DEF Facts, ClockInv, WireOK
<1>2. Lost' = Lost /\ Lost \in Nat /\ 0 < Coast
  BY <1>0, Numbers, Durations DEF Facts, Lost
<1>3. ASSUME UNCHANGED <<pos, air, alarms, halts>>
      PROVE  /\ AlarmInv' /\ EndInv' /\ HaltInv' /\ ReadyInv'
             /\ Pend' = Pend /\ (Single' <=> Single)
  BY <1>0, <1>3, PendSame DEF AlarmInv, Alarmed, EndInv, HaltInv, ReadyInv
<1>4. CASE Sustained(wire)
  <2>1. UNCHANGED <<pos, heading, motion, air, alarms, halts>> /\ motion = "travel"
    BY <1>4 DEF Sustained
  <2>2. StillInv'
    BY <1>0, <1>2, <1>3, <2>1 DEF StillInv
  <2>3. \A r : Fresh(r)' <=> Fresh(r)
    BY <2>1 DEF Fresh
  <2>4. InHand' /\ Moved'
    BY <1>0, <1>3, <2>1, <2>3 DEF SelectInv, InHand, Moved, abs
  <2>5. NotMoved' /\ Course'
    BY <1>0, <1>2, <1>3, <2>1 DEF SelectInv, NotMoved, Course
  <2>6. QED BY <1>3, <2>1, <2>2, <2>4, <2>5 DEF SelectInv
<1>5. CASE Halted(wire)
  BY <1>1, <1>5 DEF Halted, SelectInv, Course
<1>6. CASE Begun(wire)
  <2>1. /\ motion = "rest" /\ motion' = "travel" /\ heading' = mmx10
        /\ UNCHANGED <<pos, halts, air, alarms>>
    BY <1>1, <1>6 DEF Begun, Heard
  <2>2. ~movedYet /\ Pend = {} /\ offered + 1 < StartGrace /\ stall < StartGrace
    BY <1>0, <1>6, <2>1, BeginsInTime DEF Begun
  <2>3. StillInv'
    BY <1>0, <1>2, <1>3, <2>1 DEF StillInv
  <2>4. InHand' /\ Moved' /\ NotMoved' /\ Course'
    BY <1>0, <1>2, <1>3, <2>1, <2>2 DEF SelectInv, InHand, Moved, NotMoved, Course
  <2>5. QED BY <1>3, <2>1, <2>3, <2>4 DEF SelectInv
<1>7. CASE NotHeard(wire)
  <2>1. motion = "rest" /\ UNCHANGED <<pos, heading, motion, air, alarms, halts>> /\ ~Heard(mmx10)
    BY <1>1, <1>7 DEF NotHeard, StillInv
  <2>2. ~movedYet
    BY <1>0, <2>1 DEF SelectInv, Moved
  <2>3. ~sameDestination(pos, mmx10) => offers <= 1
    <3>1. pos \in Int /\ mmx10 \in Int /\ ArrivalTolerance \in Nat
      BY Numbers, HeightAssumption DEF Facts, Base, DeskInv, IInv, Busy
    <3>2. ~sameDestination(pos, mmx10) => abs(mmx10 - pos) > ArrivalTolerance
      BY <3>1 DEF sameDestination, abs
    <3>3. QED BY <1>0, <2>1, <2>2, <3>2 DEF Heard, Facts, LegInv, OfferOK
  <2>4. \A r : Fresh(r)' <=> Fresh(r)
    BY <2>1 DEF Fresh
  <2>5. InHand' /\ Moved' /\ Course'
    BY <1>0, <1>2, <1>3, <2>1, <2>2, <2>4 DEF SelectInv, InHand, Moved, Course
  <2>6. NotMoved'
    <3>1. offers \in Nat
      BY Numbers DEF Facts
    <3>2. ~sameDestination(pos, mmx10) => offers <= Lost + 1 /\ offers <= Lost + 2
      BY <1>2, <2>3, <3>1
    <3>3. QED BY <1>0, <1>2, <1>3, <2>1, <3>2 DEF SelectInv, NotMoved, sameDestination
  <2>7. StillInv'
    BY <1>0, <1>3, <2>1 DEF StillInv
  <2>8. QED BY <1>3, <2>1, <2>5, <2>6, <2>7 DEF SelectInv
<1>8. QED BY <1>4, <1>5, <1>6, <1>7 DEF Receive

\* The halting write reaches it.
LEMMA ReceiveReady ==
    ASSUME Facts, StepInvs, Receive, pc = "ready" PROVE StepInvs'
<1> USE DEF StepInvs
<1>0. /\ wire # NoHeight /\ wire' = NoHeight /\ silence' = 0
      /\ UNCHANGED <<pc, mmx10, movedYet, last, written, offered, stall, offers, readings, errs,
                     deadline, halting, atRest, gapPassed, legEnd, collected, outcome, losses>>
  BY DEF Receive, Transmit, legVars, timeVars, waitVars, bounds
<1>1. HaltOnRetarget /\ halting /\ written = 0 /\ deadline = 0 /\ ~gapPassed
  BY <1>0 DEF Facts, ClockInv, WireOK
<1>2. 0 < Coast /\ 0 <= Coast /\ legEnd = NoHeight
  BY <1>1, Durations DEF ReadyInv, Waiting
<1>3. HaltInv' /\ SelectInv' /\ EndInv'
  BY <1>0, <1>1 DEF HaltInv, SelectInv, EndInv
<1>4. ASSUME UNCHANGED <<air, alarms>>, motion' \in {"rest", "travel"} PROVE StepInvs'
  <2>1. Pend' = Pend /\ (Single' <=> Single)
    BY <1>0, <1>4, PendSame
  <2>2. AlarmInv'
    BY <1>0, <1>4 DEF AlarmInv, Alarmed
  <2>3. StillInv'
    BY <1>0, <1>2, <1>4, <2>1 DEF StillInv
  <2>4. ReadyInv'
    BY <1>0, <1>1, <1>2, <2>1 DEF ReadyInv, Waiting
  <2>5. QED BY <1>3, <2>2, <2>3, <2>4
<1>5. CASE Halted(wire)
  <2>0. Report(pos, 0) \in Reading
    BY ReportIsReading DEF Facts, Base, DeskInv, AirOK
  <2>1. /\ motion' = "rest" /\ air' = Append(air, Report(pos, 0))
        /\ alarms' = Append(alarms, "interrupted")
    BY <1>5 DEF Halted, AtRest
  <2>2. Pend' = Pend \cup {Report(pos, 0)}
    BY <1>0, <2>0, <2>1, PendReport DEF Facts
  <2>3. ~Report(pos, 0).recovering
    BY DEF Report
  <2>4. ReadyInv'
    <3>1. \A r \in Pend' : ~r.recovering
      BY <2>2, <2>3 DEF ReadyInv, Waiting
    <3>2. motion' # "travel" /\ written' = 0 /\ deadline' = 0 /\ legEnd' = NoHeight
      BY <1>0, <1>1, <1>2, <2>1
    <3>3. QED BY <1>2, <3>1, <3>2 DEF ReadyInv, Waiting
  <2>5. AlarmInv'
    <3>1. alarms \in Seq(Frame)
      BY DEF Facts, Base, DeskInv, AirOK
    <3>2. \A i \in 1..Len(alarms) : alarms[i] = "interrupted"
      <4>1. CASE alarms = <<>>
        BY <4>1
      <4>2. CASE alarms # <<>>
        BY <4>2 DEF AlarmInv, Alarmed
      <4>3. QED BY <4>1, <4>2
    <3>3. \A i \in 1..Len(alarms') : alarms'[i] = "interrupted"
      BY <2>1, <3>1, <3>2, OneMoreFrame
    <3>4. QED BY <1>0, <1>1, <3>3 DEF AlarmInv, Alarmed
  <2>6. StillInv'
    BY <1>0, <2>1 DEF StillInv
  <2>7. QED BY <1>3, <2>4, <2>5, <2>6
<1>6. CASE Sustained(wire) \/ Begun(wire) \/ NotHeard(wire)
  <2>1. UNCHANGED <<air, alarms>> /\ motion' \in {"rest", "travel"}
    BY <1>6 DEF Sustained, Begun, NotHeard, StillInv
  <2>2. QED BY <1>4, <2>1
<1>7. QED BY <1>5, <1>6 DEF Receive

\* The link loses a height.
LEMMA LoseKeeps ==
    ASSUME Facts, StepInvs, Lose, Lost' = Lost + 1 PROVE StepInvs'
<1> USE DEF StepInvs
<1>0. /\ wire # NoHeight /\ wire' = NoHeight
      /\ UNCHANGED <<pc, mmx10, movedYet, last, written, offered, stall, offers, readings, errs,
                     deadline, halting, atRest, gapPassed, legEnd, collected, outcome,
                     pos, heading, motion, silence, halts, air, alarms>>
  BY DEF Lose, Transmit, legVars, timeVars, waitVars, ctlVars, linkVars
<1>1. Pend' = Pend /\ (Single' <=> Single)
  BY <1>0, PendSame
<1>2. Lost \in Nat /\ silence \in Nat /\ offers \in Nat
  BY Numbers DEF Facts
<1>3. AlarmInv' /\ StillInv' /\ ReadyInv' /\ EndInv' /\ HaltInv'
  BY <1>0, <1>1 DEF AlarmInv, Alarmed, StillInv, ReadyInv, Waiting, EndInv, HaltInv, Near, abs
<1>4. \A r : Fresh(r)' <=> Fresh(r)
  BY <1>0 DEF Fresh
<1>5. ASSUME pc = "select" PROVE InHand' /\ Moved' /\ NotMoved' /\ Course'
  <2>1. InHand' /\ Moved'
    BY <1>0, <1>1, <1>4, <1>5 DEF SelectInv, InHand, Moved, abs
  <2>2. NotMoved'
    BY <1>0, <1>1, <1>2, <1>5 DEF SelectInv, NotMoved, sameDestination, abs
  <2>3. Course'
    BY <1>0, <1>1, <1>2, <1>5 DEF SelectInv, Course
  <2>4. QED BY <2>1, <2>2, <2>3
<1>6. QED BY <1>0, <1>3, <1>5 DEF SelectInv

\* Where a tick takes a desk that nothing stops: a step on, or to the end of
\* its way, or to rest if it has been left alone for too long.
LEMMA TravelTick ==
    ASSUME Base, Timely, DeskTick, motion = "travel", blocks' = blocks
    PROVE  \E r \in Reading :
             /\ air' = Append(air, r) /\ alarms' = alarms /\ heading' = heading
             /\ ~r.recovering /\ r.extension = pos' /\ (r.speed = 0 <=> motion' = "rest")
             /\ motion' \in {"rest", "travel"}
             /\ motion' = "travel" => /\ silence + 1 < Coast
                                      /\ abs(pos' - pos) >= ProgressThreshold
             /\ motion' = "rest" /\ silence + 1 < Coast => pos' = heading
<1>0. pos \in Height /\ heading \in Height /\ pos \in Int /\ heading \in Int /\ blocks \in Nat
      /\ Step \in Nat /\ Coast \in Nat /\ silence \in Nat /\ ProgressThreshold \in Nat
      /\ ProgressThreshold <= Step
  BY Numbers, Durations DEF Base, DeskInv, AirOK, DeskTypes, Timely
<1>1. ASSUME NEW at \in Height, AtRest(at)
      PROVE  /\ Report(at, 0) \in Reading /\ air' = Append(air, Report(at, 0))
             /\ ~Report(at, 0).recovering /\ Report(at, 0).extension = pos'
             /\ Report(at, 0).speed = 0 /\ motion' = "rest" /\ pos' = at
  BY <1>1, ReportIsReading DEF AtRest, Report
<1>2. CASE RunDown
  <2>1. silence + 1 >= Coast /\ AtRest(pos) /\ UNCHANGED <<heading, alarms>>
    BY <1>2 DEF RunDown
  <2>2. ~(silence + 1 < Coast)
    BY <1>0, <2>1
  <2>3. QED BY <1>0, <1>1, <2>1, <2>2
<1>3. CASE Travel
  <2>1. silence + 1 < Coast /\ UNCHANGED <<heading, alarms>>
    BY <1>3 DEF Travel
  <2>2. CASE Toward = heading
    <3>1. AtRest(heading)
      BY <1>3, <2>2 DEF Travel
    <3>2. QED BY <1>0, <1>1, <2>1, <3>1
  <2>3. CASE Toward # heading
    <3>1. /\ pos' = Toward /\ motion' = motion
          /\ air' = Append(air, Report(Toward, sign(heading - pos)))
      BY <1>3, <2>3 DEF Travel
    <3>2. ~(abs(heading - pos) <= Step) /\ Toward = pos + sign(heading - pos) * Step
      BY <2>3 DEF Toward
    <3>3. sign(heading - pos) \in {-1, 1}
      BY <1>0, <3>2 DEF abs, sign
    <3>4. abs(Toward - pos) >= ProgressThreshold
      <4>1. CASE sign(heading - pos) = 1
        <5>1. Toward = pos + Step
          BY <1>0, <3>2, <4>1
        <5>2. QED BY <1>0, <5>1 DEF abs
      <4>2. CASE sign(heading - pos) = -1
        <5>1. Toward = pos - Step
          BY <1>0, <3>2, <4>2
        <5>2. QED BY <1>0, <5>1 DEF abs
      <4>3. QED BY <3>3, <4>1, <4>2
    <3>5. Toward \in Height
      BY <1>0, TowardIsHeight
    <3> DEFINE r == Report(Toward, sign(heading - pos))
    <3>6. r \in Reading
      BY <3>3, <3>5, ReportIsReading
    <3>7. ~r.recovering /\ r.extension = Toward /\ r.speed # 0
      BY <3>3 DEF Report
    <3>8. abs(pos' - pos) >= ProgressThreshold
      BY <3>1, <3>4
    <3> HIDE DEF r
    <3>9. air' = Append(air, r)
      BY <3>1 DEF r
    <3>10. motion' = "travel"
      BY <3>1
    <3>11. QED BY <2>1, <3>1, <3>6, <3>7, <3>8, <3>9, <3>10
  <2>4. QED BY <2>2, <2>3
<1>4. ~StopShort /\ ~Collide
  BY <1>0 DEF StopShort, Collide
<1>5. QED BY <1>2, <1>3, <1>4 DEF DeskTick

\* What a tick finds: nothing on its way, and nothing for the loop to do.
LEMMA TickFinds ==
    ASSUME Facts, Timely, StepInvs, DeskTick
    PROVE  /\ wire = NoHeight /\ wire' = NoHeight /\ pc # "done" /\ Pend = {}
           /\ air = <<>> /\ readings = NoReading /\ alarms = <<>> /\ errs = <<>>
           /\ UNCHANGED <<pc, mmx10, movedYet, last, offers, readings, errs, halting, atRest,
                          gapPassed, legEnd, collected, outcome, halts, losses>>
           /\ silence' = Aged(silence, Longest)
<1>1. wire = NoHeight /\ pc # "done" /\ (pc \in {"select", "ready"} => errs = <<>>)
  BY DEF DeskTick, Urgent
<1>2. UNCHANGED <<pc, mmx10, movedYet, last, offers, readings, errs, wire, halting, atRest,
                  gapPassed, legEnd, collected, outcome, halts, losses>>
  BY DEF DeskTick, Tick, legVars, loopVars
<1>3. air = <<>> /\ alarms = <<>>
  BY DEF DeskTick, Timely, Facts, Base, DeskInv, AirOK
<1>4. readings = NoReading
  <2>1. CASE pc \in {"select", "ready"}
    BY <2>1 DEF DeskTick, Urgent
  <2>2. CASE pc \notin {"select", "ready"}
    BY <2>2, PendNone DEF StepInvs, StillInv, Facts
  <2>3. QED BY <2>1, <2>2
<1>5. Pend = {}
  BY <1>3, <1>4, PendNone DEF Facts
<1>6. errs = <<>>
  BY <1>1 DEF StepInvs, AlarmInv, Alarmed
<1>7. silence' = Aged(silence, Longest)
  BY DEF DeskTick
<1>8. QED BY <1>1, <1>2, <1>3, <1>4, <1>5, <1>6, <1>7

\* A tick finds the desk at rest.
LEMMA RestTick ==
    ASSUME Facts, Timely, StepInvs, DeskTick, motion = "rest" PROVE StepInvs'
<1> USE DEF StepInvs
<1>1. UNCHANGED <<pos, heading, motion, air, alarms>>
  BY DEF DeskTick
<1>2. /\ wire = NoHeight /\ wire' = NoHeight /\ pc # "done" /\ Pend = {} /\ alarms = <<>>
      /\ errs = <<>> /\ air = <<>>
      /\ UNCHANGED <<pc, mmx10, movedYet, last, offers, readings, errs, halting, atRest,
                     gapPassed, legEnd, collected, outcome, halts, losses>>
  BY TickFinds
<1>3. Pend' = {} /\ Single /\ Single' /\ Lost' = Lost
  BY <1>1, <1>2, PendSame DEF Lost, Single
<1>4. AlarmInv' /\ StillInv' /\ EndInv' /\ HaltInv'
  BY <1>1, <1>2, <1>3 DEF AlarmInv, Alarmed, StillInv, EndInv, HaltInv
<1>5. ASSUME pc = "select" PROVE InHand' /\ Moved' /\ NotMoved' /\ Course'
  BY <1>1, <1>2, <1>3, <1>5 DEF SelectInv, InHand, Moved, NotMoved, Course, sameDestination, abs
<1>6. ReadyInv'
  BY <1>1, <1>2, <1>3 DEF ReadyInv, Waiting
<1>7. QED BY <1>2, <1>4, <1>5, <1>6 DEF SelectInv

\* A tick of travel in the select loop.
LEMMA SelectTick ==
    ASSUME Facts, Timely, StepInvs, DeskTick, motion = "travel", pc = "select", blocks' = blocks
    PROVE  StepInvs'
<1> USE DEF StepInvs
<1>0. /\ wire = NoHeight /\ wire' = NoHeight /\ Pend = {} /\ alarms = <<>> /\ errs = <<>>
      /\ UNCHANGED <<pc, mmx10, movedYet, last, offers, readings, errs, halting, atRest,
                     gapPassed, legEnd, collected, outcome, halts, losses>>
      /\ silence' = Aged(silence, Longest)
  BY TickFinds
<1>1. PICK r \in Reading :
        /\ air' = Append(air, r) /\ alarms' = alarms /\ heading' = heading
        /\ ~r.recovering /\ r.extension = pos' /\ (r.speed = 0 <=> motion' = "rest")
        /\ motion' \in {"rest", "travel"}
        /\ motion' = "travel" => silence + 1 < Coast /\ abs(pos' - pos) >= ProgressThreshold
        /\ motion' = "rest" /\ silence + 1 < Coast => pos' = heading
  BY TravelTick DEF Facts
<1>2. Pend' = {r} /\ Pend' # {} /\ Single' /\ Lost' = Lost
  BY <1>0, <1>1, PendReport DEF Facts, Lost
<1>3. /\ offered \in Nat /\ stall \in Nat /\ silence \in Nat /\ StartGrace \in Nat /\ Lost \in Nat
      /\ StartGrace < StallTimeout /\ StallTimeout \in Nat /\ Coast \in Nat /\ 2 <= Coast
  BY Numbers, Durations DEF Facts, Timely
<1>4. silence' = silence + 1 /\ silence < Coast
  BY <1>0, <1>3, Durations DEF StillInv, Aged
<1>5. offered' = Aged(offered, StartGrace) /\ stall' = Aged(stall, StallTimeout)
  BY DEF DeskTick, Tick
<1>6. AlarmInv' /\ EndInv' /\ HaltInv' /\ ReadyInv'
  BY <1>0, <1>1 DEF AlarmInv, Alarmed, EndInv, HaltInv, ReadyInv
<1>7. StillInv'
  BY <1>0, <1>1, <1>4 DEF StillInv
<1>8. InHand'
  BY <1>1, <1>2 DEF InHand, Fresh
<1>9. Moved'
  BY <1>0, <1>1, <1>2 DEF SelectInv, Moved
<1>10. NotMoved'
  <2> SUFFICES ASSUME ~movedYet PROVE NotMoved'
    BY <1>0 DEF NotMoved
  <2>1. silence = 0 /\ offered + 1 < StartGrace
    BY <1>0 DEF SelectInv, NotMoved
  <2>2. silence' <= 1 /\ offered' < StartGrace /\ silence + 1 < Coast
    BY <1>3, <1>4, <1>5, <2>1 DEF Aged
  <2>3. motion' = "rest" => pos' = mmx10'
    BY <1>0, <1>1, <2>2 DEF SelectInv, Course
  <2>4. sameDestination(mmx10, mmx10)
    BY NearItself DEF Facts, Base, DeskInv, IInv, Busy
  <2>5. motion' = "rest" => sameDestination(pos', mmx10')
    BY <1>0, <2>3, <2>4
  <2>6. (motion = "rest" /\ ~sameDestination(pos, mmx10))' => FALSE
    BY <2>5 DEF sameDestination
  <2>7. QED BY <1>2, <2>2, <2>3, <2>6 DEF NotMoved
<1>11. Course'
  <2>1. motion' = "travel" => heading' = mmx10'
    BY <1>0, <1>1 DEF SelectInv, Course
  <2>2. stall' <= StartGrace
    BY <1>0, <1>3, <1>5 DEF SelectInv, Course, Aged
  <2>3. silence' <= Lost' + 1
    BY <1>0, <1>2, <1>3, <1>4 DEF SelectInv, Course
  <2>4. QED BY <1>2, <2>1, <2>2, <2>3 DEF Course
<1>12. QED BY <1>0, <1>6, <1>7, <1>8, <1>9, <1>10, <1>11 DEF SelectInv

\* A tick of travel while the loop waits for it to stop.
LEMMA ReadyTick ==
    ASSUME Facts, Timely, StepInvs, DeskTick, motion = "travel", pc = "ready", blocks' = blocks
    PROVE  StepInvs'
<1> USE DEF StepInvs
<1>0. /\ wire = NoHeight /\ wire' = NoHeight /\ Pend = {} /\ alarms = <<>> /\ errs = <<>>
      /\ UNCHANGED <<pc, mmx10, movedYet, last, offers, readings, errs, halting, atRest,
                     gapPassed, legEnd, collected, outcome, halts, losses>>
      /\ silence' = Aged(silence, Longest)
  BY TickFinds
<1>1. PICK r \in Reading :
        /\ air' = Append(air, r) /\ alarms' = alarms /\ heading' = heading
        /\ ~r.recovering /\ r.extension = pos' /\ (r.speed = 0 <=> motion' = "rest")
        /\ motion' \in {"rest", "travel"}
        /\ motion' = "travel" => silence + 1 < Coast /\ abs(pos' - pos) >= ProgressThreshold
        /\ motion' = "rest" /\ silence + 1 < Coast => pos' = heading
  BY TravelTick DEF Facts
<1>2. Pend' = {r} /\ Pend' # {} /\ Single'
  BY <1>0, <1>1, PendReport DEF Facts
<1>3. /\ written \in Nat /\ deadline \in Nat /\ silence \in Nat /\ RetargetGap \in Nat
      /\ StopSettle \in Nat /\ 2 <= RetargetGap /\ Coast \in Nat
  BY Numbers, Durations DEF Facts, Timely
<1>4. silence' = silence + 1 /\ silence < Coast
  BY <1>0, <1>3, Durations DEF StillInv, Aged
<1>5. written' = Aged(written, RetargetGap) /\ deadline' = Aged(deadline, StopSettle)
  BY DEF DeskTick, Tick
<1>6. AlarmInv' /\ EndInv' /\ HaltInv' /\ SelectInv'
  BY <1>0, <1>1 DEF AlarmInv, Alarmed, EndInv, HaltInv, SelectInv
<1>7. StillInv'
  BY <1>0, <1>1, <1>4 DEF StillInv
<1>8. deadline <= silence /\ legEnd = NoHeight /\ (atRest => written = 0)
  BY <1>0 DEF ReadyInv, Waiting
<1>9. deadline' <= silence' /\ deadline' <= Coast /\ (atRest => written' <= 1)
  BY <1>3, <1>4, <1>5, <1>8 DEF Aged
<1>10. \A x \in Pend' : ~x.recovering /\ (x.speed = 0 => motion' = "rest")
  BY <1>1, <1>2
<1>11. Waiting'
  BY <1>0, <1>2, <1>8, <1>9, <1>10 DEF Waiting
<1>12. QED BY <1>0, <1>6, <1>7, <1>11 DEF ReadyInv

\* A tick.
LEMMA TickKeeps ==
    ASSUME Facts, Timely, StepInvs, DeskTick, blocks' = blocks PROVE StepInvs'
<1>1. CASE motion = "rest"
  BY <1>1, RestTick
<1>2. CASE motion = "travel"
  BY <1>2, SelectTick, ReadyTick DEF StepInvs, StillInv
<1>3. QED BY <1>1, <1>2 DEF StepInvs, StillInv

-----------------------------------------------------------------------------
(* The steps of the loop *)

\* What a step of the loop leaves alone, and what it does not do while no
\* write fails.
LEMMA RunLeaves ==
    ASSUME Facts, Run, failures' = failures
    PROVE  /\ Goroutine
           /\ UNCHANGED <<pos, heading, motion, silence, halts, air, alarms, losses>>
           /\ Lost' = Lost
           /\ ~(pc # "done" /\ pc' = "done" /\ outcome' = "writeFailed")
<1>1. failures \in Nat
  BY Durations DEF Facts, Base, DeskTypes
<1>2. ~WriteFails
  BY <1>1 DEF Run
<1>3. QED BY <1>2 DEF Run, WriteFails, ctlVars, linkVars, Lost

\* Only waitReadyForNewTarget has frames to take.
LEMMA NoFrames ==
    ASSUME StepInvs, pc # "ready" \/ written # 0 \/ deadline # 0 \/ gapPassed
    PROVE  alarms = <<>> /\ errs = <<>>
BY DEF StepInvs, AlarmInv, Alarmed

\* A leg begins in front of a desk at rest.
LEMMA StartKeeps ==
    ASSUME Facts, StepInvs, NEW h \in Height, Starts(h), pc' = "select",
           UNCHANGED <<pos, heading, motion, silence, halts, air, alarms, losses, readings, errs>>,
           Pend = {}, motion = "rest", alarms = <<>>, errs = <<>>
    PROVE  StepInvs'
<1> USE DEF StepInvs
<1>1. /\ ~movedYet' /\ wire' = h /\ offers' = 1
  BY TargetIsItself DEF Starts, Writes, Ends
<1>2. Pend' = {} /\ Single' /\ Lost' = Lost /\ Lost \in Nat
  <2>1. Single
    BY PendNone DEF Single, Facts
  <2>2. QED BY <2>1, PendSame, Numbers DEF Lost, Facts
<1>3. AlarmInv' /\ StillInv' /\ ReadyInv' /\ EndInv' /\ HaltInv'
  BY <1>2 DEF AlarmInv, Alarmed, StillInv, ReadyInv, EndInv, HaltInv
<1>4. wire' # NoHeight
  BY <1>1, HeightAssumption
<1>5. InHand' /\ Moved' /\ NotMoved' /\ Course'
  BY <1>1, <1>2, <1>4 DEF InHand, Moved, NotMoved, Course
<1>6. QED BY <1>3, <1>5 DEF SelectInv

\* A move ends, for whatever reason but that it arrived, with the desk at rest
\* and nothing left to take.
LEMMA EndKeeps ==
    ASSUME Facts, StepInvs, pc # "ready", pc' = "done",
           UNCHANGED <<pos, heading, motion, silence, halts, air, alarms, losses, errs>>,
           Pend' = {}, motion = "rest", outcome' = "finished" => Near(collected')
    PROVE  StepInvs'
<1>1. alarms = <<>> /\ errs = <<>>
  BY NoFrames
<1>2. EndInv'
  BY DEF EndInv, Near, abs
<1>3. QED
  BY <1>1, <1>2 DEF StepInvs, AlarmInv, Alarmed, StillInv, SelectInv, ReadyInv, HaltInv

\* On the way into the select loop, and at the end.
LEMMA EdgeKeeps ==
    ASSUME Facts, StepInvs, Run, failures' = failures, WatchErrors \/ FirstWrite \/ Return
    PROVE  StepInvs'
<1>0. /\ UNCHANGED <<pos, heading, motion, silence, halts, air, alarms, losses>>
      /\ ~(pc # "done" /\ pc' = "done" /\ outcome' = "writeFailed")
  BY RunLeaves
<1>1. pc \in {"watch", "sleep", "done"}
  BY DEF WatchErrors, FirstWrite, Return
<1>2. Pend = {} /\ motion = "rest" /\ alarms = <<>> /\ errs = <<>> /\ air = <<>>
      /\ readings = NoReading
  <2>1. Pend = {} /\ motion = "rest"
    BY <1>1 DEF StepInvs, StillInv
  <2>2. QED BY <1>1, <2>1, NoFrames, PendNone DEF Facts
<1>3. CASE FirstWrite
  <2>1. mmx10 \in Height
    BY <1>3 DEF FirstWrite, Facts, Base, DeskInv, IInv, Busy
  <2>2. Starts(mmx10) /\ UNCHANGED <<readings, errs>> /\ pc = "sleep"
    BY <1>3 DEF FirstWrite
  <2>3. pc' = "select"
    BY <1>0, <2>2 DEF Starts, Ends
  <2>4. QED BY <1>0, <1>2, <2>1, <2>2, <2>3, StartKeeps
<1>4. CASE WatchErrors \/ Return
  <2>1. errs' = <<>> /\ readings' = NoReading /\ pc' \in {"sleep", "idle"}
    BY <1>2, <1>4 DEF WatchErrors, Return
  <2>2. Pend' = {}
    BY <1>0, <1>2, <2>1 DEF Pend
  <2>3. QED
    BY <1>0, <1>2, <2>1, <2>2 DEF StepInvs, AlarmInv, Alarmed, StillInv, SelectInv, ReadyInv,
       EndInv, HaltInv
<1>5. QED BY <1>3, <1>4

\* A tick of the offers.
LEMMA OfferKeeps ==
    ASSUME Facts, StepInvs, Run, failures' = failures, OfferTick PROVE StepInvs'
<1> USE DEF StepInvs
<1>0. /\ UNCHANGED <<pos, heading, motion, silence, halts, air, alarms, losses>> /\ Lost' = Lost
      /\ ~(pc # "done" /\ pc' = "done" /\ outcome' = "writeFailed")
  BY RunLeaves
<1>1. /\ pc = "select" /\ wire = NoHeight
      /\ UNCHANGED <<mmx10, movedYet, last, offered, stall, readings, errs, deadline, halting,
                     atRest, gapPassed, legEnd, collected>>
  BY DEF OfferTick, InSelect, CanRun, legVars, waitVars
<1>2. Pend' = Pend /\ (Single' <=> Single)
  BY <1>0, <1>1, PendSame
<1>3. offered \in Nat /\ StartGrace \in Nat /\ offers \in Nat /\ Lost \in Nat
  BY Numbers DEF Facts
<1>4. CASE NoWrite /\ UNCHANGED <<pc, outcome, offers>>
  <2>1. UNCHANGED stepState
    BY <1>0, <1>1, <1>4 DEF NoWrite, stepState
  <2>2. QED BY <1>1, <1>4, <2>1, StepSame DEF EndInv
<1>5. CASE ~movedYet /\ offered >= StartGrace /\ Ends("noStart")
  <2>1. Pend = {} /\ motion = "rest"
    BY <1>1, <1>3, <1>5 DEF SelectInv, NotMoved, StillInv
  <2>2. pc' = "done" /\ outcome' # "finished"
    BY <1>5 DEF Ends
  <2>3. QED BY <1>0, <1>1, <1>2, <2>1, <2>2, EndKeeps
<1>6. CASE MayOffer /\ Writes(mmx10) /\ offers' = offers + 1 /\ UNCHANGED <<pc, outcome>>
  <2>1. ~movedYet /\ wire' # NoHeight
    <3>1. mmx10 \in Height
      BY <1>1 DEF Facts, Base, DeskInv, IInv, Busy
    <3>2. QED BY <1>6, <3>1, TargetIsItself, HeightAssumption DEF MayOffer, Writes
  <2>2. alarms = <<>> /\ errs = <<>>
    BY <1>1, NoFrames
  <2>3. AlarmInv' /\ StillInv' /\ ReadyInv' /\ EndInv' /\ HaltInv'
    BY <1>0, <1>1, <1>2, <1>6, <2>2 DEF AlarmInv, Alarmed, StillInv, ReadyInv, EndInv, HaltInv
  <2>4. \A r : Fresh(r)' <=> Fresh(r)
    BY <1>0 DEF Fresh
  <2>5. InHand' /\ Moved' /\ Course'
    BY <1>0, <1>1, <1>2, <2>1, <2>4 DEF SelectInv, InHand, Moved, Course
  <2>6. NotMoved'
    BY <1>0, <1>1, <1>2, <1>3, <1>6, <2>1 DEF SelectInv, NotMoved, sameDestination, abs
  <2>7. QED BY <2>3, <2>5, <2>6 DEF SelectInv
<1>7. QED BY <1>0, <1>1, <1>4, <1>5, <1>6 DEF OfferTick, Ends

\* No report for too long.
LEMMA StallKeeps ==
    ASSUME Facts, StepInvs, Run, failures' = failures, Stalled PROVE StepInvs'
<1>0. UNCHANGED <<pos, heading, motion, silence, halts, air, alarms, losses>>
  BY RunLeaves
<1>1. /\ pc = "select" /\ stall = StallTimeout /\ pc' = "done" /\ outcome' = "stalled"
      /\ UNCHANGED <<readings, errs>>
  BY DEF Stalled, InSelect, Ends
<1>2. stall > StartGrace /\ stall \in Nat /\ StartGrace \in Nat
  BY <1>1, Numbers DEF Facts
<1>3. Pend = {} /\ motion = "rest"
  BY <1>1, <1>2 DEF StepInvs, StillInv, SelectInv, Course
<1>4. Pend' = {}
  BY <1>0, <1>1, <1>3, PendSame
<1>5. QED BY <1>0, <1>1, <1>3, <1>4, EndKeeps

\* A report is taken.
LEMMA ReadingKeeps ==
    ASSUME Facts, StepInvs, Run, failures' = failures, NEW r \in Reading, TakeReading(r)
    PROVE  StepInvs'
<1> USE DEF StepInvs
<1>0. /\ UNCHANGED <<pos, heading, motion, silence, halts, air, alarms, losses>> /\ Lost' = Lost
      /\ ~(pc # "done" /\ pc' = "done" /\ outcome' = "writeFailed")
  BY RunLeaves
<1>1. /\ pc = "select" /\ readings = r /\ readings # NoReading /\ readings' = NoReading
      /\ last' = r /\ errs' = errs /\ wire = NoHeight
  BY DEF TakeReading, TakeRecovering, Sustain, LegFinished, Rest, TakesReading, InSelect, CanRun
<1>2. Single /\ \A x \in Pend : Fresh(x)
  BY <1>1 DEF SelectInv, InHand
<1>3. r \in Pend /\ Pend # {} /\ Pend' = {} /\ Single'
  BY <1>0, <1>1, <1>2, PendTake DEF Facts
<1>4. ~r.recovering /\ r.extension = pos /\ (r.speed = 0 <=> motion = "rest")
  BY <1>2, <1>3 DEF Fresh
<1>5. alarms = <<>> /\ errs = <<>>
  BY <1>1, NoFrames
<1>6. mmx10 \in Height /\ mmx10 \in Int
  BY <1>1, HeightAssumption DEF Facts, Base, DeskInv, IInv, Busy
<1>7. /\ offered \in Nat /\ stall \in Nat /\ StartGrace \in Nat /\ StartGrace > 0 /\ pos \in Int
      /\ ArrivalTolerance \in Nat
  BY Numbers DEF Facts
<1>8. ~TakeRecovering(r)
  BY <1>4 DEF TakeRecovering
<1>9. CASE Sustain(r)
  <2>1. motion = "travel"
    BY <1>4, <1>9 DEF Sustain, StillInv
  <2>2. /\ movedYet' /\ mmx10' = mmx10 /\ Writes(mmx10) /\ UNCHANGED <<pc, outcome>>
        /\ stall' = IF Progressed(r) THEN 0 ELSE stall
    BY <1>0, <1>1, <1>9 DEF Sustain, Answers, Ends
  <2>3. wire' # NoHeight
    BY <1>6, <2>2, TargetIsItself, HeightAssumption DEF Writes
  <2>4. stall' < StartGrace
    <3>1. CASE movedYet
      <4>1. last # NoReading
        BY <1>1, <3>1 DEF Facts, LegInv, LastOK
      <4>2. abs(pos - last.extension) >= ProgressThreshold
        BY <1>1, <1>3, <2>1, <3>1 DEF SelectInv, Moved
      <4>3. Progressed(r)
        BY <1>4, <4>1, <4>2 DEF Progressed
      <4>4. QED BY <1>7, <2>2, <4>3
    <3>2. CASE ~movedYet
      <4>1. offered < StartGrace
        BY <1>1, <1>3, <3>2 DEF SelectInv, NotMoved
      <4>2. stall <= offered \/ offered = StartGrace
        BY <1>1, <3>2 DEF Facts, LegInv, OfferOK
      <4>3. QED BY <1>7, <2>2, <4>1, <4>2
    <3>3. QED BY <3>1, <3>2
  <2>5. InHand' /\ NotMoved'
    BY <1>3, <2>2 DEF InHand, NotMoved
  <2>6. Moved'
    BY <1>0, <1>1, <1>3, <1>4, <2>1 DEF Moved
  <2>7. Course'
    BY <1>0, <1>1, <1>3, <2>1, <2>2, <2>3, <2>4 DEF SelectInv, Course
  <2>8. AlarmInv' /\ StillInv' /\ ReadyInv' /\ EndInv' /\ HaltInv'
    BY <1>0, <1>1, <1>3, <1>5, <2>2 DEF AlarmInv, Alarmed, StillInv, ReadyInv, EndInv, HaltInv
  <2>9. QED BY <2>5, <2>6, <2>7, <2>8 DEF SelectInv
<1>10. CASE LegFinished(r)
  <2>1. motion = "rest"
    BY <1>4, <1>10 DEF LegFinished
  <2>2. pc' = "ready" /\ legEnd' = pos /\ deadline' = 0 /\ ~halting'
    BY <1>4, <1>10 DEF LegFinished, Waits
  <2>3. Waiting'
    BY <1>0, <1>3, <2>1, <2>2 DEF Waiting
  <2>4. AlarmInv' /\ StillInv' /\ EndInv' /\ HaltInv' /\ SelectInv'
    BY <1>0, <1>1, <1>3, <1>5, <2>1, <2>2 DEF AlarmInv, Alarmed, StillInv, EndInv, HaltInv, SelectInv
  <2>5. QED BY <2>3, <2>4 DEF ReadyInv
<1>11. CASE Rest(r)
  <2>1. motion = "rest" /\ collected' = collected
    BY <1>4, <1>11 DEF Rest, legVars
  <2>2. CASE sameDestination(r.extension, mmx10) /\ Ends("finished")
    <3>1. next = NoHeight
      BY <1>11, <2>2 DEF Rest, LegOver
    <3>2. sameDestination(collected, mmx10) /\ collected \in Int
      BY <1>1, <3>1, HeightAssumption DEF Facts, LegInv, TakenOK
    <3>3. Near(collected')
      BY <1>0, <1>4, <1>6, <1>7, <2>1, <2>2, <3>2 DEF Near, sameDestination, abs
    <3>4. QED BY <1>0, <1>1, <1>3, <2>1, <2>2, <3>3, EndKeeps DEF Ends
  <2>3. CASE movedYet /\ Ends("stoppedShort")
    BY <1>0, <1>1, <1>3, <2>1, <2>3, EndKeeps DEF Ends
  <2>4. CASE ~movedYet /\ ~sameDestination(r.extension, mmx10)
    <3>1. pos = mmx10
      BY <1>1, <1>3, <2>1, <2>4 DEF SelectInv, NotMoved
    <3>2. QED BY <1>4, <1>6, <2>4, <3>1, NearItself
  <2>5. QED BY <1>11, <2>2, <2>3, <2>4 DEF Rest
<1>12. QED BY <1>8, <1>9, <1>10, <1>11 DEF TakeReading

\* A new target is taken.
LEMMA TargetKeeps ==
    ASSUME Facts, Timely, StepInvs, Run, failures' = failures, NEW h \in Height, TakeTarget(h)
    PROVE  StepInvs'
<1> USE DEF StepInvs
<1>0. /\ UNCHANGED <<pos, heading, motion, silence, halts, air, alarms, losses>> /\ Lost' = Lost
  BY RunLeaves
<1>1. pc = "select" /\ wire = NoHeight /\ alarms = <<>> /\ errs = <<>>
  <2>1. pc = "select" /\ wire = NoHeight
    BY DEF TakeTarget, Repeat, Extend, Retarget, TakesTarget, InSelect, CanRun
  <2>2. QED BY <2>1, NoFrames
<1>2. CASE Repeat(h) \/ Extend(h)
  <2>1. UNCHANGED stepState
    BY <1>0, <1>2 DEF Repeat, Extend, timeVars, waitVars, loopVars, stepState
  <2>2. EndInv'
    BY <1>1, <2>1 DEF stepState, EndInv
  <2>3. QED BY <2>1, <2>2, StepSame
<1>3. CASE Retarget(h)
  <2>1. /\ pc' = "ready" /\ legEnd' = NoHeight /\ deadline' = 0
        /\ atRest' = (last # NoReading /\ last.speed = 0)
        /\ UNCHANGED <<readings, errs>> /\ (written' = written \/ written' = 0)
    BY <1>3 DEF Retarget, Waits, NoWrite, Writes
  <2>2. Pend' = Pend /\ (Single' <=> Single)
    BY <1>0, <2>1, PendSame
  <2>3. Single /\ \A x \in Pend : ~x.recovering /\ (x.speed = 0 => motion = "rest")
    BY <1>1 DEF SelectInv, InHand, Fresh
  <2>4. /\ written \in Nat /\ silence \in Nat /\ Coast \in Nat /\ 2 <= Coast /\ Coast <= Longest
        /\ Longest \in Nat
    BY Numbers, Durations DEF Facts, Timely
  <2>5. written = targetAge /\ (silence = Longest \/ silence >= targetAge)
    BY <1>1 DEF Facts, Base, DeskInv, IInv, Timed, ClockInv, SilenceOK
  <2>6. silence <= 1 => written <= silence
    BY <2>4, <2>5
  <2>7. atRest' => ~movedYet
    BY <1>1, <2>1 DEF Facts, LegInv, LastOK
  <2>8. atRest' /\ motion = "travel" /\ Pend = {} => written = 0
    <3>1. atRest' /\ motion = "travel" /\ Pend = {} => silence = 0
      BY <1>1, <2>7 DEF SelectInv, NotMoved
    <3>2. silence = 0 => written = 0
      BY <2>4, <2>6
    <3>3. QED BY <3>1, <3>2
  <2>9. atRest' /\ Pend # {} => written <= 1
    <3>1. atRest' /\ Pend # {} => silence <= 1
      BY <1>1, <2>7 DEF SelectInv, NotMoved
    <3>2. silence <= 1 => written <= 1
      BY <2>4, <2>6
    <3>3. QED BY <3>1, <3>2
  <2>10. /\ atRest' /\ motion = "travel" /\ Pend = {} => written' = 0
         /\ atRest' /\ Pend # {} => written' <= 1
    BY <2>1, <2>8, <2>9
  <2>11. motion = "travel" => deadline' <= silence
    BY <2>1, <2>4
  <2>12. deadline' <= Coast
    BY <2>1, <2>4
  <2>13. Waiting'
    <3>1. atRest' /\ motion' = "travel" => written' <= 1
      BY <1>0, <2>10
    <3>2. QED BY <1>0, <2>1, <2>2, <2>3, <2>10, <2>11, <2>12, <3>1 DEF Waiting
  <2>14. AlarmInv' /\ StillInv' /\ EndInv' /\ HaltInv' /\ SelectInv'
    BY <1>0, <1>1, <2>1, <2>2 DEF AlarmInv, Alarmed, StillInv, EndInv, HaltInv, SelectInv
  <2>15. QED BY <2>1, <2>13, <2>14 DEF ReadyInv
<1>4. QED BY <1>2, <1>3 DEF TakeTarget

\* A report is taken while it waits.
LEMMA WaitReadingKeeps ==
    ASSUME Facts, StepInvs, Run, failures' = failures, WaitReading PROVE StepInvs'
<1> USE DEF StepInvs
<1>0. UNCHANGED <<pos, heading, motion, silence, halts, air, alarms, losses>>
  BY RunLeaves
<1>1. /\ pc = "ready" /\ readings # NoReading /\ readings' = NoReading
      /\ UNCHANGED <<written, deadline, halting, gapPassed, legEnd, errs>>
  BY DEF WaitReading, InWait, timeVars
<1>2. Pend' \subseteq Pend /\ readings \in Pend /\ (Single => Pend' = {} /\ Single')
  BY <1>0, <1>1, PendTake DEF Facts
<1>3. Waiting
  BY <1>1 DEF ReadyInv
<1>4. ~readings.recovering
  BY <1>2, <1>3 DEF Waiting
<1>5. atRest' = (readings.speed = 0) /\ pc' = pc
  BY <1>4 DEF WaitReading
<1>6. Pend # {} /\ legEnd = NoHeight
  BY <1>2, <1>3 DEF Waiting
<1>7. atRest' /\ motion = "travel" => written = 0
  BY <1>2, <1>3, <1>5 DEF Waiting
<1>8. atRest' /\ Pend' # {} => written = 0
  BY <1>2, <1>3 DEF Waiting
<1>9. Waiting'
  <2>1. /\ Single' \/ written' = 0
        /\ \A r \in Pend' : ~r.recovering /\ (r.speed = 0 /\ motion' = "travel" => written' = 0)
    BY <1>0, <1>1, <1>2, <1>3 DEF Waiting
  <2>2. /\ motion' = "travel" => deadline' <= silence'
        /\ Pend' # {} => deadline' <= Coast
        /\ legEnd' = NoHeight
    BY <1>0, <1>1, <1>3, <1>6 DEF Waiting
  <2>3. QED BY <1>0, <1>1, <1>7, <1>8, <2>1, <2>2 DEF Waiting
<1>10. AlarmInv' /\ StillInv' /\ EndInv' /\ HaltInv' /\ SelectInv'
  BY <1>0, <1>1, <1>5 DEF AlarmInv, Alarmed, StillInv, EndInv, HaltInv, SelectInv
<1>11. QED BY <1>1, <1>5, <1>9, <1>10 DEF ReadyInv

\* A frame is taken while it waits: the one its own halting write provoked.
LEMMA WaitFrameKeeps ==
    ASSUME Facts, StepInvs, Run, failures' = failures, WaitFrame PROVE StepInvs' /\ pc' = pc
<1> USE DEF StepInvs
<1>0. UNCHANGED <<pos, heading, motion, silence, halts, air, alarms, losses>>
  BY RunLeaves
<1>1. pc = "ready" /\ errs # <<>> /\ errs' = Tail(errs) /\ errs \in Seq(Frame)
  BY DEF WaitFrame, InWait, Facts, Base, DeskInv, IInv, TypeOK, LoopOK
<1>2. halting /\ \A i \in 1..Len(errs) : errs[i] = "interrupted"
  BY <1>1 DEF AlarmInv, Alarmed
<1>3. Head(errs) = "interrupted"
  <2>1. Head(errs) = errs[1] /\ 1 \in 1..Len(errs)
    BY <1>1
  <2>2. QED BY <1>2, <2>1
<1>4. ~faultFrame(Head(errs), halting)
  BY <1>2, <1>3 DEF faultFrame
<1>5. UNCHANGED <<pc, readings, written, deadline, halting, gapPassed, legEnd, atRest>>
  BY <1>4 DEF WaitFrame, timeVars, waitVars
<1>6. Pend' = Pend /\ (Single' <=> Single)
  BY <1>0, <1>5, PendSame
<1>7. \A i \in 1..Len(errs') : errs'[i] = "interrupted"
  <2>1. Len(errs') = Len(errs) - 1 /\ \A i \in 1..Len(errs') : errs'[i] = errs[i + 1]
    BY <1>1
  <2>2. Len(errs) \in Nat /\ \A i \in 1..Len(errs) - 1 : i + 1 \in 1..Len(errs)
    BY <1>1
  <2>3. QED BY <1>2, <2>1, <2>2
<1>8. AlarmInv'
  BY <1>0, <1>1, <1>5, <1>7 DEF AlarmInv, Alarmed
<1>9. StillInv' /\ EndInv' /\ HaltInv' /\ SelectInv' /\ ReadyInv'
  BY <1>0, <1>1, <1>5, <1>6 DEF StillInv, EndInv, HaltInv, SelectInv, ReadyInv, Waiting
<1>10. QED BY <1>5, <1>8, <1>9

\* The gap has passed.
LEMMA GapKeeps ==
    ASSUME Facts, StepInvs, Run, failures' = failures, WaitGap PROVE StepInvs'
<1> USE DEF StepInvs
<1>0. UNCHANGED <<pos, heading, motion, silence, halts, air, alarms, losses>>
  BY RunLeaves
<1>1. /\ pc = "ready" /\ written = RetargetGap
      /\ UNCHANGED <<pc, readings, errs, written, deadline, halting, legEnd, atRest>>
  BY DEF WaitGap, InWait, timeVars, loopVars
<1>2. alarms = <<>> /\ errs = <<>>
  BY <1>1, TimeAssumption, NoFrames
<1>3. Pend' = Pend /\ (Single' <=> Single)
  BY <1>0, <1>1, PendSame
<1>4. AlarmInv' /\ StillInv' /\ EndInv' /\ HaltInv' /\ SelectInv' /\ ReadyInv'
  BY <1>0, <1>1, <1>2, <1>3 DEF AlarmInv, Alarmed, StillInv, EndInv, HaltInv, SelectInv, ReadyInv,
     Waiting
<1>5. QED BY <1>4

\* The wait is over: the desk is at rest, and everything it said was taken.
LEMMA OverKeeps ==
    ASSUME Facts, Timely, StepInvs, Run, failures' = failures, WaitOver PROVE StepInvs'
<1> USE DEF StepInvs
<1>0. /\ UNCHANGED <<pos, heading, motion, silence, halts, air, alarms, losses>>
      /\ ~(pc # "done" /\ pc' = "done" /\ outcome' = "writeFailed")
  BY RunLeaves
<1>1. pc = "ready" /\ (Ready \/ GivesUp) /\ UNCHANGED <<readings, errs>> /\ Waiting
  BY DEF WaitOver, ReadyInv
<1>2. /\ written \in Nat /\ deadline \in Nat /\ silence \in Nat /\ RetargetGap \in Nat
      /\ StopSettle \in Nat /\ 2 <= RetargetGap /\ Coast \in Nat /\ Coast < StopSettle
      /\ pos \in Int /\ ArrivalTolerance \in Nat
  BY Numbers, Durations DEF Facts, Timely
<1>3. Ready => written = RetargetGap
  BY <1>1 DEF Ready, Facts, Base, DeskInv, IInv, Timed
<1>4. Pend = {}
  <2>1. CASE Ready
    BY <1>1, <1>2, <1>3, <2>1 DEF Ready, Waiting
  <2>2. CASE GivesUp
    BY <1>1, <1>2, <2>2 DEF GivesUp, Waiting
  <2>3. QED BY <1>1, <2>1, <2>2
<1>5. motion = "rest"
  <2>1. CASE Ready
    BY <1>1, <1>2, <1>3, <2>1 DEF Ready, Waiting, StillInv
  <2>2. CASE GivesUp
    BY <1>1, <1>2, <2>2 DEF GivesUp, Waiting, StillInv
  <2>3. QED BY <1>1, <2>1, <2>2
<1>6. alarms = <<>> /\ errs = <<>>
  <2>1. gapPassed \/ deadline # 0
    BY <1>1, <1>2 DEF Ready, GivesUp
  <2>2. QED BY <2>1, NoFrames
<1>7. /\ collected' = Latest(to) /\ Latest(to) \in Height /\ Latest(to) \in Int
      /\ mmx10 \in Height
  BY <1>1, LatestIsHeight, HeightAssumption DEF WaitOver, Latest, Facts, LegInv, TakenOK, Base,
     DeskInv, IInv, TypeOK, Busy
<1>8. ASSUME NEW h \in Height, Starts(h) PROVE StepInvs'
  <2>1. pc' = "select"
    BY <1>0, <1>1, <1>8 DEF Starts, Ends
  <2>2. QED BY <1>0, <1>1, <1>4, <1>5, <1>6, <1>8, <2>1, StartKeeps
<1>9. CASE legEnd # NoHeight /\ sameDestination(Latest(to), legEnd) /\ Ends("finished")
  <2>1. pos = legEnd
    BY <1>1, <1>9 DEF Waiting
  <2>2. Near(collected')
    BY <1>0, <1>2, <1>7, <1>9, <2>1 DEF Near, sameDestination, abs
  <2>3. pc' = "done" /\ Pend' = {}
    BY <1>0, <1>1, <1>4, <1>9, PendSame DEF Ends
  <2>4. EndInv'
    BY <1>0, <1>5, <2>2 DEF EndInv, Near, abs
  <2>5. QED
    BY <1>0, <1>1, <1>5, <1>6, <2>3, <2>4 DEF AlarmInv, Alarmed, StillInv, SelectInv, ReadyInv,
       HaltInv
<1>10. \/ \E h \in Height : Starts(h)
       \/ legEnd # NoHeight /\ sameDestination(Latest(to), legEnd) /\ Ends("finished")
  BY <1>7 DEF WaitOver, AfterLeg, AfterRetarget
<1>11. QED BY <1>8, <1>9, <1>10

\* A step of the loop.
LEMMA RunKeeps ==
    ASSUME Facts, Timely, StepInvs, Run, failures' = failures PROVE StepInvs'
<1>1. Goroutine
  BY DEF Run
<1>2. CASE TakeFrame
  BY <1>2, NoFrames DEF TakeFrame, InSelect
<1>3. CASE WatchErrors \/ FirstWrite \/ Return
  BY <1>3, EdgeKeeps
<1>4. CASE OfferTick \/ Stalled
  BY <1>4, OfferKeeps, StallKeeps
<1>5. ASSUME NEW r \in Reading, TakeReading(r) PROVE StepInvs'
  BY <1>5, ReadingKeeps
<1>6. ASSUME NEW h \in Height, TakeTarget(h) PROVE StepInvs'
  BY <1>6, TargetKeeps
<1>7. CASE WaitFrame \/ WaitReading
  BY <1>7, WaitFrameKeeps, WaitReadingKeeps
<1>8. CASE WaitGap \/ WaitOver
  BY <1>8, GapKeeps, OverKeeps
<1>9. QED BY <1>1, <1>2, <1>3, <1>4, <1>5, <1>6, <1>7, <1>8 DEF Goroutine

-----------------------------------------------------------------------------
(* While the link is up *)

\* A step with the link up, nothing in the way and no write failed.
LEMMA CalmStep ==
    ASSUME Facts, Timely, StepInvs, DeskNext, Undisturbed', linked, linked' PROVE StepInvs'
<1>1. /\ Undisturbed /\ UNCHANGED <<blocks, failures>>
      /\ losses' = losses \/ (losses' = losses - 1 /\ losses > 0 /\ Lost' = Lost + 1)
  BY WasUndisturbed DEF Facts
<1>2. ASSUME NEW h \in Target, Call(h) PROVE StepInvs'
  BY <1>2, CallKeeps
<1>3. CASE Hear \/ HearAlarm
  BY <1>3, HearKeeps, FrameKeeps
<1>4. CASE Run
  BY <1>1, <1>4, RunKeeps
<1>5. CASE Receive
  <2>1. pc \in {"select", "ready"}
    BY <1>5 DEF Receive, Transmit, Facts, ClockInv, WireOK
  <2>2. QED BY <1>1, <1>5, <2>1, ReceiveSelect, ReceiveReady
<1>6. CASE Lose
  <2>1. losses' = losses - 1 /\ losses \in Nat
    BY <1>6, Numbers DEF Lose, Facts
  <2>2. QED BY <1>1, <1>6, <2>1, LoseKeeps
<1>7. CASE Drop
  BY <1>7 DEF Drop
<1>8. CASE DeskTick
  BY <1>1, <1>8, TickKeeps
<1>9. QED BY <1>2, <1>3, <1>4, <1>5, <1>6, <1>7, <1>8 DEF DeskNext

\* A report or a frame that means a fault never reaches the loop.
LEMMA NoFault ==
    ASSUME Facts, Timely, StepInvs, Run, failures' = failures
    PROVE  outcome' = "fault" => outcome = "fault"
<1>1. Goroutine
  BY DEF Run
<1>2. ~TakeFrame
  BY NoFrames DEF TakeFrame, InSelect
<1>3. CASE WatchErrors \/ FirstWrite \/ Return
  BY <1>3 DEF WatchErrors, FirstWrite, Return, Starts, Ends
<1>4. CASE OfferTick \/ Stalled
  BY <1>4 DEF OfferTick, Stalled, Ends
<1>5. ASSUME NEW r \in Reading, TakeReading(r) PROVE outcome' = "fault" => outcome = "fault"
  <2>1. ~TakeRecovering(r)
    <3> SUFFICES ASSUME TakeRecovering(r) PROVE FALSE
      OBVIOUS
    <3>1. pc = "select" /\ r = readings /\ readings # NoReading /\ r.recovering
      BY DEF TakeRecovering, TakesReading, InSelect
    <3>2. r \in Pend
      BY <3>1 DEF Pend
    <3>3. QED BY <3>1, <3>2 DEF StepInvs, SelectInv, InHand, Fresh
  <2>2. QED BY <1>5, <2>1 DEF TakeReading, Sustain, LegFinished, Rest, Answers, Ends
<1>6. ASSUME NEW h \in Height, TakeTarget(h) PROVE outcome' = "fault" => outcome = "fault"
  BY <1>6 DEF TakeTarget, Repeat, Extend, Retarget, loopVars
<1>7. CASE WaitFrame
  <2>1. pc' = pc /\ pc = "ready"
    BY <1>7, WaitFrameKeeps DEF WaitFrame, InWait
  <2>2. QED BY <1>7, <2>1 DEF WaitFrame, Ends
<1>8. CASE WaitReading
  <2>1. pc = "ready" /\ readings \in Pend
    BY <1>8 DEF WaitReading, InWait, Pend
  <2>2. ~readings.recovering
    BY <2>1 DEF StepInvs, ReadyInv, Waiting
  <2>3. QED BY <1>8, <2>2 DEF WaitReading
<1>9. CASE WaitGap \/ WaitOver
  BY <1>9 DEF WaitGap, WaitOver, AfterLeg, AfterRetarget, Starts, Ends, loopVars
<1>10. QED BY <1>1, <1>2, <1>3, <1>4, <1>5, <1>6, <1>7, <1>8, <1>9 DEF Goroutine

-----------------------------------------------------------------------------
(* Once the link is down *)

\* The desk still runs down, or to the height it heard last, but what the loop
\* had of it by then is all it will ever know.
Cut ==
    /\ Alarmed(errs)
    /\ pc \in {"watch", "sleep"} => readings = NoReading
    /\ readings # NoReading => ~readings.recovering
    /\ pc = "select" /\ readings # NoReading =>
         /\ readings.speed = 0 => motion = "rest" /\ pos = readings.extension
         /\ ~movedYet => written <= 1
    /\ pc = "ready" /\ readings # NoReading => deadline <= Coast /\ (atRest => written <= 1)
    /\ pc = "ready" /\ legEnd # NoHeight =>
         motion = "rest" /\ pos = legEnd /\ readings = NoReading
    /\ EndInv

\* Where the drop leaves the loop.
LEMMA CutOff ==
    ASSUME Facts, Timely, StepInvs PROVE Cut
<1> USE DEF StepInvs
<1>1. readings # NoReading => readings \in Pend
  BY DEF Pend
<1>2. Alarmed(errs) /\ EndInv
  BY DEF AlarmInv
<1>3. pc \in {"watch", "sleep"} => readings = NoReading
  BY <1>1 DEF StillInv
<1>4. readings # NoReading => pc \in {"select", "ready"}
  BY <1>1 DEF StillInv
<1>5. ASSUME pc = "select", readings # NoReading
      PROVE  /\ ~readings.recovering
             /\ readings.speed = 0 => motion = "rest" /\ pos = readings.extension
             /\ ~movedYet => written <= 1
  <2>1. /\ written \in Nat /\ silence \in Nat /\ Coast \in Nat /\ 2 <= Coast /\ Coast <= Longest
        /\ Longest \in Nat
    BY Numbers, Durations DEF Facts, Timely
  <2>2. written = targetAge /\ (silence = Longest \/ silence >= targetAge)
    BY <1>5 DEF Facts, Base, DeskInv, IInv, Timed, ClockInv, SilenceOK
  <2>3. ~movedYet => silence <= 1
    BY <1>1, <1>5 DEF SelectInv, NotMoved
  <2>4. ~movedYet => written <= 1
    BY <2>1, <2>2, <2>3
  <2>5. Fresh(readings)
    BY <1>1, <1>5 DEF SelectInv, InHand
  <2>6. QED BY <2>4, <2>5 DEF Fresh
<1>6. ASSUME pc = "ready" PROVE
             /\ readings # NoReading => ~readings.recovering
             /\ readings # NoReading => deadline <= Coast /\ (atRest => written <= 1)
             /\ legEnd # NoHeight => motion = "rest" /\ pos = legEnd /\ readings = NoReading
  BY <1>1, <1>6 DEF ReadyInv, Waiting
<1>7. QED BY <1>2, <1>3, <1>4, <1>5, <1>6 DEF Cut

\* No report, no frame and no height gets through any more.
LEMMA CutElsewhere ==
    ASSUME Cut, ~linked, Hear \/ HearAlarm \/ Lose PROVE Cut'
<1>1. UNCHANGED <<pc, readings, errs, written, movedYet, deadline, atRest, halting, gapPassed,
                  legEnd, outcome, collected, pos, motion>>
  <2>1. CASE Hear \/ HearAlarm
    BY <2>1 DEF Hear, HearAlarm, ctlVars, vars, legVars, timeVars, waitVars, loopVars
  <2>2. CASE Lose
    BY <2>2 DEF Lose, Transmit, ctlVars, legVars, timeVars, waitVars
  <2>3. QED BY <2>1, <2>2
<1>2. QED BY <1>1 DEF Cut, Alarmed, EndInv, Near

\* Someone asks, and is heard by the loop.
LEMMA CutCall ==
    ASSUME Facts, Cut, NEW h \in Target, Call(h) PROVE Cut'
<1>1. CASE MoveWhileMoving(h) \/ MoveReturns
  <2>1. UNCHANGED <<pc, readings, errs, written, movedYet, deadline, atRest, halting, gapPassed,
                    legEnd, outcome, collected, pos, motion>>
    BY <1>1 DEF Call, MoveWhileMoving, MoveReturns, legVars, timeVars, waitVars, loopVars, ctlVars
  <2>2. QED BY <2>1 DEF Cut, Alarmed, EndInv, Near
<1>2. CASE MoveStarts(h)
  <2>1. pc = "idle" /\ pc' = "watch" /\ readings' = NoReading /\ errs' = errs
    BY <1>2 DEF MoveStarts, Facts, ClockInv, MovingOK
  <2>2. errs = <<>>
    BY <2>1 DEF Cut, Alarmed
  <2>3. QED BY <2>1, <2>2 DEF Cut, Alarmed, EndInv
<1>3. QED BY <1>1, <1>2 DEF Call, Move

\* Time passes: there is nothing left to take when it does.
LEMMA CutTick ==
    ASSUME Facts, Cut, DeskTick PROVE Cut'
<1>1. /\ pc # "done" /\ (pc \in {"select", "ready"} => errs = <<>> /\ readings = NoReading)
  BY DEF DeskTick, Urgent
<1>2. UNCHANGED <<pc, readings, errs, legEnd>>
  BY DEF DeskTick, Tick, loopVars
<1>3. errs = <<>>
  BY <1>1 DEF Cut, Alarmed
<1>4. motion = "rest" => UNCHANGED <<pos, motion>>
  BY DEF DeskTick
<1>5. readings # NoReading => ~readings.recovering
  BY DEF Cut
<1>6. QED BY <1>1, <1>2, <1>3, <1>4, <1>5 DEF Cut, Alarmed, EndInv

\* The loop takes the last report it got.
LEMMA CutReading ==
    ASSUME Facts, Cut, Run, failures' = failures, NEW r \in Reading, TakeReading(r)
    PROVE  Cut' /\ (outcome' = "fault" => outcome = "fault")
<1>1. /\ pc = "select" /\ readings = r /\ readings # NoReading /\ readings' = NoReading
      /\ errs' = errs
  BY DEF TakeReading, TakeRecovering, Sustain, LegFinished, Rest, TakesReading, InSelect
<1>2. UNCHANGED <<pos, motion>>
  BY RunLeaves
<1>3. errs = <<>> /\ ~r.recovering /\ (r.speed = 0 => motion = "rest" /\ pos = r.extension)
  BY <1>1 DEF Cut, Alarmed
<1>4. CASE Sustain(r)
  <2>1. /\ pc' \in {"select", "done"} /\ outcome' \in {outcome, "writeFailed"}
        /\ pc' = "done" => outcome' = "writeFailed"
    BY <1>1, <1>4 DEF Sustain, Answers, Ends
  <2>2. QED BY <1>1, <1>3, <2>1 DEF Cut, Alarmed, EndInv
<1>5. CASE LegFinished(r)
  <2>1. pc' = "ready" /\ legEnd' = r.extension /\ outcome' = outcome /\ motion = "rest"
    BY <1>3, <1>5 DEF LegFinished, Waits
  <2>2. motion' = "rest" /\ pos' = legEnd'
    BY <1>2, <1>3, <1>5, <2>1 DEF LegFinished
  <2>3. Alarmed(errs)' /\ EndInv'
    BY <1>1, <1>3, <2>1 DEF Alarmed, EndInv
  <2>4. QED BY <1>1, <2>1, <2>2, <2>3 DEF Cut
<1>6. CASE Rest(r)
  <2>1. /\ motion = "rest" /\ pos = r.extension /\ collected' = collected /\ mmx10 \in Int
        /\ pos \in Int /\ ArrivalTolerance \in Nat
    BY <1>1, <1>3, <1>6, Numbers, HeightAssumption
       DEF Rest, legVars, Facts, Base, DeskInv, IInv, Busy
  <2>2. CASE sameDestination(r.extension, mmx10) /\ Ends("finished")
    <3>1. next = NoHeight
      BY <1>6, <2>2 DEF Rest, LegOver
    <3>2. sameDestination(collected, mmx10) /\ collected \in Int
      BY <1>1, <3>1, HeightAssumption DEF Facts, LegInv, TakenOK
    <3>3. Near(collected')
      BY <1>2, <2>1, <2>2, <3>2 DEF Near, sameDestination, abs
    <3>4. EndInv'
      BY <1>2, <2>1, <3>3 DEF EndInv, Near, abs
    <3>5. QED BY <1>1, <1>3, <2>2, <3>4 DEF Ends, Cut, Alarmed
  <2>3. CASE Ends("stoppedShort") \/ Ends("noStart")
    BY <1>1, <1>3, <2>3 DEF Ends, Cut, Alarmed, EndInv
  <2>4. CASE UNCHANGED <<pc, outcome>>
    BY <1>1, <1>3, <2>4 DEF Cut, Alarmed, EndInv
  <2>5. QED BY <1>6, <2>2, <2>3, <2>4 DEF Rest
<1>7. ~TakeRecovering(r)
  BY <1>3 DEF TakeRecovering
<1>8. QED BY <1>4, <1>5, <1>6, <1>7 DEF TakeReading

\* It takes a target.
LEMMA CutTarget ==
    ASSUME Facts, Timely, Cut, NEW h \in Height, TakeTarget(h), UNCHANGED <<pos, motion>>
    PROVE  Cut' /\ outcome' = outcome
<1>1. pc = "select"
  BY DEF TakeTarget, Repeat, Extend, Retarget, TakesTarget, InSelect
<1>2. errs = <<>>
  BY <1>1 DEF Cut, Alarmed
<1>3. CASE Repeat(h) \/ Extend(h)
  <2>1. UNCHANGED <<pc, readings, errs, written, movedYet, outcome>>
    BY <1>3 DEF Repeat, Extend, timeVars, loopVars
  <2>2. QED BY <1>1, <1>2, <2>1 DEF Cut, Alarmed, EndInv
<1>4. CASE Retarget(h)
  <2>1. /\ pc' = "ready" /\ legEnd' = NoHeight /\ deadline' = 0
        /\ atRest' = (last # NoReading /\ last.speed = 0)
        /\ UNCHANGED <<readings, errs, outcome>> /\ (written' = written \/ written' = 0)
    BY <1>4 DEF Retarget, Waits, NoWrite, Writes
  <2>2. atRest' => ~movedYet
    BY <1>1, <2>1 DEF Facts, LegInv, LastOK
  <2>3. readings # NoReading => ~readings.recovering /\ (atRest' => written <= 1)
    BY <1>1, <2>2 DEF Cut
  <2>4. Coast \in Nat /\ written \in Nat
    BY Durations, Numbers DEF Facts
  <2>5. QED BY <1>2, <2>1, <2>3, <2>4 DEF Cut, Alarmed, EndInv
<1>5. QED BY <1>3, <1>4 DEF TakeTarget

\* It takes a frame that was there before the drop: its own halting write's.
LEMMA CutFrame ==
    ASSUME Facts, Cut, WaitFrame, UNCHANGED <<pos, motion>> PROVE Cut' /\ outcome' = outcome
<1>1. pc = "ready" /\ errs # <<>> /\ errs' = Tail(errs) /\ errs \in Seq(Frame)
  BY DEF WaitFrame, InWait, Facts, Base, DeskInv, IInv, TypeOK, LoopOK
<1>2. /\ halting /\ written = 0 /\ deadline = 0 /\ ~gapPassed
      /\ \A i \in 1..Len(errs) : errs[i] = "interrupted"
  BY <1>1 DEF Cut, Alarmed
<1>3. Head(errs) = "interrupted"
  <2>1. Head(errs) = errs[1] /\ 1 \in 1..Len(errs)
    BY <1>1
  <2>2. QED BY <1>2, <2>1
<1>4. ~faultFrame(Head(errs), halting)
  BY <1>2, <1>3 DEF faultFrame
<1>5. /\ UNCHANGED <<pc, readings, written, movedYet, deadline, halting, gapPassed, legEnd>>
      /\ UNCHANGED <<atRest, outcome, collected>>
  BY <1>4 DEF WaitFrame, timeVars, waitVars, legVars
<1>6. \A i \in 1..Len(errs') : errs'[i] = "interrupted"
  <2>1. Len(errs') = Len(errs) - 1 /\ \A i \in 1..Len(errs') : errs'[i] = errs[i + 1]
    BY <1>1
  <2>2. Len(errs) \in Nat /\ \A i \in 1..Len(errs) - 1 : i + 1 \in 1..Len(errs)
    BY <1>1
  <2>3. QED BY <1>2, <2>1, <2>2
<1>7. Alarmed(errs')
  BY <1>1, <1>2, <1>6 DEF Alarmed
<1>8. QED BY <1>1, <1>2, <1>5, <1>7 DEF Cut, Alarmed, EndInv

\* It waits no more.
LEMMA CutOver ==
    ASSUME Facts, Timely, Cut, WaitOver, UNCHANGED <<pos, motion>>
    PROVE  Cut' /\ (outcome' = "fault" => outcome = "fault")
<1>1. pc = "ready" /\ (Ready \/ GivesUp) /\ UNCHANGED <<readings, errs>>
  BY DEF WaitOver
<1>2. /\ written \in Nat /\ deadline \in Nat /\ RetargetGap \in Nat /\ StopSettle \in Nat
      /\ 2 <= RetargetGap /\ Coast \in Nat /\ Coast < StopSettle /\ pos \in Int
      /\ ArrivalTolerance \in Nat
  BY Numbers, Durations DEF Facts, Timely
<1>3. Ready => written = RetargetGap
  BY <1>1 DEF Ready, Facts, Base, DeskInv, IInv, Timed
<1>4. readings = NoReading
  BY <1>1, <1>2, <1>3 DEF Ready, GivesUp, Cut
<1>5. errs = <<>>
  BY <1>1, <1>2 DEF Ready, GivesUp, Cut, Alarmed
<1>6. ASSUME NEW h, Starts(h) PROVE Cut' /\ (outcome' = "fault" => outcome = "fault")
  <2>1. /\ pc' \in {"select", "done"} /\ outcome' \in {outcome, "writeFailed"}
        /\ pc' = "done" => outcome' = "writeFailed"
    BY <1>6 DEF Starts, Ends
  <2>2. QED BY <1>1, <1>4, <1>5, <2>1 DEF Cut, Alarmed, EndInv
<1>7. CASE legEnd # NoHeight /\ sameDestination(Latest(to), legEnd) /\ Ends("finished")
  <2>1. motion = "rest" /\ pos = legEnd
    BY <1>1, <1>7 DEF Cut
  <2>2. collected' = Latest(to) /\ Latest(to) \in Int
    BY <1>1, LatestIsHeight, HeightAssumption DEF WaitOver, Latest, Facts, LegInv, TakenOK, Base,
       DeskInv, IInv, TypeOK, Busy
  <2>3. Near(collected')
    BY <1>2, <1>7, <2>1, <2>2 DEF Near, sameDestination, abs
  <2>4. EndInv'
    BY <2>1, <2>3 DEF EndInv, Near, abs
  <2>5. QED BY <1>1, <1>4, <1>5, <1>7, <2>4 DEF Ends, Cut, Alarmed
<1>8. QED BY <1>6, <1>7 DEF WaitOver, AfterLeg, AfterRetarget

\* A step of the loop.
LEMMA CutRun ==
    ASSUME Facts, Timely, Cut, Run, failures' = failures
    PROVE  Cut' /\ (outcome' = "fault" => outcome = "fault")
<1>1. Goroutine /\ UNCHANGED <<pos, motion>>
  BY RunLeaves
<1>2. ~TakeFrame
  BY DEF TakeFrame, InSelect, Cut, Alarmed
<1>3. CASE WatchErrors \/ Return
  BY <1>1, <1>3 DEF WatchErrors, Return, Cut, Alarmed, EndInv
<1>4. CASE FirstWrite
  <2>1. pc = "sleep" /\ UNCHANGED <<readings, errs>> /\ Starts(mmx10)
    BY <1>4 DEF FirstWrite
  <2>2. readings = NoReading /\ errs = <<>>
    BY <2>1 DEF Cut, Alarmed
  <2>3. /\ pc' \in {"select", "done"} /\ outcome' \in {outcome, "writeFailed"}
        /\ pc' = "done" => outcome' = "writeFailed"
    BY <2>1 DEF Starts, Ends
  <2>4. QED BY <2>1, <2>2, <2>3 DEF Cut, Alarmed, EndInv
<1>5. CASE OfferTick \/ Stalled
  <2>1. pc = "select" /\ UNCHANGED <<readings, errs, movedYet>>
    BY <1>5 DEF OfferTick, Stalled, InSelect, legVars
  <2>2. errs = <<>>
    BY <2>1 DEF Cut, Alarmed
  <2>3. /\ pc' \in {"select", "done"} /\ (written' = written \/ written' = 0)
        /\ pc' = "done" => outcome' # "finished"
        /\ outcome' = "fault" => outcome = "fault"
    BY <1>5, <2>1 DEF OfferTick, Stalled, Ends, Writes, NoWrite, timeVars
  <2>4. QED BY <1>1, <2>1, <2>2, <2>3 DEF Cut, Alarmed, EndInv
<1>6. ASSUME NEW r \in Reading, TakeReading(r)
      PROVE  Cut' /\ (outcome' = "fault" => outcome = "fault")
  BY <1>6, CutReading
<1>7. ASSUME NEW h \in Height, TakeTarget(h)
      PROVE  Cut' /\ (outcome' = "fault" => outcome = "fault")
  BY <1>1, <1>7, CutTarget
<1>8. CASE WaitFrame
  BY <1>1, <1>8, CutFrame
<1>9. CASE WaitReading
  <2>1. /\ pc = "ready" /\ readings # NoReading /\ readings' = NoReading
        /\ UNCHANGED <<written, deadline, halting, gapPassed, legEnd, errs>>
    BY <1>9 DEF WaitReading, InWait, timeVars
  <2>2. ~readings.recovering /\ legEnd = NoHeight
    BY <2>1 DEF Cut
  <2>3. UNCHANGED <<pc, outcome>>
    BY <1>9, <2>2 DEF WaitReading
  <2>4. QED BY <2>1, <2>2, <2>3 DEF Cut, Alarmed, EndInv
<1>10. CASE WaitGap
  <2>1. /\ pc = "ready" /\ written = RetargetGap
        /\ UNCHANGED <<pc, readings, errs, written, deadline, halting, legEnd, atRest, outcome>>
    BY <1>10 DEF WaitGap, InWait, timeVars, loopVars
  <2>2. errs = <<>>
    BY <2>1, TimeAssumption DEF Cut, Alarmed
  <2>3. QED BY <1>1, <2>1, <2>2 DEF Cut, Alarmed, EndInv
<1>11. CASE WaitOver
  BY <1>1, <1>11, CutOver
<1>12. QED
  BY <1>1, <1>2, <1>3, <1>4, <1>5, <1>6, <1>7, <1>8, <1>9, <1>10, <1>11 DEF Goroutine

\* A step once the link is down.
LEMMA CutStep ==
    ASSUME Facts, Timely, Cut, ~linked, DeskNext, failures' = failures PROVE Cut'
<1>1. ASSUME NEW h \in Target, Call(h) PROVE Cut'
  BY <1>1, CutCall
<1>2. CASE Hear \/ HearAlarm \/ Lose
  BY <1>2, CutElsewhere
<1>3. CASE Run
  BY <1>3, CutRun
<1>4. CASE DeskTick
  BY <1>4, CutTick
<1>5. ~Receive /\ ~Drop
  BY DEF Receive, Drop
<1>6. QED BY <1>1, <1>2, <1>3, <1>4, <1>5 DEF DeskNext

-----------------------------------------------------------------------------
(* What holds of the desk and the loop together *)

\* Until something is in the way, a write fails or too much is lost.
Held ==
    Undisturbed =>
      /\ outcome # "fault" /\ HaltInv
      /\ IF linked THEN StepInvs ELSE Cut

\* Only the link's drop changes it, and only what it carries halts the desk.
LEMMA LinkStep ==
    ASSUME DeskNext
    PROVE  /\ linked' = linked \/ (Drop /\ linked /\ ~linked')
           /\ ~linked => halts' = halts
<1>1. ASSUME NEW h \in Target, Call(h) PROVE linked' = linked /\ halts' = halts
  BY <1>1 DEF Call, linkVars, ctlVars
<1>2. CASE Hear \/ HearAlarm
  BY <1>2 DEF Hear, HearAlarm, ctlVars
<1>3. CASE Run \/ Lose
  BY <1>3 DEF Run, Lose, linkVars, ctlVars
<1>4. CASE Receive
  BY <1>4 DEF Receive
<1>5. CASE Drop
  BY <1>5 DEF Drop
<1>6. CASE DeskTick
  BY <1>6 DEF DeskTick
<1>7. QED BY <1>1, <1>2, <1>3, <1>4, <1>5, <1>6 DEF DeskNext

\* Only the loop says how a move ended.
LEMMA OutcomeStep ==
    ASSUME DeskNext PROVE Run \/ outcome' \in {outcome, "none"}
<1>1. ASSUME NEW h \in Target, Call(h) PROVE outcome' \in {outcome, "none"}
  BY <1>1 DEF Call, Move, MoveWhileMoving, MoveReturns, MoveStarts, loopVars
<1>2. CASE Hear \/ HearAlarm
  BY <1>2 DEF Hear, HearAlarm, DeliverReading, DeliverFrame, vars, loopVars
<1>3. CASE Receive \/ Lose
  BY <1>3 DEF Receive, Lose, Transmit
<1>4. CASE Drop
  BY <1>4 DEF Drop, vars, loopVars
<1>5. CASE DeskTick
  BY <1>5 DEF DeskTick, Tick, loopVars
<1>6. QED BY <1>1, <1>2, <1>3, <1>4, <1>5 DEF DeskNext

\* A step keeps it.
LEMMA HeldStep ==
    ASSUME Facts, Timely, Held, DeskNext PROVE Held'
<1> SUFFICES ASSUME Undisturbed'
             PROVE  outcome' # "fault" /\ HaltInv' /\ (IF linked' THEN StepInvs' ELSE Cut')
  BY DEF Held
<1>1. Undisturbed /\ failures' = failures
  BY WasUndisturbed DEF Facts
<1>2. outcome # "fault" /\ HaltInv /\ (IF linked THEN StepInvs ELSE Cut)
  BY <1>1 DEF Held
<1>3. outcome' # "fault"
  BY <1>1, <1>2, OutcomeStep, NoFault, CutRun
<1>4. CASE linked /\ linked'
  <2>1. StepInvs'
    BY <1>2, <1>4, CalmStep
  <2>2. QED BY <1>3, <1>4, <2>1 DEF StepInvs
<1>5. CASE linked /\ ~linked'
  <2>1. Drop /\ Cut
    BY <1>2, <1>5, LinkStep, CutOff
  <2>2. UNCHANGED <<pc, readings, errs, written, movedYet, deadline, atRest, halting, gapPassed,
                    legEnd, outcome, collected, pos, motion, halts>>
    BY <2>1 DEF Drop, ctlVars, vars, legVars, timeVars, waitVars, loopVars
  <2>3. Cut'
    BY <2>1, <2>2 DEF Cut, Alarmed, EndInv, Near
  <2>4. QED BY <1>2, <1>3, <1>5, <2>2, <2>3 DEF HaltInv
<1>6. CASE ~linked
  <2>1. ~linked' /\ halts' = halts
    BY <1>6, LinkStep
  <2>2. Cut'
    BY <1>1, <1>2, <1>6, CutStep
  <2>3. QED BY <1>2, <1>3, <2>1, <2>2 DEF HaltInv
<1>7. QED BY <1>4, <1>5, <1>6

\* It holds throughout.
LEMMA HeldHolds ==
    ASSUME Timely PROVE DeskSpec => []Held
<1>1. DeskInit => Held
  <2> SUFFICES ASSUME DeskInit PROVE Held
    OBVIOUS
  <2>1. /\ pc = "idle" /\ outcome = "none" /\ motion = "rest" /\ air = <<>> /\ alarms = <<>>
        /\ errs = <<>> /\ readings = NoReading /\ halts = 0 /\ linked
    BY DEF DeskInit, Init
  <2>2. Pend = {}
    BY <2>1 DEF Pend
  <2>3. QED
    BY <2>1, <2>2 DEF Held, StepInvs, AlarmInv, Alarmed, StillInv, SelectInv, ReadyInv, EndInv,
       HaltInv
<1>2. Base /\ ClockInv /\ LegInv /\ Held /\ [DeskNext]_deskAll => Held'
  <2> SUFFICES ASSUME Facts, Held, UNCHANGED deskAll PROVE Held'
    BY HeldStep DEF Facts
  <2>1. /\ UNCHANGED stepState
        /\ UNCHANGED <<outcome, collected, linked, blocks, failures>>
    BY DEF deskAll, vars, legVars, timeVars, waitVars, loopVars, ctlVars, linkVars, bounds,
       stepState
  <2>2. UNCHANGED <<pc, readings, errs, written, movedYet, deadline, atRest, halting, gapPassed,
                    legEnd, pos, motion, halts, losses>>
    BY <2>1 DEF stepState
  <2>3. Undisturbed' <=> Undisturbed
    BY <2>1, <2>2 DEF Undisturbed, Lost
  <2>4. EndInv => EndInv'
    BY <2>1, <2>2 DEF EndInv, Near
  <2>5. StepInvs => StepInvs'
    BY <2>1, <2>4, StepSame DEF StepInvs
  <2>6. Cut => Cut'
    BY <2>2, <2>4 DEF Cut, Alarmed
  <2>7. HaltInv => HaltInv'
    BY <2>2 DEF HaltInv
  <2>8. QED BY <2>1, <2>3, <2>5, <2>6, <2>7 DEF Held
<1>3. 2 <= RetargetGap /\ Quiet <= RetargetGap
  BY DEF Timely
<1>4. DeskSpec => []LegInv
  BY <1>3, LegHolds
<1>5. QED
  BY <1>1, <1>2, <1>4, BaseHolds, ClockHolds, PTL DEF DeskSpec

\* The offers of a move outlast all that the link can lose.
Outlasts == (Losses + 1) * RetargetGap + 1 < StartGrace

\* Then losses alone disturb nothing.
LEMMA StaysUndisturbed ==
    ASSUME Base, Outlasts, failures = Failures, blocks = Blocks PROVE Undisturbed
<1>1. losses \in 0..Losses /\ Losses \in Nat /\ RetargetGap \in Nat /\ StartGrace \in Nat
  BY Durations, Numbers DEF Base, DeskTypes
<1>2. Lost + 1 \in Int /\ Losses + 1 \in Int /\ Lost + 1 <= Losses + 1
  BY <1>1 DEF Lost
<1> DEFINE m == (Lost + 1) * RetargetGap
           n == (Losses + 1) * RetargetGap
<1>3. m <= n
  BY <1>2, MoreGaps
<1>4. m \in Int /\ n \in Int
  BY <1>1, <1>2
<1>5. n + 1 < StartGrace
  BY DEF Outlasts
<1> HIDE DEF m, n
<1>6. m + 1 < StartGrace
  BY <1>1, <1>3, <1>4, <1>5
<1>7. QED BY <1>6 DEF Undisturbed, m

\* Where a bound is none, none is left of it from the first state on.
LEMMA NoneLeft ==
    ASSUME Base
    PROVE  /\ Failures = 0 => failures = Failures
           /\ Blocks = 0 => blocks = Blocks
BY Durations DEF Base, DeskTypes

\* Without the halting writes of the experiment, no height but the one it is
\* heading for reaches a travelling desk, across retargets, legs and moves and
\* whenever the link drops, until a height is lost, a write fails or something
\* is in the way (desk/move.go:234-241, README.md:265-268).
THEOREM NothingHalts ==
    ASSUME Timely, ~HaltOnRetarget, RetargetGap + 1 < StartGrace
    PROVE  DeskSpec => []NeverHalts
<1>1. Base /\ Held => NeverHalts
  <2> SUFFICES ASSUME Base, Held, losses = Losses, blocks = Blocks, failures = Failures
               PROVE  halts = 0
    BY DEF NeverHalts
  <2>1. losses \in Nat /\ RetargetGap \in Nat
    BY Numbers
  <2>2. (Lost + 1) * RetargetGap = RetargetGap
    BY <2>1 DEF Lost
  <2>3. Undisturbed
    BY <2>2 DEF Undisturbed
  <2>4. QED BY <2>3 DEF Held, HaltInv
<1>2. QED BY <1>1, BaseHolds, HeldHolds, PTL

\* With nothing in the way and no write failing, a move that says it finished
\* has left the desk at rest where the newest target it took asked for, on
\* whatever leg, after whatever retargets, whether heights were lost or the
\* link dropped meanwhile (desk/move.go:474-506, 595-602).
THEOREM FinishedIsThere ==
    ASSUME Timely, Outlasts, Failures = 0, Blocks = 0
    PROVE  DeskSpec => []FinishedThere
<1>1. Base /\ Held => FinishedThere
  <2> SUFFICES ASSUME Base, Held PROVE FinishedThere
    OBVIOUS
  <2>1. Undisturbed
    BY NoneLeft, StaysUndisturbed
  <2>2. EndInv
    BY <2>1 DEF Held, StepInvs, Cut
  <2>3. QED BY <2>2 DEF EndInv, FinishedThere
<1>2. QED BY <1>1, BaseHolds, HeldHolds, PTL

\* Only resistance ends a move in a fault: the frame a halting write provokes
\* reaches no loop that takes it for one, however it races with the desk's
\* reports and the link (desk/move.go:187-203, 567-585).
THEOREM FaultsMeanResistance ==
    ASSUME Timely, Outlasts, Failures = 0
    PROVE  DeskSpec => []FaultMeansResistance
<1>1. Base /\ Held => FaultMeansResistance
  <2> SUFFICES ASSUME Base, Held, outcome = "fault" PROVE blocks < Blocks
    BY DEF FaultMeansResistance
  <2>1. ~Undisturbed
    BY DEF Held
  <2>2. blocks # Blocks
    BY <2>1, NoneLeft, StaysUndisturbed
  <2>3. QED BY <2>2, Durations DEF Base, DeskTypes
<1>2. QED BY <1>1, BaseHolds, HeldHolds, PTL

\* A desk that stops in front of the select loop has got where it was going.
LEMMA StopsAtTheEnd ==
    ASSUME Facts, Timely, Held, Undisturbed, linked, Losses + 1 < Coast, DeskNext,
           blocks' = blocks, pc = "select", motion = "travel", motion' = "rest"
    PROVE  pos' = heading
<1>0. StepInvs /\ Course
  BY DEF Held, StepInvs, SelectInv
<1>1. heading = mmx10
  BY <1>0 DEF Course
<1>2. ~UNCHANGED motion
  OBVIOUS
<1>3. ~\E h \in Target : Call(h)
  BY <1>2 DEF Call, ctlVars
<1>4. ~Hear /\ ~HearAlarm /\ ~Run /\ ~Lose /\ ~Drop
  BY <1>2 DEF Hear, HearAlarm, Run, Lose, Drop, ctlVars
<1>5. ~Receive
  <2> SUFFICES ASSUME Receive PROVE FALSE
    OBVIOUS
  <2>1. wire = mmx10
    BY DEF Receive, Transmit, Facts, ClockInv, WireOK
  <2>2. QED BY <1>1, <1>2, <2>1 DEF Receive, Sustained, Halted, Begun, Heard, NotHeard
<1>6. DeskTick
  BY <1>3, <1>4, <1>5 DEF DeskNext
<1>7. Pend = {} /\ wire = NoHeight
  BY <1>0, <1>6, TickFinds
<1>8. silence <= Lost
  BY <1>0, <1>7 DEF Course
<1>9. silence + 1 < Coast
  <2>1. /\ silence \in Nat /\ losses \in Nat /\ Losses \in Nat /\ Coast \in Nat
    BY Numbers, Durations DEF Facts
  <2>2. QED BY <1>8, <2>1 DEF Lost
<1>10. QED
  BY <1>6, <1>9, TravelTick DEF Facts

\* With nothing in the way, no write failing and the link up, the desk never
\* runs down on the way while the select loop sustains it, not even with
\* further targets queued or some of the sustaining heights lost
\* (desk/move.go:328-330, 465-472, 558-565).
THEOREM NeverRunsDown ==
    ASSUME Timely, Outlasts, Losses + 1 < Coast, Failures = 0, Blocks = 0, Drops = 0
    PROVE  DeskSpec => RunsToTheEnd
<1> DEFINE Up == linked /\ drops = 0
<1>1. DeskInit => Up
  BY DEF DeskInit
<1>2. Up /\ [DeskNext]_deskAll => Up'
  <2> SUFFICES ASSUME Up, [DeskNext]_deskAll PROVE Up'
    OBVIOUS
  <2>1. ASSUME NEW h \in Target, Call(h) PROVE Up'
    BY <2>1 DEF Call, linkVars
  <2>2. CASE Hear \/ HearAlarm \/ Run \/ Receive
    BY <2>2 DEF Hear, HearAlarm, Run, Receive, linkVars, bounds
  <2>3. CASE Lose \/ DeskTick
    BY <2>3 DEF Lose, DeskTick, linkVars
  <2>4. ~Drop
    BY DEF Drop
  <2>5. CASE UNCHANGED deskAll
    BY <2>5 DEF deskAll, linkVars, bounds
  <2>6. QED BY <2>1, <2>2, <2>3, <2>4, <2>5 DEF DeskNext
<1> DEFINE A == motion = "travel" /\ motion' = "rest" /\ pc = "select"
                  /\ movedYet /\ blocks' = blocks => pos' = heading
<1>3. Base /\ ClockInv /\ LegInv /\ Held /\ Up /\ [DeskNext]_deskAll => [A]_deskAll
  <2> SUFFICES ASSUME Facts, Held, Up, DeskNext PROVE A
    BY DEF Facts
  <2>1. Undisturbed
    BY NoneLeft, StaysUndisturbed DEF Facts
  <2>2. QED BY <2>1, StopsAtTheEnd
<1>4. 2 <= RetargetGap /\ Quiet <= RetargetGap
  BY DEF Timely
<1>5. DeskSpec => []LegInv
  BY <1>4, LegHolds
<1>6. RunsToTheEnd <=> [][A]_deskAll
  BY DEF RunsToTheEnd
<1>7. QED
  BY <1>1, <1>2, <1>3, <1>5, <1>6, BaseHolds, ClockHolds, HeldHolds, PTL DEF DeskSpec

-----------------------------------------------------------------------------
(* What is known of the desk, and that a collision ends the move *)

\* Every report on its way says where the desk is, and once the desk is
\* followed the last one heard does too.
KnownInv ==
    /\ \A i \in 1..Len(air) : air[i].extension = pos
    /\ linked /\ lastPosition # NoHeight =>
         tracking /\ (air = <<>> => lastPosition = pos)

\* A tick that moves the desk, or makes it back away, reports it.
LEMMA TickTells ==
    ASSUME Base, DeskTick, Lag = 0
    PROVE  /\ air = <<>>
           /\ \/ air' = <<>> /\ pos' = pos
              \/ \E r \in Reading : air' = <<r>> /\ r.extension = pos'
           /\ motion' = "recover" => air' # <<>> /\ Len(air') = 1 /\ air'[1].recovering
<1> USE DEF Base, DeskInv, AirOK
<1>1. air = <<>> /\ pos \in Int /\ heading \in Int
  BY HeightAssumption DEF DeskTick
<1>2. ASSUME NEW at \in Height, AtRest(at)
      PROVE  /\ Report(at, 0) \in Reading /\ air' = <<Report(at, 0)>>
             /\ Report(at, 0).extension = pos' /\ motion' = "rest"
  <2>1. Report(at, 0) \in Reading /\ Report(at, 0).extension = at
    BY ReportIsReading DEF Report
  <2>2. QED BY <1>1, <1>2, <2>1 DEF AtRest
<1>3. CASE RunDown \/ StopShort
  BY <1>1, <1>2, <1>3 DEF RunDown, StopShort
<1>4. CASE Travel /\ motion = "travel"
  <2>1. CASE Toward = heading
    BY <1>1, <1>2, <1>4, <2>1 DEF Travel
  <2>2. CASE Toward # heading
    <3> DEFINE r == Report(Toward, sign(heading - pos))
    <3>1. r \in Reading /\ r.extension = Toward
      <4>1. sign(heading - pos) \in {-1, 0, 1} /\ Toward \in Height
        BY <1>1, TowardIsHeight, SignIsSpeed
      <4>2. QED BY <4>1, ReportIsReading DEF Report
    <3>2. air' = <<r>> /\ pos' = Toward /\ motion' = motion
      BY <1>1, <1>4, <2>2 DEF Travel
    <3>3. QED BY <1>1, <1>4, <3>1, <3>2
  <2>3. QED BY <2>1, <2>2
<1>5. CASE Collide
  <2> DEFINE r == [extension |-> pos, speed |-> sign(pos - heading), recovering |-> TRUE]
  <2>1. r \in Reading /\ r.extension = pos /\ r.recovering
    BY <1>1, SignIsSpeed DEF Reading
  <2>2. air' = <<r>> /\ pos' = pos
    BY <1>1, <1>5 DEF Collide
  <2>3. air' # <<>> /\ Len(air') = 1 /\ air'[1] = r
    BY <2>2
  <2>4. QED BY <1>1, <2>1, <2>2, <2>3
<1>6. CASE BackAway
  BY <1>1, <1>2, <1>6 DEF BackAway
<1>7. CASE motion = "rest" /\ UNCHANGED <<pos, heading, motion, air, alarms, blocks, resisted>>
  BY <1>1, <1>7
<1>8. QED
  BY <1>3, <1>4, <1>5, <1>6, <1>7 DEF DeskTick

\* What reaches the desk is told of, and starts no recovery.
LEMMA ReceiveTells ==
    ASSUME Base, Receive
    PROVE  /\ pos' = pos
           /\ motion' = "recover" => motion = "recover"
           /\ air' = air \/ (motion' # "recover" /\ air' = Append(air, Report(pos, 0)))
<1>1. CASE Halted(wire)
  BY <1>1 DEF Halted, AtRest
<1>2. CASE Sustained(wire) \/ Begun(wire) \/ NotHeard(wire)
  BY <1>2 DEF Sustained, Begun, NotHeard
<1>3. QED BY <1>1, <1>2 DEF Receive

\* The goroutine follows the desk no less for it.
LEMMA RunFollows ==
    ASSUME Goroutine PROVE UNCHANGED <<lastPosition, tracking>>
<1>1. CASE WatchErrors \/ FirstWrite \/ TakeFrame \/ OfferTick \/ Stalled
  BY <1>1 DEF WatchErrors, FirstWrite, TakeFrame, OfferTick, Stalled, deskVars
<1>2. ASSUME NEW r \in Reading, TakeReading(r) PROVE UNCHANGED <<lastPosition, tracking>>
  BY <1>2 DEF TakeReading, TakeRecovering, Sustain, LegFinished, Rest, deskVars
<1>3. ASSUME NEW h \in Height, TakeTarget(h) PROVE UNCHANGED <<lastPosition, tracking>>
  BY <1>3 DEF TakeTarget, Repeat, Extend, Retarget
<1>4. CASE WaitFrame \/ WaitReading \/ WaitGap \/ WaitOver \/ Return
  BY <1>4 DEF WaitFrame, WaitReading, WaitGap, WaitOver, Return, deskVars
<1>5. QED BY <1>1, <1>2, <1>3, <1>4 DEF Goroutine

\* A step keeps what is known.
LEMMA KnownStep ==
    ASSUME Base, KnownInv, [DeskNext]_deskAll, Lag = 0 PROVE KnownInv'
<1> USE DEF Base, DeskInv, AirOK
<1>1. ASSUME UNCHANGED <<pos, air, linked, lastPosition, tracking>> PROVE KnownInv'
  BY <1>1 DEF KnownInv
<1>2. ASSUME NEW h \in Target, Call(h) PROVE KnownInv'
  <2>1. UNCHANGED <<pos, air, linked, lastPosition>>
    BY <1>2 DEF Call, Move, MoveWhileMoving, MoveReturns, MoveStarts, ctlVars, linkVars
  <2>2. tracking' = tracking \/ tracking'
    BY <1>2 DEF Call, Move, MoveWhileMoving, MoveReturns, MoveStarts, ensurePositionTracking
  <2>3. QED BY <2>1, <2>2 DEF KnownInv
<1>3. CASE Hear
  <2>1. PICK i \in 1..Len(air) :
          /\ IF linked THEN DeliverReading(air[i]) ELSE UNCHANGED vars
          /\ air' = Without(air, i)
    BY <1>3 DEF Hear
  <2>2. UNCHANGED <<pos, linked>>
    BY <1>3 DEF Hear, ctlVars
  <2>3. \A k \in 1..Len(air') : \E j \in 1..Len(air) : air'[k] = air[j]
    BY <2>1, StaysOnAir
  <2>4. \A k \in 1..Len(air') : air'[k].extension = pos'
    BY <2>2, <2>3 DEF KnownInv
  <2>5. linked /\ lastPosition' # NoHeight => tracking' /\ lastPosition' = pos
    BY <2>1 DEF DeliverReading, notePosition, KnownInv
  <2>6. QED BY <2>2, <2>4, <2>5 DEF KnownInv
<1>4. CASE HearAlarm
  BY <1>1, <1>4 DEF HearAlarm, DeliverFrame, vars, deskVars, ctlVars
<1>5. CASE Run
  BY <1>1, <1>5, RunFollows DEF Run, ctlVars, linkVars
<1>6. CASE Lose
  BY <1>1, <1>6 DEF Lose, Transmit, deskVars, ctlVars, linkVars
<1>7. CASE Receive
  <2>1. UNCHANGED <<linked, lastPosition, tracking>>
    BY <1>7 DEF Receive, Transmit, deskVars
  <2>2. CASE air' = air
    BY <1>1, <1>7, <2>1, <2>2, ReceiveTells
  <2>3. CASE air' = Append(air, Report(pos, 0))
    <3> DEFINE r == Report(pos, 0)
    <3>1. r \in Reading /\ r.extension = pos
      BY ReportIsReading DEF Report
    <3> HIDE DEF r
    <3>2. /\ Len(Append(air, r)) = Len(air) + 1 /\ Len(air) \in Nat
          /\ Append(air, r)[Len(air) + 1] = r
          /\ \A i \in 1..Len(air) : Append(air, r)[i] = air[i]
      BY <3>1
    <3>3. \A i \in 1..Len(air) + 1 : i \in 1..Len(air) \/ i = Len(air) + 1
      BY <3>2
    <3>4. \A i \in 1..Len(air') : air'[i].extension = pos
      BY <2>3, <3>1, <3>2, <3>3 DEF KnownInv, r
    <3>5. air' # <<>> /\ pos' = pos
      BY <1>7, <2>3, <3>2, ReceiveTells DEF r
    <3>6. QED BY <2>1, <3>4, <3>5 DEF KnownInv
  <2>4. QED BY <1>7, <2>2, <2>3, ReceiveTells
<1>8. CASE Drop
  BY <1>8 DEF Drop, KnownInv, ctlVars
<1>9. CASE DeskTick
  <2>1. UNCHANGED <<linked, lastPosition, tracking>>
    BY <1>9 DEF DeskTick, Tick
  <2>2. CASE air' = <<>> /\ pos' = pos
    BY <1>1, <1>9, <2>1, <2>2, TickTells
  <2>3. ASSUME NEW r \in Reading, air' = <<r>>, r.extension = pos' PROVE KnownInv'
    <3>1. Len(air') = 1 /\ air'[1] = r /\ air' # <<>>
      BY <2>3
    <3>2. QED BY <2>1, <2>3, <3>1 DEF KnownInv
  <2>4. QED BY <1>9, <2>2, <2>3, TickTells
<1>10. CASE UNCHANGED deskAll
  BY <1>1, <1>10 DEF deskAll, vars, deskVars, ctlVars, linkVars
<1>11. QED
  BY <1>2, <1>3, <1>4, <1>5, <1>6, <1>7, <1>8, <1>9, <1>10 DEF DeskNext

\* Once the reports of a linked desk have come through, where it is known to
\* be is where it is, on the way, stopped or coasted to rest after the move,
\* whatever is asked, lost, refused or in the way.  The link is taken to
\* deliver a report before the next tick (desk/move.go:277, 756-777).
THEOREM WhereItIs ==
    ASSUME Lag = 0 PROVE DeskSpec => []PositionKnown
<1>1. DeskInit => KnownInv
  BY DEF DeskInit, Init, KnownInv
<1>2. Base /\ KnownInv /\ [DeskNext]_deskAll => KnownInv'
  BY KnownStep
<1>3. KnownInv => PositionKnown
  BY DEF KnownInv, PositionKnown
<1>4. QED
  BY <1>1, <1>2, <1>3, BaseHolds, PTL DEF DeskSpec

\* While the desk recovers, nothing but that is on its way, and a loop that
\* was there before has still to take it.
CollideInv ==
    motion = "recover" =>
      /\ \A i \in 1..Len(air) : air[i].recovering
      /\ linked =>
           \/ air # <<>>
           \/ readings # NoReading /\ readings.recovering
           \/ pc \notin {"select", "ready"}
           \/ pc = "select" /\ offered = 0
           \/ pc = "ready" /\ deadline = 0

\* The loop ends with it, or has begun to wait or a leg just now.
LEMMA CollideRun ==
    ASSUME Base, Goroutine
    PROVE  \/ pc' \notin {"select", "ready"}
           \/ pc' = "select" /\ offered' = 0
           \/ pc' = "ready" /\ deadline' = 0
           \/ /\ UNCHANGED <<pc, offered, deadline>>
              /\ readings' = readings \/ ~readings.recovering
<1>1. CASE WatchErrors \/ Return
  BY <1>1 DEF WatchErrors, Return
<1>2. CASE FirstWrite
  BY <1>2 DEF FirstWrite, Starts, Ends
<1>3. CASE TakeFrame \/ OfferTick \/ Stalled
  BY <1>3 DEF TakeFrame, OfferTick, Stalled, Ends, timeVars, waitVars
<1>4. ASSUME NEW r \in Reading, TakeReading(r)
      PROVE  \/ pc' = "done"
             \/ pc' = "ready" /\ deadline' = 0
             \/ UNCHANGED <<pc, offered, deadline>> /\ ~readings.recovering
  <2>1. readings = r
    BY <1>4 DEF TakeReading, TakeRecovering, Sustain, LegFinished, Rest, TakesReading
  <2>2. CASE TakeRecovering(r)
    BY <2>2 DEF TakeRecovering, Ends
  <2>3. CASE Sustain(r)
    BY <2>1, <2>3 DEF Sustain, Answers, Ends, waitVars
  <2>4. CASE LegFinished(r)
    BY <2>4 DEF LegFinished, Waits
  <2>5. CASE Rest(r)
    BY <2>1, <2>5 DEF Rest, Ends, waitVars
  <2>6. QED BY <1>4, <2>2, <2>3, <2>4, <2>5 DEF TakeReading
<1>5. ASSUME NEW h \in Height, TakeTarget(h)
      PROVE  \/ pc' = "ready" /\ deadline' = 0
             \/ UNCHANGED <<pc, offered, deadline, readings>>
  BY <1>5 DEF TakeTarget, Repeat, Extend, Retarget, Waits, timeVars, waitVars, loopVars
<1>6. CASE WaitFrame \/ WaitReading \/ WaitGap
  BY <1>6 DEF WaitFrame, WaitReading, WaitGap, Ends, timeVars, waitVars, loopVars
<1>7. CASE WaitOver
  BY <1>7 DEF WaitOver, AfterLeg, AfterRetarget, Starts, Ends
<1>8. QED BY <1>1, <1>2, <1>3, <1>4, <1>5, <1>6, <1>7 DEF Goroutine

\* A step keeps it.
LEMMA CollideStep ==
    ASSUME Base, CollideInv, [DeskNext]_deskAll, Lag = 0 PROVE CollideInv'
<1> USE DEF Base, DeskInv, AirOK
<1>1. ASSUME UNCHANGED <<motion, air, linked, readings, pc, offered, deadline>>
      PROVE  CollideInv'
  BY <1>1 DEF CollideInv
<1>2. ASSUME NEW h \in Target, Call(h) PROVE CollideInv'
  <2>1. UNCHANGED <<motion, air, linked>>
    BY <1>2 DEF Call, ctlVars, linkVars
  <2>2. pc' = "watch" \/ UNCHANGED <<readings, pc, offered, deadline>>
    BY <1>2 DEF Call, Move, MoveWhileMoving, MoveReturns, MoveStarts, timeVars, waitVars, loopVars
  <2>3. CASE pc' = "watch"
    BY <2>1, <2>3 DEF CollideInv
  <2>4. QED BY <1>1, <2>1, <2>2, <2>3
<1>3. CASE Hear
  <2>1. PICK i \in 1..Len(air) :
          /\ IF linked THEN DeliverReading(air[i]) ELSE UNCHANGED vars
          /\ air' = Without(air, i)
    BY <1>3 DEF Hear
  <2>2. UNCHANGED <<motion, linked>>
    BY <1>3 DEF Hear, ctlVars
  <2>3. \A k \in 1..Len(air') : \E j \in 1..Len(air) : air'[k] = air[j]
    BY <2>1, StaysOnAir
  <2>4. motion' = "recover" => \A k \in 1..Len(air') : air'[k].recovering
    BY <2>2, <2>3 DEF CollideInv
  <2>5. motion' = "recover" => air[i].recovering
    BY <2>2 DEF CollideInv
  <2>6. linked => pc' = pc /\ (pc # "idle" => readings' = air[i])
    BY <2>1 DEF DeliverReading
  <2>7. air[i] \in Reading /\ air[i] # NoReading
    BY NoReadingAssumption
  <2>8. QED BY <2>2, <2>4, <2>5, <2>6, <2>7 DEF CollideInv
<1>4. CASE HearAlarm
  BY <1>1, <1>4 DEF HearAlarm, DeliverFrame, vars, timeVars, waitVars, loopVars, ctlVars
<1>5. CASE Run
  <2>1. UNCHANGED <<motion, air, linked>> /\ Goroutine
    BY <1>5 DEF Run, ctlVars, linkVars
  <2>2. QED BY <2>1, CollideRun DEF CollideInv
<1>6. CASE Lose
  BY <1>1, <1>6 DEF Lose, Transmit, timeVars, waitVars, ctlVars, linkVars
<1>7. CASE Receive
  <2>1. UNCHANGED <<linked, readings, pc, offered, deadline>>
    BY <1>7 DEF Receive, Transmit, timeVars, waitVars
  <2>2. CASE motion' # "recover"
    BY <2>2 DEF CollideInv
  <2>3. CASE motion' = "recover"
    BY <1>1, <1>7, <2>1, <2>3, ReceiveTells
  <2>4. QED BY <2>2, <2>3
<1>8. CASE Drop
  BY <1>8 DEF Drop, CollideInv, ctlVars
<1>9. CASE DeskTick
  <2> SUFFICES ASSUME motion' = "recover" PROVE CollideInv'
    BY DEF CollideInv
  <2>1. air' # <<>> /\ Len(air') = 1 /\ air'[1].recovering
    BY <1>9, TickTells
  <2>2. \A i \in 1..Len(air') : i = 1
    BY <2>1
  <2>3. \A i \in 1..Len(air') : air'[i].recovering
    BY <2>1, <2>2
  <2>4. QED BY <2>1, <2>3 DEF CollideInv
<1>10. CASE UNCHANGED deskAll
  BY <1>1, <1>10 DEF deskAll, vars, timeVars, waitVars, loopVars, ctlVars, linkVars
<1>11. QED
  BY <1>2, <1>3, <1>4, <1>5, <1>6, <1>7, <1>8, <1>9, <1>10 DEF DeskNext

\* A move the desk collides in is over before the desk has backed away, on a
\* leg or while it coasts to rest for a retarget, whether or not it has error
\* frames, whatever else fails or is lost.  The link is taken to deliver a
\* report before the next tick (desk/move.go:456-463, 693-715).
THEOREM CollisionsEndIt ==
    ASSUME Lag = 0 PROVE DeskSpec => CollisionEnds
<1> DEFINE A == motion = "recover" /\ motion' = "rest" /\ linked =>
                  /\ pc = "select" => offered = 0
                  /\ pc = "ready" => deadline = 0
<1>1. DeskInit => CollideInv
  BY DEF DeskInit, CollideInv
<1>2. Base /\ CollideInv /\ [DeskNext]_deskAll => CollideInv'
  BY CollideStep
<1>3. Base /\ CollideInv /\ [DeskNext]_deskAll => [A]_deskAll
  <2> SUFFICES ASSUME Base, CollideInv, DeskNext, motion = "recover", motion' = "rest", linked
               PROVE  A
    OBVIOUS
  <2>1. ~(\E h \in Target : Call(h)) /\ ~Hear /\ ~HearAlarm /\ ~Run /\ ~Lose /\ ~Drop
    BY DEF Call, Hear, HearAlarm, Run, Lose, Drop, ctlVars
  <2>2. ~Receive
    BY DEF Receive, Sustained, Halted, Begun, Heard, NotHeard
  <2>3. DeskTick
    BY <2>1, <2>2 DEF DeskNext
  <2>4. air = <<>>
    BY <2>3, TickTells
  <2>5. pc \in {"select", "ready"} => readings = NoReading
    BY <2>3 DEF DeskTick, Urgent
  <2>6. QED BY <2>4, <2>5 DEF CollideInv
<1>4. CollisionEnds <=> [][A]_deskAll
  BY DEF CollisionEnds
<1>5. QED
  BY <1>1, <1>2, <1>3, <1>4, BaseHolds, PTL DEF DeskSpec
=============================================================================
