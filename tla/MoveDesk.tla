------------------------------ MODULE MoveDesk ------------------------------
(***************************************************************************)
(* MoveLoop closed with the controller of the desk and the link to it.     *)
(* The controller is the one the repository's own tests stand in for a     *)
(* desk (simDesk, desk/move_sim_test.go), with what the comments of        *)
(* desk/move.go say of a desk that meets resistance added.  Every step is  *)
(* a step of MoveLoop or leaves MoveLoop's variables alone, so whatever is *)
(* proved of MoveLoop holds here.                                          *)
(*                                                                         *)
(* Time advances only when the goroutine has nothing to do and the link    *)
(* has delivered all but the newest Lag reports: code runs in microseconds,*)
(* ticks are tenths of a second or more.                                   *)
(***************************************************************************)
EXTENDS MoveLoop

CONSTANTS
    Target,         \* heights the callers ask for
    Step,           \* how far the desk travels in a tick
    Quiet,          \* silence it needs before it takes a height at rest
    Coast,          \* silence after which it runs down to rest
    Lag,            \* reports that may be on their way across a tick
    Calls, Losses, Blocks, Failures, Drops \* bounds: Move calls, heights lost
                    \* by the link, times the desk meets resistance, writes
                    \* that fail, links that drop (and stay down)

ASSUME DeskAssumption ==
    /\ Target \subseteq Height
    /\ {Step, Quiet, Coast} \subseteq Nat \ {0}
    /\ {Lag, Calls, Losses, Blocks, Failures, Drops} \subseteq Nat

\* The desk stops anywhere between two heights, and a height fits the wire.
ASSUME TravelAssumption ==
    /\ Height \subseteq Word
    /\ \A a, b \in Height : a..b \subseteq Height

VARIABLES
    pos, heading,   \* simDesk.pos, simDesk.target
    motion,         \* simDesk.moving, and backing away after a collision
    silence,        \* time since simDesk.lastWrite, capped
    halts,          \* simDesk.halts
    air,            \* reports on their way, oldest first
    alarms,         \* error frames on their way
    linked,         \* the link is up
    calls, losses, blocks, failures, drops,  \* what is left of each bound
    heard,          \* history: the height the controller heard last
    asked,          \* history: the newest height asked for
    resisted        \* history: stopped by resistance since that was asked

ctlVars  == <<pos, heading, motion, silence, halts>>
linkVars == <<air, alarms, linked>>
bounds   == <<calls, losses, blocks, failures, drops>>
history  == <<heard, asked, resisted>>
deskAll  == <<vars, ctlVars, linkVars, bounds, history>>

Longest == IF Quiet > Coast THEN Quiet ELSE Coast

-----------------------------------------------------------------------------
(* The controller *)

Report(at, speed) == [extension |-> at, speed |-> speed, recovering |-> FALSE]

AtRest(at) ==
    /\ pos' = at
    /\ motion' = "rest"
    /\ air' = Append(air, Report(at, 0))

\* WriteWithoutResponse: sustained, halted, begun, or not heard.
Sustained(h) ==
    /\ motion = "travel" /\ h = heading
    /\ UNCHANGED <<pos, heading, motion, halts, air, alarms>>

Halted(h) ==
    /\ motion = "travel" /\ h # heading
    /\ halts' = halts + 1
    /\ AtRest(pos)
    /\ alarms' = Append(alarms, "interrupted")
    /\ UNCHANGED heading

Heard(h) == motion = "rest" /\ silence >= Quiet /\ abs(h - pos) > ArrivalTolerance

Begun(h) ==
    /\ Heard(h)
    /\ motion' = "travel"
    /\ heading' = h
    /\ UNCHANGED <<pos, halts, air, alarms>>

NotHeard(h) ==
    /\ motion # "travel" /\ ~Heard(h)
    /\ UNCHANGED <<pos, heading, motion, halts, air, alarms>>

Receive ==
    /\ linked
    /\ Transmit
    /\ silence' = 0
    /\ heard' = wire
    /\ Sustained(wire) \/ Halted(wire) \/ Begun(wire) \/ NotHeard(wire)
    /\ UNCHANGED <<linked, bounds, asked, resisted>>

\* Write without response: a height can go missing and nobody is told.
Lose ==
    /\ Transmit
    /\ IF linked THEN losses > 0 /\ losses' = losses - 1 ELSE UNCHANGED losses
    /\ UNCHANGED <<ctlVars, linkVars, calls, blocks, failures, drops, history>>

\* simDesk.run, one tick of a travelling desk.
Toward == IF abs(heading - pos) <= Step THEN heading
          ELSE pos + sign(heading - pos) * Step

RunDown ==
    /\ silence + 1 >= Coast
    /\ AtRest(pos)
    /\ UNCHANGED <<heading, alarms, blocks, resisted>>

Travel ==
    /\ silence + 1 < Coast
    /\ IF Toward = heading
       THEN AtRest(heading)
       ELSE /\ pos' = Toward
            /\ air' = Append(air, Report(Toward, sign(heading - pos)))
            /\ UNCHANGED motion
    /\ UNCHANGED <<heading, alarms, blocks, resisted>>

\* Stopped short of where the move is going, with nothing newer asked, after
\* the move saw it travel.
Resists ==
    resisted' = (resisted \/ /\ pc = "select" /\ chMove = NoHeight /\ movedYet
                             /\ abs(pos - mmx10) > ArrivalTolerance)

\* It meets resistance and stops by itself,
StopShort ==
    /\ blocks > 0
    /\ blocks' = blocks - 1
    /\ AtRest(pos)
    /\ Resists
    /\ UNCHANGED <<heading, alarms>>

\* or it collides, says so both ways and starts to back away.
Collide ==
    /\ blocks > 0
    /\ blocks' = blocks - 1
    /\ motion' = "recover"
    /\ air' = Append(air, [extension |-> pos, speed |-> sign(pos - heading),
                           recovering |-> TRUE])
    /\ alarms' = Append(alarms, "fault")
    /\ Resists
    /\ UNCHANGED <<pos, heading>>

BackAway ==
    /\ AtRest(IF pos - sign(heading - pos) * Step \in Height
              THEN pos - sign(heading - pos) * Step ELSE pos)
    /\ UNCHANGED <<heading, alarms, blocks, resisted>>

-----------------------------------------------------------------------------
(* The composition *)

\* Something the goroutine would do at once.
Urgent ==
    \/ wire # NoHeight
    \/ pc = "done"
    \/ pc = "sleep" /\ sleep = 0
    \/ pc \in {"select", "ready"} /\ (errs # <<>> \/ readings # NoReading)
    \/ pc = "select" /\ (chMove # NoHeight \/ offerDue \/ stall = StallTimeout)
    \/ pc = "ready" /\ \/ Ready \/ GivesUp
                       \/ ~gapPassed /\ written = RetargetGap

DeskTick ==
    /\ Tick
    /\ ~Urgent
    /\ Len(air) <= Lag /\ Len(alarms) <= Lag
    /\ silence' = Aged(silence, Longest)
    /\ \/ motion = "rest"
          /\ UNCHANGED <<pos, heading, motion, air, alarms, blocks, resisted>>
       \/ motion = "travel" /\ (RunDown \/ Travel \/ StopShort \/ Collide)
       \/ motion = "recover" /\ BackAway
    /\ UNCHANGED <<halts, linked, calls, losses, failures, drops, heard, asked>>

Call(h) ==
    /\ calls > 0
    /\ calls' = calls - 1
    /\ Move(h)
    /\ asked' = h
    /\ resisted' = FALSE
    /\ UNCHANGED <<ctlVars, linkVars, losses, blocks, failures, drops, heard>>

\* Each report is handled in a goroutine of its own (subscription.go:181-183),
\* so one may overtake another.
Without(s, i) == SubSeq(s, 1, i - 1) \o SubSeq(s, i + 1, Len(s))

Hear ==
    /\ \E i \in 1..Len(air) :
         /\ IF linked THEN DeliverReading(air[i]) ELSE UNCHANGED vars
         /\ air' = Without(air, i)
    /\ UNCHANGED <<ctlVars, alarms, linked, bounds, history>>

HearAlarm ==
    /\ alarms # <<>>
    /\ IF linked THEN DeliverFrame(Head(alarms)) ELSE UNCHANGED vars
    /\ alarms' = Tail(alarms)
    /\ UNCHANGED <<ctlVars, air, linked, bounds, history>>

\* The link drops: from here on nothing gets through either way.
Drop ==
    /\ linked /\ drops > 0
    /\ linked' = FALSE
    /\ drops' = drops - 1
    /\ UNCHANGED <<vars, ctlVars, air, alarms, calls, losses, blocks, failures, history>>

\* A write that fails: it ends the move, or leaves a retarget without its
\* halting write.
WriteFails ==
    \/ pc # "done" /\ pc' = "done" /\ outcome' = "writeFailed"
    \/ HaltOnRetarget /\ pc = "select" /\ pc' = "ready" /\ ~halting' /\ legEnd' = NoHeight

Run ==
    /\ Goroutine
    /\ IF WriteFails
       THEN failures > 0 /\ failures' = failures - 1
       ELSE UNCHANGED failures
    /\ UNCHANGED <<ctlVars, linkVars, calls, losses, blocks, drops, history>>

DeskInit ==
    /\ Init
    /\ pos \in Height /\ heading = pos
    /\ motion = "rest" /\ silence = Longest /\ halts = 0
    /\ air = <<>> /\ alarms = <<>> /\ linked = TRUE
    /\ calls = Calls /\ losses = Losses /\ blocks = Blocks /\ failures = Failures
    /\ drops = Drops
    /\ heard = NoHeight /\ asked = NoHeight /\ resisted = FALSE

DeskNext ==
    \/ \E h \in Target : Call(h)
    \/ Hear \/ HearAlarm
    \/ Run
    \/ Receive \/ Lose \/ Drop
    \/ DeskTick

DeskSpec == DeskInit /\ [][DeskNext]_deskAll

\* The scheduler runs the goroutine, the radio delivers, the clock advances.
Fairness ==
    /\ WF_deskAll(Run)
    /\ WF_deskAll(Hear) /\ WF_deskAll(HearAlarm)
    /\ WF_deskAll(Receive \/ Lose)
    /\ WF_deskAll(DeskTick)

FairDesk == DeskSpec /\ Fairness

-----------------------------------------------------------------------------
(* Properties *)

DeskTypeOK ==
    /\ TypeOK
    /\ pos \in Height /\ heading \in Height
    /\ motion \in {"rest", "travel", "recover"} /\ silence \in 0..Longest
    /\ air \in Seq(Reading) /\ Len(air) <= Lag + 2
    /\ alarms \in Seq(Frame)
    /\ halts \in Nat
    /\ bounds \in Nat \X Nat \X Nat \X Nat \X Nat
    /\ {heard, asked} \subseteq Height \cup {NoHeight}
    /\ resisted \in BOOLEAN

Near(h) == abs(pos - h) <= 2 * ArrivalTolerance

\* README.md:265-268, move.go:234-241.  No height but the one it is heading
\* for reaches the desk while it travels, as long as no height was lost, no
\* write failed and nothing was in the way.
NeverHalts == losses = Losses /\ blocks = Blocks /\ failures = Failures => halts = 0

\* README.md:269-270, move.go:141-160.  A new height never reaches a resting
\* desk that is still deaf from the one before, across retargets, legs and
\* moves, whatever the link lost in between.
NewHeightsAreHeard ==
    [][ Receive /\ motion = "rest" /\ heard # NoHeight
          /\ ~sameDestination(wire, heard) => silence >= Quiet ]_deskAll

\* move.go:474-506.  A move that says it finished has left the desk at rest
\* where the newest target it took asked for.
FinishedThere ==
    pc = "done" /\ outcome = "finished" => motion = "rest" /\ Near(collected)

\* move.go:243-247, 508-513, 622-633.  A desk stopped by resistance after the
\* move saw it travelling stays stopped until someone asks again: neither a
\* late sustaining write, a re-offer, nor a queued target starts it.
LeftStopped ==
    [][ resisted /\ motion # "travel" => motion' # "travel" ]_deskAll

\* move.go:328-330, 465-472, 558-565.  While the select loop sustains it, the
\* desk never runs down on the way, not even with further targets queued.
RunsToTheEnd ==
    [][ motion = "travel" /\ motion' = "rest" /\ pc = "select"
          /\ movedYet /\ blocks' = blocks
          => pos' = heading ]_deskAll

\* move.go:187-203, 567-585.  Without resistance no move ends in a fault: the
\* frame a halting write provokes is always known for what it is.
FaultMeansResistance == outcome = "fault" => blocks < Blocks

\* move.go:277, 756-777.  Where the desk is known to be it is, once its reports
\* have come through: also when it coasted to rest after the move had ended,
\* so that Move is right to return at once.
PositionKnown == linked /\ air = <<>> /\ lastPosition # NoHeight => lastPosition = pos

\* move.go:456-463, 693-715.  A move the desk collides in ends before it has
\* backed away, also while it coasts to rest for a retarget and whether or not
\* it has error frames.  Only one begun in that very instant is there after.
CollisionEnds ==
    [][ motion = "recover" /\ motion' = "rest" /\ linked =>
          /\ pc = "select" => offered = 0
          /\ pc = "ready" => deadline = 0 ]_deskAll

\* Every move comes to an end, whatever is lost, refused or in the way.
MoveEnds == moving ~> ~moving

\* move.go:234-241, 595-602.  Where nothing fails, the desk ends up where the
\* newest target the move took asked for, and at rest.
Reached == <>[](~moving /\ motion = "rest" /\ (collected # NoHeight => Near(collected)))
=============================================================================
