----------------------------- MODULE MoveCalls -----------------------------
(***************************************************************************)
(* Who may be moving the desk: Move called from several goroutines, the    *)
(* goroutine a call starts, and the two things they share, Desk.moving and *)
(* Desk.chMove (desk/move.go).  What the loop does with a target is left   *)
(* to MoveLoop; here it only takes targets and, at any time, comes to its  *)
(* end.  A put into chMove is one step here; Slot takes it apart.          *)
(***************************************************************************)
EXTENDS Naturals, FiniteSets

CONSTANTS
    Callers,    \* goroutines that call Move
    Target,     \* heights they ask for
    Calls,      \* bound: calls to Move
    None        \* no height

ASSUME CallsAssumption ==
    /\ Calls \in Nat
    /\ None \notin Target

VARIABLES
    moving,     \* d.moving
    chMove,     \* d.chMove
    pc, arg,    \* each caller: where in Move it is, and its argument
    number,     \* each caller: the number of its call
    calls,      \* calls begun
    loops,      \* goroutines not yet returned, each by the number of its call
    ended,      \* those of them whose runMove has returned
    mmx10,      \* what each is after
    inTurn      \* history: no call has looked at moving while another was
                \* between its look and its store

callVars == <<pc, arg, number, calls>>
loopVars == <<loops, ended, mmx10>>
vars == <<moving, chMove, callVars, loopVars, inTurn>>

Init ==
    /\ moving = FALSE /\ chMove = None
    /\ pc = [c \in Callers |-> "idle"]
    /\ arg = [c \in Callers |-> None]
    /\ number = [c \in Callers |-> 0]
    /\ calls = 0
    /\ loops = {} /\ ended = {}
    /\ mmx10 = [l \in 1..Calls |-> None]
    /\ inTurn = TRUE

Goes(c, to) == pc' = [pc EXCEPT ![c] = to]

-----------------------------------------------------------------------------
(* A call of Move *)

Call(c, h) ==
    /\ pc[c] = "idle" /\ calls < Calls
    /\ calls' = calls + 1
    /\ arg' = [arg EXCEPT ![c] = h]
    /\ number' = [number EXCEPT ![c] = calls + 1]
    /\ Goes(c, "load")
    /\ UNCHANGED <<moving, chMove, loopVars, inTurn>>

\* d.moving.Load()
Load(c) ==
    /\ pc[c] = "load"
    /\ Goes(c, IF moving THEN "pass" ELSE "check")
    /\ inTurn' = (inTurn /\ \A o \in Callers : pc[o] # "check")
    /\ UNCHANGED <<moving, chMove, arg, number, calls, loopVars>>

\* A move is running: it is handed the height.
Pass(c) ==
    /\ pc[c] = "pass"
    /\ chMove' = arg[c]
    /\ Goes(c, "idle")
    /\ UNCHANGED <<moving, arg, number, calls, loopVars, inTurn>>

\* The desk is there already.
There(c) ==
    /\ pc[c] = "check"
    /\ Goes(c, "idle")
    /\ UNCHANGED <<moving, chMove, arg, number, calls, loopVars, inTurn>>

\* d.moving.Store(true)
Store(c) ==
    /\ pc[c] = "check"
    /\ moving' = TRUE
    /\ Goes(c, "find")
    /\ UNCHANGED <<chMove, arg, number, calls, loopVars, inTurn>>

\* ReferenceInput could not be found.  A variant returns the error and
\* leaves moving set.
FailStillMoving(c) ==
    /\ pc[c] = "find"
    /\ Goes(c, "idle")
    /\ UNCHANGED <<moving, chMove, arg, number, calls, loopVars, inTurn>>

Fail(c) ==
    /\ pc[c] = "find"
    /\ moving' = FALSE
    /\ Goes(c, "idle")
    /\ UNCHANGED <<chMove, arg, number, calls, loopVars, inTurn>>

\* Or it was, and the goroutine is started.
Start(c) ==
    /\ pc[c] = "find"
    /\ loops' = loops \cup {number[c]}
    /\ mmx10' = [mmx10 EXCEPT ![number[c]] = arg[c]]
    /\ Goes(c, "idle")
    /\ UNCHANGED <<moving, chMove, arg, number, calls, ended, inTurn>>

-----------------------------------------------------------------------------
(* A goroutine it started *)

\* newTarget := <-d.chMove, and latestTarget
Take(l) ==
    /\ l \in loops \ ended
    /\ chMove # None
    /\ mmx10' = [mmx10 EXCEPT ![l] = chMove]
    /\ chMove' = None
    /\ UNCHANGED <<moving, callVars, loops, ended, inTurn>>

\* runMove returns: arrival, a fault, a stop, or silence.  A variant clears
\* moving here, before the callbacks are removed.
EndClearing(l) ==
    /\ l \in loops \ ended
    /\ ended' = ended \cup {l}
    /\ moving' = FALSE
    /\ UNCHANGED <<chMove, callVars, loops, mmx10, inTurn>>

End(l) ==
    /\ l \in loops \ ended
    /\ ended' = ended \cup {l}
    /\ UNCHANGED <<moving, chMove, callVars, loops, mmx10, inTurn>>

\* The deferred calls: the callbacks go, then d.moving.Store(false).
Clear(l) ==
    /\ l \in ended
    /\ moving' = FALSE
    /\ loops' = loops \ {l}
    /\ ended' = ended \ {l}
    /\ UNCHANGED <<chMove, callVars, mmx10, inTurn>>

Caller(c) ==
    \/ \E h \in Target : Call(c, h)
    \/ Load(c) \/ Pass(c) \/ There(c) \/ Store(c) \/ Fail(c) \/ Start(c)

Runs(l) == Take(l) \/ End(l) \/ Clear(l)

Next == (\E c \in Callers : Caller(c)) \/ (\E l \in 1..Calls : Runs(l))

Spec == Init /\ [][Next]_vars

-----------------------------------------------------------------------------
(* Properties *)

TypeOK ==
    /\ moving \in BOOLEAN
    /\ chMove \in Target \cup {None}
    /\ pc \in [Callers -> {"idle", "load", "pass", "check", "find"}]
    /\ arg \in [Callers -> Target \cup {None}]
    /\ number \in [Callers -> 0..Calls]
    /\ calls \in 0..Calls
    /\ loops \subseteq 1..Calls /\ ended \subseteq loops
    /\ mmx10 \in [1..Calls -> Target \cup {None}]
    /\ inTurn \in BOOLEAN

Settled == loops = {} /\ \A c \in Callers : pc[c] = "idle"

\* move.go:283-304.  However calls overlap, once every call and every
\* goroutine has returned moving is false again; otherwise every later Move
\* would hand its height to a loop that is not there.
NeverStuckMoving == Settled => ~moving

\* move.go:234-235.  There is at most one goroutine sending heights.
OneLoop == Cardinality(loops) <= 1

\* move.go:234-235, desk.go:602-608.  So it is as long as no two calls look
\* at moving before either has set it, and then Moving says so from before
\* the goroutine is started until after it has stopped.
OneLoopInTurn == inTurn => OneLoop /\ (loops # {} => moving)
=============================================================================
