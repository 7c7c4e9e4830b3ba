-------------------------- MODULE MoveCallsProofs --------------------------
(***************************************************************************)
(* MoveCalls, for any set of callers and any number of calls.              *)
(***************************************************************************)
EXTENDS MoveCalls, FiniteSetTheorems, TLAPS

\* A call under way has a height and a number of its own.
Numbered ==
    \A c \in Callers : pc[c] # "idle" => arg[c] \in Target /\ number[c] \in 1..calls

\* moving is set only for somebody who will clear it.
HeldBySomeone ==
    moving => loops # {} \/ \E c \in Callers : pc[c] = "find"

\* Calls in turn: whoever is between its look at moving and its goroutine is
\* alone, and finds no goroutine; moving covers it and the goroutine after.
Deciding == {c \in Callers : pc[c] \in {"check", "find"}}

Alone ==
    /\ \A c, d \in Deciding : c = d
    /\ loops # {} => moving /\ Deciding = {}
    /\ \A l, k \in loops : l = k
    /\ \A c \in Callers : pc[c] = "find" => moving

IInv == TypeOK /\ Numbered /\ HeldBySomeone /\ (inTurn => Alone)

\* All four hold in every reachable state.
THEOREM Inductive == Spec => []IInv
<1> USE CallsAssumption
<1>1. Init => IInv
  <2> SUFFICES ASSUME Init PROVE IInv
    OBVIOUS
  <2>1. TypeOK
    <3>1. /\ pc \in [Callers -> {"idle", "load", "pass", "check", "find"}]
          /\ arg \in [Callers -> Target \cup {None}]
      BY DEF Init
    <3>2. number \in [Callers -> 0..Calls]
      BY DEF Init
    <3>3. mmx10 \in [1..Calls -> Target \cup {None}]
      BY DEF Init
    <3>4. loops \subseteq 1..Calls /\ ended \subseteq loops /\ calls \in 0..Calls
      BY DEF Init
    <3>5. QED
      BY <3>1, <3>2, <3>3, <3>4, Zenon DEF Init, TypeOK
  <2>2. Numbered /\ HeldBySomeone /\ Alone
    BY DEF Init, Numbered, HeldBySomeone, Alone, Deciding
  <2>3. QED BY <2>1, <2>2 DEF IInv
<1>2. IInv /\ [Next]_vars => IInv'
  <2> SUFFICES ASSUME IInv, [Next]_vars PROVE IInv'
    OBVIOUS
  <2> USE DEF IInv, TypeOK, callVars, loopVars
  <2>1. ASSUME NEW c \in Callers, NEW h \in Target, Call(c, h) PROVE IInv'
    <3>1. TypeOK' /\ Numbered'
      BY <2>1 DEF Call, Goes, Numbered
    <3>2. HeldBySomeone' /\ (inTurn' => Alone')
      BY <2>1 DEF Call, Goes, HeldBySomeone, Alone, Deciding
    <3>3. QED BY <3>1, <3>2
  <2>2. ASSUME NEW c \in Callers, Load(c) PROVE IInv'
    <3>1. TypeOK' /\ Numbered'
      BY <2>2 DEF Load, Goes, Numbered
    <3>4. HeldBySomeone'
      BY <2>2 DEF Load, Goes, Numbered, HeldBySomeone
    <3>2. inTurn' => Alone'
      BY <2>2 DEF Load, Goes, Alone, Deciding
    <3>3. QED BY <3>1, <3>2, <3>4
  <2>3. ASSUME NEW c \in Callers, Pass(c) \/ There(c) PROVE IInv'
    <3>0. arg[c] \in Target
      BY <2>3 DEF Pass, There, Numbered
    <3>1. TypeOK' /\ Numbered'
      BY <2>3, <3>0 DEF Pass, There, Goes, Numbered
    <3>4. HeldBySomeone'
      BY <2>3 DEF Pass, There, Goes, HeldBySomeone
    <3>2. inTurn' => Alone'
      BY <2>3 DEF Pass, There, Goes, Alone, Deciding
    <3>3. QED BY <3>1, <3>2, <3>4
  <2>4. ASSUME NEW c \in Callers, Store(c) PROVE IInv'
    <3>1. TypeOK' /\ Numbered'
      BY <2>4 DEF Store, Goes, Numbered
    <3>4. HeldBySomeone'
      BY <2>4 DEF Store, Goes, Numbered, HeldBySomeone
    <3>2. inTurn' => Alone'
      BY <2>4 DEF Store, Goes, Alone, Deciding
    <3>3. QED BY <3>1, <3>2, <3>4
  <2>5. ASSUME NEW c \in Callers, Fail(c) PROVE IInv'
    <3>1. TypeOK' /\ Numbered' /\ HeldBySomeone'
      BY <2>5 DEF Fail, Goes, Numbered, HeldBySomeone
    <3>2. inTurn' => Alone'
      BY <2>5 DEF Fail, Goes, Alone, Deciding
    <3>3. QED BY <3>1, <3>2
  <2>6. ASSUME NEW c \in Callers, Start(c) PROVE IInv'
    <3>0. number[c] \in 1..calls /\ number[c] \in 1..Calls /\ arg[c] \in Target
      BY <2>6 DEF Start, Numbered
    <3>1. TypeOK' /\ Numbered'
      BY <2>6, <3>0 DEF Start, Goes, Numbered
    <3>4. HeldBySomeone'
      BY <2>6 DEF Start, Goes, Numbered, HeldBySomeone
    <3>2. inTurn' => Alone'
      BY <2>6 DEF Start, Goes, Alone, Deciding
    <3>3. QED BY <3>1, <3>2, <3>4
  <2>7. ASSUME NEW l \in 1..Calls, Take(l) \/ End(l) PROVE IInv'
    <3>1. TypeOK' /\ Numbered' /\ HeldBySomeone'
      BY <2>7 DEF Take, End, Numbered, HeldBySomeone
    <3>2. inTurn' => Alone'
      BY <2>7 DEF Take, End, Alone, Deciding
    <3>3. QED BY <3>1, <3>2
  <2>8. ASSUME NEW l \in 1..Calls, Clear(l) PROVE IInv'
    <3>1. TypeOK' /\ Numbered'
      BY <2>8 DEF Clear, Numbered
    <3>4. HeldBySomeone'
      BY <2>8 DEF Clear, Numbered, HeldBySomeone
    <3>2. inTurn' => Alone'
      <4> SUFFICES ASSUME inTurn' PROVE Alone'
        OBVIOUS
      <4>1. loops' = {} /\ Deciding = {} /\ Deciding' = Deciding
        BY <2>8 DEF Clear, Alone, Deciding
      <4>2. \A c \in Callers : pc'[c] # "find"
        BY <4>1 DEF Deciding
      <4>3. QED
        BY <4>1, <4>2 DEF Alone
    <3>3. QED BY <3>1, <3>2, <3>4
  <2>9. CASE UNCHANGED vars
    BY <2>9 DEF vars, Numbered, HeldBySomeone, Alone, Deciding
  <2>10. QED
    BY <2>1, <2>2, <2>3, <2>4, <2>5, <2>6, <2>7, <2>8, <2>9 DEF Next, Caller, Runs
<1>3. QED
  BY <1>1, <1>2, PTL DEF Spec

\* move.go:283-304.  However calls overlap, moving is false once all is over.
THEOREM NotStuck == Spec => []NeverStuckMoving
<1>1. IInv => NeverStuckMoving
  BY DEF IInv, HeldBySomeone, NeverStuckMoving, Settled
<1>2. QED
  BY <1>1, Inductive, PTL

\* move.go:234-235, desk.go:602-608.  Calls in turn start one goroutine at a
\* time, and moving covers it.
THEOREM OneAtATime == Spec => []OneLoopInTurn
<1>1. ASSUME IInv, inTurn PROVE OneLoop /\ (loops # {} => moving)
  <2>1. loops = {} \/ \E l \in loops : loops = {l}
    BY <1>1 DEF IInv, Alone
  <2>2. Cardinality(loops) \in {0, 1}
    BY <2>1, FS_EmptySet, FS_Singleton
  <2>3. QED
    BY <1>1, <2>2 DEF IInv, Alone, OneLoop
<1>2. IInv => OneLoopInTurn
  BY <1>1 DEF OneLoopInTurn
<1>3. QED
  BY <1>2, Inductive, PTL
=============================================================================
