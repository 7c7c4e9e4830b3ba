---------------------------- MODULE SlotProofs -----------------------------
(***************************************************************************)
(* Slot, for any set of putters and any number of puts.                    *)
(***************************************************************************)
EXTENDS Slot, TLAPS

\* What keeps a value in the slot.  A put under way has a value of its own,
\* from the latest burst of puts.
UnderWay ==
    \A p \in Putters : pc[p] # "idle" => value[p] \in 1..begun /\ value[p] >= burst

\* A channel that a putter has emptied is still that putter's, or another's,
\* to fill.
ToBeFilled ==
    ch = Empty /\ emptied = "putter" => \E p \in Putters : pc[p] = "offerAgain"

\* A put at its last select has made room or been overtaken by its own burst;
\* the burst that is over has left its mark.
BurstIn ==
    /\ \A p \in Putters : pc[p] = "offerAgain" /\ ch # Empty => ch >= burst
    /\ Quiescent => (IF ch = Empty THEN got ELSE ch) >= burst

\* A put at its last select with the channel full has been overtaken by one
\* that it began before; so has every put that returned without putting.
OverIn ==
    /\ \A p \in Putters : pc[p] = "offerAgain" /\ ch # Empty => value[p] <= since
    /\ ch # Empty => over <= since

IInv == TypeOK /\ UnderWay /\ ToBeFilled /\ BurstIn /\ OverIn

\* These five hold in every reachable state.
THEOREM Inductive == Spec => []IInv
<1>1. Init => IInv
  BY SlotAssumption DEF Init, IInv, TypeOK, UnderWay, ToBeFilled, BurstIn, OverIn, Quiescent
<1>2. IInv /\ [Next]_vars => IInv'
  <2> SUFFICES ASSUME IInv, [Next]_vars PROVE IInv'
    OBVIOUS
  <2> USE SlotAssumption DEF IInv, TypeOK, past
  <2>1. CASE Receive
    BY <2>1 DEF Receive, UnderWay, ToBeFilled, BurstIn, OverIn, Quiescent
  <2>2. ASSUME NEW p \in Putters, Put(p) PROVE IInv'
    <3>1. TypeOK' /\ UnderWay'
      BY <2>2 DEF Put, Goes, UnderWay, Quiescent
    <3>2. ToBeFilled'
      BY <2>2 DEF Put, Goes, ToBeFilled
    <3>3. ~Quiescent'
      BY <2>2 DEF Put, Goes, Quiescent
    <3>4. BurstIn'
      BY <2>2, <3>3 DEF Put, Goes, BurstIn, Quiescent
    <3>5. OverIn'
      BY <2>2 DEF Put, Goes, OverIn
    <3>6. QED BY <3>1, <3>2, <3>4, <3>5
  <2>3. ASSUME NEW p \in Putters, Offer(p) PROVE IInv'
    <3>1. TypeOK' /\ UnderWay'
      BY <2>3 DEF Offer, SendOr, Goes, UnderWay
    <3>2. ToBeFilled' /\ BurstIn'
      BY <2>3 DEF Offer, SendOr, Goes, UnderWay, ToBeFilled, BurstIn, Quiescent
    <3>3. OverIn'
      BY <2>3 DEF Offer, SendOr, Goes, UnderWay, OverIn
    <3>4. QED BY <3>1, <3>2, <3>3
  <2>4. ASSUME NEW p \in Putters, Displace(p) PROVE IInv'
    <3>1. TypeOK' /\ UnderWay'
      BY <2>4 DEF Displace, Goes, UnderWay
    <3>2. ToBeFilled' /\ BurstIn'
      BY <2>4 DEF Displace, Goes, ToBeFilled, BurstIn, Quiescent
    <3>3. OverIn'
      BY <2>4 DEF Displace, Goes, UnderWay, OverIn
    <3>4. QED BY <3>1, <3>2, <3>3
  <2>5. ASSUME NEW p \in Putters, OfferAgain(p) PROVE IInv'
    <3>1. TypeOK' /\ UnderWay'
      BY <2>5 DEF OfferAgain, SendOr, Goes, UnderWay
    <3>2. ToBeFilled' /\ BurstIn'
      BY <2>5 DEF OfferAgain, SendOr, Goes, UnderWay, ToBeFilled, BurstIn, Quiescent
    <3>3. OverIn'
      BY <2>5 DEF OfferAgain, SendOr, Goes, UnderWay, OverIn
    <3>4. QED BY <3>1, <3>2, <3>3
  <2>6. CASE UNCHANGED vars
    BY <2>6 DEF vars, UnderWay, ToBeFilled, BurstIn, OverIn, Quiescent
  <2>7. QED
    BY <2>1, <2>2, <2>3, <2>4, <2>5, <2>6 DEF Next
<1>3. QED
  BY <1>1, <1>2, PTL DEF Spec

\* query.go:44-61, move.go:810-821.  Puts that displace one another's values
\* never leave the slot empty between them.
THEOREM NothingIsLost == Spec => []NeverLostToAPut
<1>1. IInv => NeverLostToAPut
  BY DEF IInv, TypeOK, ToBeFilled, NeverLostToAPut, Quiescent
<1>2. QED
  BY <1>1, Inductive, PTL

\* move.go:595-598, 784-787.  A value from before the last burst of puts does
\* not survive it.
THEOREM NothingStale == Spec => []NewestHeld
<1>1. IInv => NewestHeld
  BY DEF IInv, BurstIn, NewestHeld
<1>2. QED
  BY <1>1, Inductive, PTL

\* query.go:33-36, 49-50.  A put that began after what a reader finds had gone
\* in has not returned yet.
THEOREM AlwaysCurrent == Spec => []NeverStale
<1>1. IInv => NeverStale
  BY DEF IInv, OverIn, NeverStale
<1>2. QED
  BY <1>1, Inductive, PTL
=============================================================================
