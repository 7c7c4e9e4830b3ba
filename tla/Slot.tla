-------------------------------- MODULE Slot --------------------------------
(***************************************************************************)
(* The one-value mailbox of the desk package (desk/query.go): slot.put,    *)
(* drain and the receive, and with the same shape Desk.chMove with         *)
(* newTargetHeigh (desk/move.go).  A put is up to three selects on a       *)
(* channel of capacity one, and other goroutines run between them:         *)
(* the dispatch loop starts one goroutine per handler and notification,    *)
(* and any goroutine may call Move.                                        *)
(*                                                                         *)
(* A value is the number of its put, in the order the puts began.          *)
(***************************************************************************)
EXTENDS Naturals

CONSTANTS
    Putters,    \* goroutines that put
    Puts,       \* bound: puts begun
    Empty       \* the channel holds nothing

ASSUME SlotAssumption ==
    /\ Puts \in Nat
    /\ Empty \notin Nat

VARIABLES
    ch,         \* slot.ch
    pc, value,  \* where each putter is, and with what
    begun,      \* puts begun so far
    emptied,    \* history: who emptied the channel last
    got,        \* history: the newest value a reader has taken or drained
    burst,      \* history: the first put since all were over
    since,      \* history: puts begun when what is in the channel went in
    over        \* history: the newest put that has returned

past == <<emptied, got, burst, since, over>>
vars == <<ch, pc, value, begun, past>>

Init ==
    /\ ch = Empty
    /\ pc = [p \in Putters |-> "idle"]
    /\ value = [p \in Putters |-> 0]
    /\ begun = 0
    /\ emptied = "reader" /\ got = 0 /\ burst = 0 /\ since = 0 /\ over = 0

\* To the next select, or, from the last one, back to the caller.
Goes(p, to) ==
    /\ pc' = [pc EXCEPT ![p] = to]
    /\ over' = IF to = "idle" /\ value[p] > over THEN value[p] ELSE over

Quiescent == \A p \in Putters : pc[p] = "idle"

Put(p) ==
    /\ pc[p] = "idle"
    /\ begun < Puts
    /\ begun' = begun + 1
    /\ value' = [value EXCEPT ![p] = begun + 1]
    /\ Goes(p, "offer")
    /\ burst' = IF Quiescent THEN begun + 1 ELSE burst
    /\ UNCHANGED <<ch, emptied, got, since>>

\* A send that does not block: it succeeds, or the default case is taken.
SendOr(p, otherwise) ==
    /\ IF ch = Empty
       THEN ch' = value[p] /\ since' = begun /\ Goes(p, "idle")
       ELSE Goes(p, otherwise) /\ UNCHANGED <<ch, since>>
    /\ UNCHANGED <<value, begun, emptied, got, burst>>

\* The first select: it goes in if there is room.  A variant leaves it at that.
OfferOnce(p) == pc[p] = "offer" /\ SendOr(p, "idle")
Offer(p) == pc[p] = "offer" /\ SendOr(p, "displace")

\* The second: whatever is there is thrown away.  A variant returns at once
\* when it has made room for nothing.
DisplaceOrReturn(p) ==
    /\ pc[p] = "displace"
    /\ Goes(p, "idle")
    /\ ch' = Empty
    /\ emptied' = IF ch # Empty THEN "putter" ELSE emptied
    /\ UNCHANGED <<value, begun, got, burst, since>>

Displace(p) ==
    /\ pc[p] = "displace"
    /\ Goes(p, "offerAgain")
    /\ ch' = Empty
    /\ emptied' = IF ch # Empty THEN "putter" ELSE emptied
    /\ UNCHANGED <<value, begun, got, burst, since>>

\* The third: it goes in, or another put got there first and this one is lost.
\* A variant waits for room.
OfferAgainBlocking(p) == pc[p] = "offerAgain" /\ ch = Empty /\ SendOr(p, "idle")
OfferAgain(p) == pc[p] = "offerAgain" /\ SendOr(p, "idle")

\* <-s.ch in a select, drain, or one turn of latestTarget.
Receive ==
    /\ ch # Empty
    /\ ch' = Empty
    /\ emptied' = "reader"
    /\ got' = IF ch > got THEN ch ELSE got
    /\ UNCHANGED <<pc, value, begun, burst, since, over>>

Next == Receive \/ \E p \in Putters : Put(p) \/ Offer(p) \/ Displace(p) \/ OfferAgain(p)

Spec == Init /\ [][Next]_vars

\* Every goroutine that puts is scheduled; a reader need not come.
FairSpec ==
    /\ Spec
    /\ \A p \in Putters : WF_vars(Offer(p) \/ Displace(p) \/ OfferAgain(p))

-----------------------------------------------------------------------------
(* Properties *)

TypeOK ==
    /\ ch \in 1..begun \cup {Empty}
    /\ pc \in [Putters -> {"idle", "offer", "displace", "offerAgain"}]
    /\ value \in [Putters -> 0..begun]
    /\ begun \in Nat /\ got \in 0..begun /\ burst \in 0..begun
    /\ since \in 0..begun /\ over \in 0..begun
    /\ emptied \in {"reader", "putter"}

\* query.go:44-61, move.go:810-821.  Puts displace one another's values but
\* never between them leave the channel empty: once all have returned, it is
\* empty only because a reader emptied it.
NeverLostToAPut == Quiescent /\ ch = Empty => emptied = "reader"

\* query.go:33-36, 49-50.  What a reader finds, at whatever moment it comes, is
\* current: no put that began after it went in has returned meanwhile.
NeverStale == ch # Empty => over <= since

\* query.go:33-36.  The dispatch loop never hangs on a reader that has gone
\* away: a put returns whether or not anyone reads, and whatever others put.
PutReturns == \A p \in Putters : pc[p] = "offer" ~> pc[p] = "idle"

\* move.go:595-598, 784-787, query.go:43.  What a reader finds once the puts
\* are over, or has had, is never from before the puts that went on together
\* last; of one goroutine's puts it is the newest.  (Of puts that overlap it
\* need not be: the one that gives up may hold the newer value.)
NewestHeld == Quiescent => (IF ch = Empty THEN got ELSE ch) >= burst
=============================================================================
