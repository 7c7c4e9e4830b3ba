----------------------------- MODULE GattCache -----------------------------
(***************************************************************************)
(* The cache of services and characteristics (gatt.go), which every        *)
(* operation of a Desk goes through: one peripheral, lookups from several  *)
(* goroutines, links that drop and come back, and Disconnect, which a      *)
(* caller calls then.  The helper process that does the discovery is not   *)
(* in the code.  A cached handle is of use while the helper has discovered *)
(* its characteristic since the link came up (README.md:171-174,403-412).  *)
(*                                                                         *)
(* A list of characteristics is a Go slice: an array, and how much of it.  *)
(* append writes into the array when it has room, and two slices may have  *)
(* the array in common.  A characteristic is longer than a word, so it is  *)
(* written in two halves, in either order.                                 *)
(***************************************************************************)
EXTENDS Naturals, Sequences, FiniteSets

CONSTANTS
    Callers,        \* goroutines that look up, one lookup at a time
    Chars,          \* characteristics
    Control,        \* those of the Control service; each other has its own
    Absent,         \* those this desk does not have
    Cached,         \* those looked up before, or none
    Lookups, Reconnects, Failures, \* bounds; failures: calls of the helper
    Nothing

ASSUME GattAssumption ==
    /\ Control \cup Absent \cup Cached \subseteq Chars /\ Cached \cap Absent = {}
    /\ IsFiniteSet(Chars) /\ Cardinality(Cached) <= 16
    /\ {Lookups, Reconnects, Failures} \subseteq Nat
    /\ Nothing \notin Chars /\ Nothing # "control"

VARIABLES
    gattSvcs,       \* the services are cached
    gattChars,      \* the cached slice
    arrays,         \* every array made, with the room it has
    pc, asked, left, list, \* each caller: where, for what, the answers it has
                    \* still to cache, the slice it holds
    got,            \* each caller: what its last lookup returned
    dropping,       \* Disconnect is between its two deletions
    svcsKnown, charsKnown, \* the helper: discovered since the link came up
    lookups, reconnects, failures,
    alone,          \* history: no two goroutines have added at once
    clean           \* history: the link has not dropped since the cache was
                    \* emptied, with no lookup going on

cache   == <<gattSvcs, gattChars, arrays>>
callers == <<pc, asked, left, list, got>>
helper  == <<svcsKnown, charsKnown>>
bounds  == <<lookups, reconnects, failures>>
vars    == <<cache, callers, dropping, helper, bounds, alone, clean>>

ServiceOf(c) == IF c \in Control THEN "control" ELSE c
Handle(c) == [uuid |-> c, service |-> ServiceOf(c)]
NoHandle == [uuid |-> Nothing, service |-> Nothing]

In(slice) == {arrays[slice.array][i] : i \in 1..slice.len}
findCharacteristic(slice, c) == {e \in In(slice) : e.uuid = c}

Orders(S) == {q \in [1..Cardinality(S) -> S] : \A c \in S : \E i \in DOMAIN q : q[i] = c}
Order(S)  == CHOOSE q \in Orders(S) : TRUE
NoSlice == [array |-> 0, len |-> 0]

\* Room for twice as many, each time there is none.
Room(n) == CHOOSE r \in {1, 2, 4, 8, 16} : n <= r /\ (r = 1 \/ r < 2 * n)
Padded(q, room) == [i \in 1..room |-> IF i <= Len(q) THEN q[i] ELSE NoHandle]

\* Nothing was looked up yet, or these were, one after the other.
Init ==
    /\ \E before \in {{}, Cached} :
         LET found == [i \in 1..Cardinality(before) |-> Handle(Order(before)[i])] IN
         /\ charsKnown = before
         /\ gattSvcs = (before # {}) /\ svcsKnown = (before # {})
         /\ arrays = IF before = {} THEN <<>> ELSE <<Padded(found, Room(Len(found)))>>
         /\ gattChars = IF before = {} THEN NoSlice ELSE [array |-> 1, len |-> Len(found)]
    /\ pc = [g \in Callers |-> "idle"] /\ asked = [g \in Callers |-> Nothing]
    /\ left = [g \in Callers |-> <<>>] /\ list = [g \in Callers |-> NoSlice]
    /\ got = [g \in Callers |-> NoHandle]
    /\ dropping = FALSE
    /\ lookups = Lookups /\ reconnects = Reconnects /\ failures = Failures
    /\ alone = TRUE /\ clean = TRUE

Goes(g, to) == pc' = [pc EXCEPT ![g] = to]

-----------------------------------------------------------------------------
(* GetCharacteristic *)

Returns(g, handle) == got' = [got EXCEPT ![g] = handle]

\* From the cache, or on to discovery.
GetCharacteristic(g, c) ==
    /\ pc[g] = "idle" /\ lookups > 0
    /\ lookups' = lookups - 1
    /\ asked' = [asked EXCEPT ![g] = c]
    /\ LET hits == findCharacteristic(gattChars, c) IN
         \/ hits = {} /\ Goes(g, "services") /\ Returns(g, NoHandle)
         \/ (\E e \in hits : Returns(g, e)) /\ UNCHANGED pc
    /\ UNCHANGED <<cache, left, list, dropping, helper, reconnects, failures, alone, clean>>

CachedServices(g) ==
    /\ pc[g] = "services" /\ gattSvcs
    /\ Goes(g, "discover")
    /\ UNCHANGED <<cache, asked, left, list, got, dropping, helper, bounds, alone, clean>>

DiscoverServices(g) ==
    /\ pc[g] = "services" /\ ~gattSvcs
    /\ svcsKnown' = TRUE
    /\ Goes(g, "keep")
    /\ UNCHANGED <<cache, asked, left, list, got, dropping, charsKnown, bounds, alone, clean>>

StoreServices(g) ==
    /\ pc[g] = "keep"
    /\ gattSvcs' = TRUE
    /\ Goes(g, "discover")
    /\ UNCHANGED <<gattChars, arrays, asked, left, list, got, dropping, helper, bounds, alone,
                   clean>>

\* A call of the helper fails, or takes too long.
CallFails(g) ==
    /\ (pc[g] = "services" /\ ~gattSvcs) \/ pc[g] = "discover"
    /\ failures > 0
    /\ failures' = failures - 1
    /\ Goes(g, "idle")
    /\ UNCHANGED <<cache, asked, left, list, got, dropping, helper, lookups, reconnects, alone,
                   clean>>

\* findService: the desk has no such service.
Missing(c) == \A d \in Chars : ServiceOf(d) = ServiceOf(c) => d \in Absent

ServiceNotFound(g) ==
    /\ pc[g] = "discover" /\ Missing(asked[g])
    /\ Goes(g, "idle")
    /\ UNCHANGED <<cache, asked, left, list, got, dropping, helper, bounds, alone, clean>>

\* The helper answers with every characteristic of the service it has
\* discovered so far, in whatever order, or knows nothing of the service.
UnknownService(g) ==
    /\ pc[g] = "discover" /\ ~Missing(asked[g]) /\ ~svcsKnown
    /\ Goes(g, "idle")
    /\ UNCHANGED <<cache, asked, left, list, got, dropping, helper, bounds, alone, clean>>

SameService(c, S) == {d \in S : ServiceOf(d) = ServiceOf(c)}

DiscoverCharacteristics(g) ==
    /\ pc[g] = "discover" /\ ~Missing(asked[g]) /\ svcsKnown
    /\ charsKnown' = charsKnown \cup ({asked[g]} \ Absent)
    /\ \E q \in Orders(SameService(asked[g], charsKnown')) :
         /\ left' = [left EXCEPT ![g] = q]
         /\ Goes(g, IF q = <<>> THEN "idle" ELSE "load")
    /\ UNCHANGED <<cache, asked, list, got, dropping, svcsKnown, bounds, alone, clean>>

\* Of what the helper answered, the one that was asked for is returned.  A
\* variant returns the first.
FirstAnswered(g) == IF got[g] = NoHandle THEN Handle(Head(left[g])) ELSE got[g]

Answered(g) == IF Head(left[g]) = asked[g] THEN Handle(asked[g]) ELSE got[g]

\* On with the next.
Added(g) ==
    /\ Returns(g, Answered(g))
    /\ left' = [left EXCEPT ![g] = Tail(left[g])]
    /\ Goes(g, IF Tail(left[g]) = <<>> THEN "idle" ELSE "load")

\* addCharacteristicToCache: the slice is loaded, or a first one stored,
LoadOrStore(g) ==
    /\ pc[g] = "load"
    /\ LET c == Head(left[g]) IN
       \/ /\ gattChars.len = 0
          /\ arrays' = Append(arrays, <<Handle(c)>>)
          /\ gattChars' = [array |-> Len(arrays) + 1, len |-> 1]
          /\ Added(g)
          /\ UNCHANGED list
       \/ /\ gattChars.len > 0 /\ findCharacteristic(gattChars, c) # {}
          /\ Added(g)
          /\ UNCHANGED <<arrays, gattChars, list>>
       \/ /\ gattChars.len > 0 /\ findCharacteristic(gattChars, c) = {}
          /\ list' = [list EXCEPT ![g] = gattChars]
          /\ Goes(g, "append")
          /\ UNCHANGED <<arrays, gattChars, left, got>>
    /\ alone' = (alone /\ \A o \in Callers \ {g} : pc[o] \notin {"append", "half", "store"})
    /\ UNCHANGED <<gattSvcs, asked, dropping, helper, bounds, clean>>

Longer(slice) == [array |-> slice.array, len |-> slice.len + 1]

\* the characteristic appended, in an array of its own,
AppendCopy(g) ==
    /\ pc[g] = "append" /\ list[g].len = Len(arrays[list[g].array])
    /\ LET q == arrays[list[g].array] IN
       arrays' = Append(arrays, Padded(Append(q, Handle(Head(left[g]))), 2 * Len(q)))
    /\ list' = [list EXCEPT ![g] = [array |-> Len(arrays) + 1, len |-> list[g].len + 1]]
    /\ Goes(g, "store")
    /\ UNCHANGED <<gattSvcs, gattChars, asked, left, got, dropping, helper, bounds, alone, clean>>

\* or where there is room, the element behind the slice written,
Writes(g, element) ==
    arrays' = [arrays EXCEPT ![list[g].array] = [@ EXCEPT ![list[g].len + 1] = element]]

\* one half of the new characteristic's and then the other,
Halves(g) ==
    LET was == arrays[list[g].array][list[g].len + 1]
        new == Handle(Head(left[g]))
    IN  {[uuid |-> new.uuid, service |-> was.service], [uuid |-> was.uuid, service |-> new.service]}

\* A variant lets the others see the first half.
AppendSeen(g) ==
    /\ pc[g] = "append" /\ list[g].len < Len(arrays[list[g].array])
    /\ \E half \in Halves(g) : Writes(g, half)
    /\ gattChars' = Longer(list[g])
    /\ Goes(g, "half")
    /\ UNCHANGED <<gattSvcs, asked, left, list, got, dropping, helper, bounds, alone, clean>>

AppendHalf(g) ==
    /\ pc[g] = "append" /\ list[g].len < Len(arrays[list[g].array])
    /\ \E half \in Halves(g) : Writes(g, half)
    /\ Goes(g, "half")
    /\ UNCHANGED <<gattSvcs, gattChars, asked, left, list, got, dropping, helper, bounds, alone,
                   clean>>

AppendRest(g) ==
    /\ pc[g] = "half"
    /\ Writes(g, Handle(Head(left[g])))
    /\ list' = [list EXCEPT ![g] = Longer(list[g])]
    /\ Goes(g, "store")
    /\ UNCHANGED <<gattSvcs, gattChars, asked, left, got, dropping, helper, bounds, alone, clean>>

\* and the slice stored.  A variant stores the new one alone.
StoreAlone(g) ==
    /\ pc[g] = "store"
    /\ arrays' = Append(arrays, <<Handle(Head(left[g]))>>)
    /\ gattChars' = [array |-> Len(arrays) + 1, len |-> 1]
    /\ Added(g)
    /\ UNCHANGED <<gattSvcs, asked, list, dropping, helper, bounds, alone, clean>>

Store(g) ==
    /\ pc[g] = "store"
    /\ gattChars' = list[g]
    /\ Added(g)
    /\ UNCHANGED <<gattSvcs, arrays, asked, list, dropping, helper, bounds, alone, clean>>

-----------------------------------------------------------------------------
(* The link, and Disconnect *)

Reconnect ==
    /\ reconnects > 0
    /\ reconnects' = reconnects - 1
    /\ svcsKnown' = FALSE /\ charsKnown' = {}
    /\ clean' = FALSE
    /\ UNCHANGED <<cache, callers, dropping, lookups, failures, alone>>

DropServices ==
    /\ ~dropping /\ ~clean
    /\ gattSvcs' = FALSE
    /\ dropping' = TRUE
    /\ UNCHANGED <<gattChars, arrays, callers, helper, bounds, alone, clean>>

\* A variant forgets the characteristics.
DropNothing ==
    /\ dropping
    /\ dropping' = FALSE
    /\ clean' = (~gattSvcs /\ \A g \in Callers : pc[g] = "idle")
    /\ UNCHANGED <<cache, callers, helper, bounds, alone>>

DropCharacteristics ==
    /\ dropping
    /\ gattChars' = NoSlice
    /\ dropping' = FALSE
    /\ clean' = (~gattSvcs /\ \A g \in Callers : pc[g] = "idle")
    /\ UNCHANGED <<gattSvcs, arrays, callers, helper, bounds, alone>>

Lookup(g) ==
    \/ CachedServices(g) \/ DiscoverServices(g) \/ StoreServices(g) \/ CallFails(g)
    \/ ServiceNotFound(g) \/ UnknownService(g) \/ DiscoverCharacteristics(g)
    \/ LoadOrStore(g) \/ AppendCopy(g) \/ AppendHalf(g) \/ AppendRest(g) \/ Store(g)

Next ==
    \/ \E g \in Callers : (\E c \in Chars : GetCharacteristic(g, c)) \/ Lookup(g)
    \/ Reconnect \/ DropServices \/ DropCharacteristics

Spec == Init /\ [][Next]_vars

-----------------------------------------------------------------------------
(* Properties *)

Handles == [uuid : Chars \cup {Nothing}, service : {ServiceOf(c) : c \in Chars} \cup {Nothing}]

Found(g) == pc[g] = "idle" /\ got[g] # NoHandle

\* gatt.go:114-123.  A lookup that finds something returns the characteristic
\* it was asked for, whatever else the helper answered, and whoever else looks
\* up meanwhile.
AskedFor == \A g \in Callers : Found(g) => got[g].uuid = asked[g]

\* gatt.go:139-149.  With its own service, as long as no two goroutines extend
\* the cache at once.
WithItsService == alone => \A g \in Callers : Found(g) => got[g] = Handle(asked[g])

\* gatt.go:139-149.  Even when two extend the cache at once and write into the
\* same room, nobody ever comes on an element that is not written through: what
\* shows, and what a lookup returns, has a uuid and a service.
Whole(e) == e.uuid # Nothing /\ e.service # Nothing

WholeHandles ==
    /\ \A e \in In(gattChars) : Whole(e)
    /\ \A g \in Callers : Found(g) => Whole(got[g])

\* gatt.go:139-149.  As long as no two extend it at once, what is in the cache
\* stays until Disconnect.
KeptAlone ==
    [][ alone' /\ ~DropCharacteristics =>
          \A e \in In(gattChars) :
            e \in {arrays'[gattChars'.array][i] : i \in 1..gattChars'.len} ]_vars

Returned(g) ==
    /\ pc'[g] = "idle" /\ got'[g] # NoHandle
    /\ pc[g] # "idle" \/ \E c \in Chars : GetCharacteristic(g, c)

\* README.md:171-174,403-412.  A lookup after a reconnection and a Disconnect
\* that no lookup went across returns a handle that is of use, and asks for
\* no service the helper does not know.
OfUse ==
    [][ \A g \in Callers : clean =>
          /\ ~UnknownService(g)
          /\ Returned(g) => got'[g].uuid \in charsKnown' ]_vars
=============================================================================
