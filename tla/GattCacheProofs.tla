-------------------------- MODULE GattCacheProofs --------------------------
(***************************************************************************)
(* What the cache keeps, and what a lookup returns: for any number of      *)
(* goroutines and characteristics, links that drop and calls that fail.    *)
(* The invariant has five parts: the types; what a goroutine has found so  *)
(* far; the cache as long as no two goroutines add to it at once; the      *)
(* cache once it was emptied in peace; and that no element shows before it *)
(* is written through.                                                     *)
(***************************************************************************)
EXTENDS GattCache, FiniteSetTheorems, SequenceTheorems, TLAPS

Points  == {"idle", "services", "keep", "discover", "load", "append", "half", "store"}
Caching == {"load", "append", "half", "store"}
Adding  == {"append", "half", "store"}

\* A slice is within its array.
Within(s) ==
    /\ s \in [array : 0..Len(arrays), len : Nat]
    /\ s.len > 0 => s.array \in 1..Len(arrays) /\ s.len <= Len(arrays[s.array])

Arrayed ==
    /\ arrays \in Seq(Seq(Handles))
    /\ Within(gattChars)
    /\ list = [g \in Callers |-> list[g]] /\ \A g \in Callers : Within(list[g])
    /\ \A g \in Callers : pc[g] \in Adding => list[g].len > 0
    /\ \A g \in Callers : pc[g] = "half" => list[g].len < Len(arrays[list[g].array])

Typed ==
    /\ gattSvcs \in BOOLEAN /\ svcsKnown \in BOOLEAN /\ charsKnown \subseteq Chars
    /\ dropping \in BOOLEAN /\ alone \in BOOLEAN /\ clean \in BOOLEAN
    /\ lookups \in 0..Lookups /\ reconnects \in 0..Reconnects /\ failures \in 0..Failures
    /\ pc \in [Callers -> Points] /\ asked \in [Callers -> Chars \cup {Nothing}]
    /\ got \in [Callers -> Handles] /\ left \in [Callers -> Seq(Chars)]
    /\ \A g \in Callers : pc[g] # "idle" => asked[g] \in Chars
    /\ \A g \in Callers : pc[g] \in Caching => left[g] # <<>>

\* What a goroutine has found so far is the characteristic it looks for.
Meant ==
    \A g \in Callers :
        /\ got[g] # NoHandle => got[g].uuid = asked[g]
        /\ pc[g] \in {"services", "keep", "discover"} => got[g] = NoHandle

Complete(e) == e = Handle(e.uuid)
All(s) == \A i \in 1..s.len : Complete(arrays[s.array][i])

\* As long as no two add at once, one that adds has the cached slice, unless
\* that has gone, and then one with all of it, and nothing incomplete is in
\* either.
Kept(g) ==
    /\ pc[g] \in Adding => All(list[g])
    /\ pc[g] \in {"append", "half"} => gattChars.len = 0 \/ gattChars = list[g]
    /\ pc[g] = "store" =>
         /\ gattChars.len < list[g].len
         /\ \A i \in 1..gattChars.len : arrays[gattChars.array][i] = arrays[list[g].array][i]

InTurn ==
    alone =>
      /\ \A g, h \in Callers : pc[g] \in Adding /\ pc[h] \in Adding => g = h
      /\ All(gattChars)
      /\ \A g \in Callers : Kept(g)
      /\ \A g \in Callers : got[g] # NoHandle => Complete(got[g])

\* Once the cache was emptied in peace, the helper knows all there is in it,
\* and all that is on its way to it.
Known(s) ==
    s.len > 0 => \A i \in 1..Len(arrays[s.array]) :
                   arrays[s.array][i].uuid \in charsKnown \cup {Nothing}

InPeace ==
    clean =>
      /\ ~dropping
      /\ gattSvcs => svcsKnown
      /\ Known(gattChars)
      /\ \A g \in Callers :
           /\ pc[g] \in {"keep", "discover"} \cup Caching => svcsKnown
           /\ pc[g] \in Caching => \A i \in 1..Len(left[g]) : left[g][i] \in charsKnown
           /\ pc[g] \in Caching /\ got[g] # NoHandle => got[g].uuid \in charsKnown
           /\ pc[g] \in Adding => Known(list[g])

\* However many add at once, every element a slice shows is written through,
\* and so is what a lookup found.
Written(s) == \A i \in 1..s.len : Whole(arrays[s.array][i])

Filled ==
    /\ Written(gattChars)
    /\ \A g \in Callers : Written(list[g])
    /\ \A g \in Callers : got[g] # NoHandle => Whole(got[g])

IInv == Typed /\ Arrayed /\ Meant /\ InTurn /\ InPeace /\ Filled

-----------------------------------------------------------------------------

\* One more array leaves the others as they are.
LEMMA Grown ==
    ASSUME NEW H, NEW a \in Seq(Seq(H)), NEW q \in Seq(H)
    PROVE  /\ Append(a, q) \in Seq(Seq(H)) /\ Len(a) \in Nat /\ Len(Append(a, q)) = Len(a) + 1
           /\ \A k \in 1..Len(a) : Append(a, q)[k] = a[k]
           /\ Append(a, q)[Len(a) + 1] = q
BY AppendProperties, LenProperties

\* And so does writing one element of an array.
LEMMA Overwritten ==
    ASSUME NEW H, NEW a \in Seq(Seq(H)), NEW k \in 1..Len(a), NEW i \in 1..Len(a[k]),
           NEW e \in H, NEW b, b = [a EXCEPT ![k] = [a[k] EXCEPT ![i] = e]]
    PROVE  /\ b \in Seq(Seq(H)) /\ Len(b) = Len(a)
           /\ \A m \in 1..Len(a) : /\ Len(b[m]) = Len(a[m])
                                   /\ \A j \in 1..Len(a[m]) :
                                        b[m][j] = IF m = k /\ j = i THEN e ELSE a[m][j]
<1> DEFINE q == [a[k] EXCEPT ![i] = e]
<1>1. a[k] \in Seq(H)
  BY ElementOfSeq
<1>2. /\ q \in Seq(H) /\ Len(q) = Len(a[k])
      /\ \A j \in 1..Len(a[k]) : q[j] = IF j = i THEN e ELSE a[k][j]
  BY <1>1, ExceptSeq
<1> HIDE DEF q
<1>3. /\ b \in Seq(Seq(H)) /\ Len(b) = Len(a)
      /\ \A m \in 1..Len(a) : b[m] = IF m = k THEN q ELSE a[m]
  BY <1>2, ExceptSeq DEF q
<1>4. QED BY <1>2, <1>3

\* The head of what is left to cache, and what is left behind it.
LEMMA HeadTail ==
    ASSUME NEW S, NEW q \in Seq(S), q # <<>>
    PROVE  /\ Head(q) \in S /\ Head(q) = q[1] /\ Tail(q) \in Seq(S) /\ Len(q) \in Nat \ {0}
           /\ Len(Tail(q)) = Len(q) - 1 /\ \A i \in 1..Len(Tail(q)) : Tail(q)[i] = q[i + 1]
BY HeadTailProperties, EmptySeq, LenProperties

\* A set can be put in order.
LEMMA Ordered ==
    ASSUME NEW S \in SUBSET Chars
    PROVE  /\ Cardinality(S) \in Nat /\ Order(S) \in Orders(S)
           /\ \A q \in Orders(S) : q \in Seq(S) /\ Len(q) = Cardinality(S)
<1>1. IsFiniteSet(S)
  BY GattAssumption, FS_Subset DEF GattAssumption
<1>2. Cardinality(S) \in Nat /\ ExistsBijection(1..Cardinality(S), S)
  BY <1>1, FS_CardinalityType
<1>3. PICK q \in [1..Cardinality(S) -> S] : \A c \in S : \E i \in 1..Cardinality(S) : q[i] = c
  BY <1>2 DEF ExistsBijection, Bijection, Surjection
<1>4. q \in Orders(S)
  BY <1>3 DEF Orders
<1>5. \A p \in Orders(S) : p \in Seq(S) /\ Len(p) = Cardinality(S)
  BY <1>2, LenProperties, SeqDef DEF Orders
<1>6. Order(S) \in Orders(S)
  BY <1>4 DEF Order
<1>7. QED BY <1>2, <1>5, <1>6

\* Handles are handles.
LEMMA HandleTyped ==
    /\ \A c \in Chars : Handle(c) \in Handles /\ Handle(c).uuid = c
    /\ NoHandle \in Handles /\ NoHandle.uuid = Nothing
    /\ \A c \in Chars : Handle(c) # NoHandle
BY GattAssumption DEF GattAssumption, Handle, NoHandle, Handles

\* Every handle made is complete.
LEMMA HandleComplete ==
    /\ \A c \in Chars : Complete(Handle(c))
    /\ Complete(NoHandle)
BY GattAssumption DEF GattAssumption, Complete, Handle, NoHandle, ServiceOf

\* An array with room to grow into.
LEMMA PaddedTyped ==
    ASSUME NEW q \in Seq(Handles), NEW n \in Nat, Len(q) <= n
    PROVE  /\ Padded(q, n) \in Seq(Handles) /\ Len(Padded(q, n)) = n
           /\ \A i \in 1..Len(q) : Padded(q, n)[i] = q[i]
           /\ \A i \in 1..n : i > Len(q) => Padded(q, n)[i] = NoHandle
<1>1. Len(q) \in Nat /\ \A i \in 1..Len(q) : q[i] \in Handles
  BY LenProperties, ElementOfSeq
<1>2. Padded(q, n) \in [1..n -> Handles]
  BY <1>1, HandleTyped DEF Padded
<1>3. Padded(q, n) \in Seq(Handles) /\ Len(Padded(q, n)) = n
  BY <1>2, SeqDef, LenProperties
<1>4. QED BY <1>1, <1>3 DEF Padded

\* What a slice shows are handles.
LEMMA Shown ==
    ASSUME Arrayed, NEW s, Within(s), s.len > 0
    PROVE  /\ s.array \in 1..Len(arrays) /\ s.len \in Nat
           /\ arrays[s.array] \in Seq(Handles) /\ Len(arrays[s.array]) \in Nat
           /\ s.len <= Len(arrays[s.array])
           /\ \A i \in 1..Len(arrays[s.array]) : arrays[s.array][i] \in Handles
BY ElementOfSeq, LenProperties DEF Arrayed, Within

\* A hit in the cache.
LEMMA Hit ==
    ASSUME Arrayed, NEW c \in Chars, NEW e \in findCharacteristic(gattChars, c)
    PROVE  \E i \in 1..gattChars.len :
             e = arrays[gattChars.array][i] /\ e \in Handles /\ e.uuid = c /\ e # NoHandle
<1>1. Within(gattChars) /\ gattChars.len \in Nat
  BY DEF Arrayed, Within
<1>2. PICK i \in 1..gattChars.len : e = arrays[gattChars.array][i]
  BY DEF findCharacteristic, In
<1>3. gattChars.len > 0
  BY <1>1, <1>2
<1>4. e \in Handles
  BY <1>1, <1>2, <1>3, Shown
<1>5. e.uuid = c /\ c # Nothing
  BY GattAssumption DEF GattAssumption, findCharacteristic
<1>6. QED BY <1>2, <1>4, <1>5 DEF NoHandle

\* A lookup begins: it has its answer, or goes on without one.
LEMMA Begins ==
    ASSUME Typed, Arrayed, NEW g \in Callers, NEW c \in Chars, GetCharacteristic(g, c)
    PROVE  /\ pc[g] = "idle" /\ asked' = [asked EXCEPT ![g] = c]
           /\ pc' = pc \/ pc' = [pc EXCEPT ![g] = "services"]
           /\ \/ pc' = [pc EXCEPT ![g] = "services"] /\ got' = [got EXCEPT ![g] = NoHandle]
              \/ /\ pc' = pc
                 /\ \E e \in findCharacteristic(gattChars, c) : got' = [got EXCEPT ![g] = e]
           /\ UNCHANGED <<gattSvcs, gattChars, arrays, left, list, dropping, svcsKnown, charsKnown,
                          reconnects, failures, alone, clean>>
           /\ lookups > 0 /\ lookups' = lookups - 1
BY DEF GetCharacteristic, Goes, Returns, cache, helper

\* One answer is cached, or was: on with the rest.
LEMMA GoesOn ==
    ASSUME Typed, NEW g \in Callers, pc[g] \in Caching, Added(g)
    PROVE  /\ got' = [got EXCEPT ![g] = Answered(g)] /\ Answered(g) \in Handles
           /\ left' = [left EXCEPT ![g] = Tail(left[g])] /\ Tail(left[g]) \in Seq(Chars)
           /\ \/ pc' = [pc EXCEPT ![g] = "idle"]
              \/ pc' = [pc EXCEPT ![g] = "load"] /\ Tail(left[g]) # <<>>
<1>1. left[g] \in Seq(Chars) /\ left[g] # <<>> /\ asked[g] \in Chars /\ got[g] \in Handles
  BY DEF Typed, Caching
<1>2. Tail(left[g]) \in Seq(Chars)
  BY <1>1, HeadTail
<1>3. Answered(g) \in Handles
  BY <1>1, HandleTyped DEF Answered
<1>4. QED BY <1>2, <1>3 DEF Added, Returns, Goes

\* The types.
LEMMA TypedStep ==
    ASSUME Typed, Arrayed, [Next]_vars
    PROVE  Typed'
<1>0. Lookups \in Nat /\ Reconnects \in Nat /\ Failures \in Nat
  BY GattAssumption DEF GattAssumption
<1> USE DEF Typed, Points, Caching, cache, callers, helper, bounds
<1>1. ASSUME NEW g \in Callers, NEW c \in Chars, GetCharacteristic(g, c) PROVE Typed'
  <2>1. got' \in [Callers -> Handles]
    <3>1. got' = [got EXCEPT ![g] = NoHandle]
            \/ \E e \in findCharacteristic(gattChars, c) : got' = [got EXCEPT ![g] = e]
      BY <1>1, Begins
    <3>2. NoHandle \in Handles /\ \A e \in findCharacteristic(gattChars, c) : e \in Handles
      BY Hit, HandleTyped
    <3>3. QED BY <3>1, <3>2
  <2>2. pc' = pc \/ pc' = [pc EXCEPT ![g] = "services"]
    BY <1>1, Begins
  <2>3. /\ pc' \in [Callers -> Points]
        /\ \A h \in Callers : pc'[h] = pc[h] \/ (pc'[h] = "services" /\ h = g)
    <3>1. CASE pc' = pc
      BY <3>1
    <3>2. CASE pc' = [pc EXCEPT ![g] = "services"]
      BY <3>2
    <3>3. QED BY <2>2, <3>1, <3>2
  <2>4. asked' = [asked EXCEPT ![g] = c] /\ lookups > 0 /\ lookups' = lookups - 1
        /\ UNCHANGED <<gattSvcs, left, dropping, svcsKnown, charsKnown, reconnects, failures, alone,
                       clean>>
    BY <1>1, Begins
  <2>5. /\ asked' \in [Callers -> Chars \cup {Nothing}]
        /\ \A h \in Callers : asked'[h] = IF h = g THEN c ELSE asked[h]
    BY <2>4
  <2>6. lookups' \in 0..Lookups
    BY <2>4, <1>0
  <2>7. QED BY <2>1, <2>3, <2>4, <2>5, <2>6
<1>2. ASSUME NEW g \in Callers, CachedServices(g) PROVE Typed'
  BY <1>2 DEF CachedServices, Goes
<1>3. ASSUME NEW g \in Callers, DiscoverServices(g) PROVE Typed'
  BY <1>3 DEF DiscoverServices, Goes
<1>4. ASSUME NEW g \in Callers, StoreServices(g) PROVE Typed'
  BY <1>4 DEF StoreServices, Goes
<1>5. ASSUME NEW g \in Callers, CallFails(g) PROVE Typed'
  BY <1>0, <1>5 DEF CallFails, Goes
<1>6. ASSUME NEW g \in Callers, ServiceNotFound(g) \/ UnknownService(g) PROVE Typed'
  BY <1>6 DEF ServiceNotFound, UnknownService, Goes
<1>7. ASSUME NEW g \in Callers, DiscoverCharacteristics(g) PROVE Typed'
  <2>1. charsKnown' \subseteq Chars /\ SameService(asked[g], charsKnown') \subseteq Chars
    BY <1>7 DEF DiscoverCharacteristics, SameService
  <2>2. PICK q \in Orders(SameService(asked[g], charsKnown')) :
          /\ left' = [left EXCEPT ![g] = q]
          /\ pc' = [pc EXCEPT ![g] = IF q = <<>> THEN "idle" ELSE "load"]
    BY <1>7 DEF DiscoverCharacteristics, Goes
  <2>3. q \in Seq(Chars)
    <3>1. q \in Seq(SameService(asked[g], charsKnown'))
      BY <2>1, <2>2, Ordered
    <3>2. QED BY <2>1, <3>1, SeqMonotonic
  <2>4. /\ UNCHANGED <<cache, asked, list, got, dropping, svcsKnown, bounds, alone, clean>>
        /\ pc[g] = "discover"
    BY <1>7 DEF DiscoverCharacteristics
  <2>5. left' \in [Callers -> Seq(Chars)] /\ pc' \in [Callers -> Points]
    BY <2>2, <2>3
  <2>6. \A h \in Callers : pc'[h] \in Caching => left'[h] # <<>>
    BY <2>2
  <2>7. \A h \in Callers : pc'[h] # "idle" => asked'[h] \in Chars
    BY <2>2, <2>4
  <2>8. QED BY <2>1, <2>4, <2>5, <2>6, <2>7
<1>8. ASSUME NEW g \in Callers, pc[g] \in Caching, Added(g),
             UNCHANGED <<gattSvcs, asked, dropping, helper, bounds, clean>>, alone' \in BOOLEAN
      PROVE  Typed'
  <2>1. /\ got' = [got EXCEPT ![g] = Answered(g)] /\ Answered(g) \in Handles
        /\ left' = [left EXCEPT ![g] = Tail(left[g])] /\ Tail(left[g]) \in Seq(Chars)
        /\ \/ pc' = [pc EXCEPT ![g] = "idle"]
           \/ pc' = [pc EXCEPT ![g] = "load"] /\ Tail(left[g]) # <<>>
    BY <1>8, GoesOn
  <2>2. /\ got' \in [Callers -> Handles] /\ left' \in [Callers -> Seq(Chars)]
        /\ \A h \in Callers : left'[h] = IF h = g THEN Tail(left[g]) ELSE left[h]
    BY <2>1
  <2>3. /\ pc' \in [Callers -> Points] /\ pc'[g] \in {"idle", "load"}
        /\ (pc'[g] = "load" => Tail(left[g]) # <<>>)
        /\ \A h \in Callers : h # g => pc'[h] = pc[h]
    <3>1. CASE pc' = [pc EXCEPT ![g] = "idle"]
      BY <3>1
    <3>2. CASE pc' = [pc EXCEPT ![g] = "load"] /\ Tail(left[g]) # <<>>
      BY <3>2
    <3>3. QED BY <2>1, <3>1, <3>2
  <2>4. \A h \in Callers : pc'[h] \in Caching => left'[h] # <<>>
    BY <2>2, <2>3
  <2>5. \A h \in Callers : pc'[h] # "idle" => asked'[h] \in Chars
    BY <1>8, <2>3
  <2>6. QED BY <1>8, <2>2, <2>3, <2>4, <2>5
<1>9. ASSUME NEW g \in Callers, LoadOrStore(g) PROVE Typed'
  <2>1. /\ pc[g] = "load" /\ alone' \in BOOLEAN
        /\ UNCHANGED <<gattSvcs, asked, dropping, helper, bounds, clean>>
    BY <1>9 DEF LoadOrStore
  <2>2. CASE Added(g)
    BY <2>1, <2>2, <1>8
  <2>3. CASE Goes(g, "append") /\ UNCHANGED <<left, got>>
    BY <2>1, <2>3 DEF Goes
  <2>4. QED BY <1>9, <2>2, <2>3 DEF LoadOrStore
<1>10. ASSUME NEW g \in Callers, AppendCopy(g) PROVE Typed'
  BY <1>10 DEF AppendCopy, Goes
<1>11. ASSUME NEW g \in Callers, AppendHalf(g) PROVE Typed'
  BY <1>11 DEF AppendHalf, Goes
<1>12. ASSUME NEW g \in Callers, AppendRest(g) PROVE Typed'
  BY <1>12 DEF AppendRest, Goes
<1>13. ASSUME NEW g \in Callers, Store(g) PROVE Typed'
  BY <1>13, <1>8 DEF Store
<1>14. ASSUME Reconnect PROVE Typed'
  <2>1. /\ reconnects > 0 /\ reconnects' = reconnects - 1 /\ svcsKnown' = FALSE /\ charsKnown' = {}
        /\ clean' = FALSE /\ UNCHANGED <<cache, callers, dropping, lookups, failures, alone>>
    BY <1>14 DEF Reconnect
  <2>2. reconnects' \in 0..Reconnects
    BY <2>1, <1>0
  <2>3. QED BY <2>1, <2>2
<1>15. ASSUME DropServices PROVE Typed'
  BY <1>15 DEF DropServices
<1>16. ASSUME DropCharacteristics PROVE Typed'
  BY <1>16 DEF DropCharacteristics
<1>17. ASSUME UNCHANGED vars PROVE Typed'
  BY <1>17 DEF vars
<1>18. QED
  BY <1>1, <1>2, <1>3, <1>4, <1>5, <1>6, <1>7, <1>9, <1>10, <1>11, <1>12, <1>13, <1>14, <1>15,
     <1>16, <1>17 DEF Next, Lookup

\* A lookup that does not touch the cached slice yet.
Looks(g) ==
    \/ \E c \in Chars : GetCharacteristic(g, c)
    \/ CachedServices(g) \/ DiscoverServices(g) \/ StoreServices(g) \/ CallFails(g)
    \/ ServiceNotFound(g) \/ UnknownService(g) \/ DiscoverCharacteristics(g)

\* What the goroutines that add do, and where they are then.
LEMMA Calm ==
    ASSUME Typed, NEW g \in Callers, Looks(g)
    PROVE  /\ UNCHANGED <<gattChars, arrays, list, alone, clean, dropping>>
           /\ pc[g] \notin Caching /\ pc'[g] \notin Adding
           /\ \A h \in Callers : h # g => pc'[h] = pc[h]
<1> USE DEF Typed, Points, Caching, Adding, cache, bounds, helper
<1>1. ASSUME NEW c \in Chars, GetCharacteristic(g, c)
      PROVE  /\ UNCHANGED <<gattChars, arrays, list, alone, clean, dropping>>
             /\ pc[g] = "idle" /\ (pc' = pc \/ pc' = [pc EXCEPT ![g] = "services"])
  BY <1>1 DEF GetCharacteristic, Goes
<1>2. ASSUME CachedServices(g) \/ DiscoverServices(g) \/ StoreServices(g) \/ CallFails(g)
              \/ ServiceNotFound(g) \/ UnknownService(g) \/ DiscoverCharacteristics(g)
      PROVE  /\ UNCHANGED <<gattChars, arrays, list, alone, clean, dropping>>
             /\ pc[g] \in {"services", "keep", "discover"}
             /\ \E p \in {"discover", "keep", "idle", "load"} : pc' = [pc EXCEPT ![g] = p]
  BY <1>2 DEF CachedServices, DiscoverServices, StoreServices, CallFails,
     ServiceNotFound, UnknownService, DiscoverCharacteristics, Goes
<1>3. QED BY <1>1, <1>2 DEF Looks

\* The three ways through addCharacteristicToCache's first line.
LEMMA Loads ==
    ASSUME Typed, NEW g \in Callers, LoadOrStore(g)
    PROVE  /\ pc[g] = "load" /\ left[g] \in Seq(Chars) /\ Head(left[g]) \in Chars
           /\ UNCHANGED <<gattSvcs, asked, dropping, svcsKnown, charsKnown, clean>>
           /\ alone' = (alone /\ \A o \in Callers \ {g} : pc[o] \notin Adding)
           /\ \/ /\ gattChars.len = 0 /\ arrays' = Append(arrays, <<Handle(Head(left[g]))>>)
                 /\ gattChars' = [array |-> Len(arrays) + 1, len |-> 1]
                 /\ Added(g) /\ list' = list
              \/ Added(g) /\ UNCHANGED <<arrays, gattChars, list>>
              \/ /\ gattChars.len > 0 /\ list' = [list EXCEPT ![g] = gattChars]
                 /\ pc' = [pc EXCEPT ![g] = "append"]
                 /\ UNCHANGED <<arrays, gattChars, left, got>>
<1>1. pc[g] = "load"
  BY DEF LoadOrStore
<1>2. left[g] \in Seq(Chars) /\ Head(left[g]) \in Chars
  BY <1>1, HeadTail DEF Typed, Caching
<1>3. QED BY <1>1, <1>2 DEF LoadOrStore, Goes, Adding, helper

\* A goroutine's slice has the array it had, or one of the length.
SameRoom(h) == list[h].len > 0 => Len(arrays'[list'[h].array]) = Len(arrays[list[h].array])

\* Slices that stay do as well, when arrays are only added or written in.
LEMMA StillWithin ==
    ASSUME Arrayed, arrays' \in Seq(Seq(Handles)), Len(arrays) <= Len(arrays'),
           \A m \in 1..Len(arrays) : Len(arrays'[m]) = Len(arrays[m])
    PROVE  /\ gattChars' = gattChars => Within(gattChars)'
           /\ \A h \in Callers : list'[h] = list[h] => Within(list[h])' /\ SameRoom(h)
<1>1. Len(arrays) \in Nat /\ Len(arrays') \in Nat
  BY LenProperties DEF Arrayed
<1>2. ASSUME NEW s, Within(s)
      PROVE  /\ s \in [array : 0..Len(arrays'), len : Nat]
             /\ s.len > 0 => s.array \in 1..Len(arrays') /\ s.len <= Len(arrays'[s.array])
                             /\ Len(arrays'[s.array]) = Len(arrays[s.array])
  BY <1>1, <1>2 DEF Within
<1>3. QED BY <1>2 DEF Arrayed, Within, SameRoom

\* An element half of which was written is made of two that are typed.
LEMMA HalvesTyped ==
    ASSUME Typed, Arrayed, NEW g \in Callers, pc[g] = "append",
           list[g].len < Len(arrays[list[g].array]), NEW e \in Halves(g)
    PROVE  /\ e \in Handles
           /\ e.uuid \in {arrays[list[g].array][list[g].len + 1].uuid, Head(left[g])}
           /\ Head(left[g]) = left[g][1] /\ 1 \in 1..Len(left[g])
<1>1. list[g].len > 0 /\ Within(list[g]) /\ left[g] \in Seq(Chars) /\ left[g] # <<>>
  BY DEF Arrayed, Typed, Adding, Caching
<1>2. list[g].len + 1 \in 1..Len(arrays[list[g].array])
  BY <1>1, Shown
<1>3. arrays[list[g].array][list[g].len + 1] \in Handles
  BY <1>1, <1>2, Shown
<1>4. /\ Handle(Head(left[g])) \in Handles /\ Handle(Head(left[g])).uuid = Head(left[g])
      /\ Head(left[g]) = left[g][1] /\ 1 \in 1..Len(left[g])
  BY <1>1, HeadTail, HandleTyped
<1>5. QED BY <1>3, <1>4 DEF Halves, Handles

\* What may become of the slices and the arrays.
LEMMA ArrayedStep ==
    ASSUME Typed, Arrayed, [Next]_vars
    PROVE  Arrayed'
<1>1. ASSUME UNCHANGED <<gattChars, arrays, list>>,
             \A h \in Callers : pc'[h] \in Adding => pc'[h] = pc[h]
      PROVE  Arrayed'
  BY <1>1 DEF Arrayed, Within, Adding
<1>2. ASSUME NEW g \in Callers, Looks(g) PROVE Arrayed'
  BY <1>1, <1>2, Calm
<1>3. ASSUME NEW g \in Callers, pc[g] \in Caching, Added(g)
      PROVE  pc'[g] \notin Adding /\ \A h \in Callers : pc'[h] \in Adding => h # g /\ pc'[h] = pc[h]
  <2>1. pc \in [Callers -> Points]
    BY DEF Typed
  <2>2. pc' = [pc EXCEPT ![g] = "idle"] \/ pc' = [pc EXCEPT ![g] = "load"]
    BY <1>3, GoesOn
  <2>3. QED BY <2>1, <2>2 DEF Adding
<1>4. ASSUME NEW g \in Callers, LoadOrStore(g) PROVE Arrayed'
  <2>1. CASE Added(g) /\ UNCHANGED <<arrays, gattChars, list>>
    BY <1>1, <1>3, <1>4, <2>1, Loads DEF Caching
  <2>2. CASE /\ arrays' = Append(arrays, <<Handle(Head(left[g]))>>)
             /\ gattChars' = [array |-> Len(arrays) + 1, len |-> 1]
             /\ Added(g) /\ list' = list
    <3>1. <<Handle(Head(left[g]))>> \in Seq(Handles) /\ Len(<<Handle(Head(left[g]))>>) = 1
      BY <1>4, Loads, HandleTyped
    <3>2. /\ arrays' \in Seq(Seq(Handles)) /\ Len(arrays) \in Nat /\ Len(arrays') = Len(arrays) + 1
          /\ \A m \in 1..Len(arrays) : arrays'[m] = arrays[m]
          /\ Len(arrays'[Len(arrays) + 1]) = 1
      BY <2>2, <3>1, Grown DEF Arrayed
    <3>3. Within(gattChars)'
      BY <2>2, <3>2 DEF Within
    <3>4. \A h \in Callers : pc'[h] \in Adding => pc'[h] = pc[h]
      BY <1>3, <1>4, <2>2, Loads DEF Caching
    <3>5. \A h \in Callers : Within(list[h])' /\ SameRoom(h)
      <4>1. Len(arrays) <= Len(arrays') /\ \A m \in 1..Len(arrays) : Len(arrays'[m]) = Len(arrays[m])
        BY <3>2
      <4>2. \A h \in Callers : list'[h] = list[h]
        BY <2>2
      <4>3. QED BY <3>2, <4>1, <4>2, StillWithin
    <3>6. QED BY <2>2, <3>2, <3>3, <3>4, <3>5 DEF Arrayed, Adding, SameRoom
  <2>3. CASE /\ gattChars.len > 0 /\ list' = [list EXCEPT ![g] = gattChars]
             /\ pc' = [pc EXCEPT ![g] = "append"]
             /\ UNCHANGED <<arrays, gattChars, left, got>>
    <3>1. /\ list' = [h \in Callers |-> list'[h]]
          /\ \A h \in Callers : list'[h] = IF h = g THEN gattChars ELSE list[h]
      BY <2>3 DEF Arrayed
    <3>2. \A h \in Callers : pc'[h] = IF h = g THEN "append" ELSE pc[h]
      BY <2>3 DEF Typed
    <3>3. QED BY <2>3, <3>1, <3>2 DEF Arrayed, Within, Adding
  <2>4. QED BY <1>4, <2>1, <2>2, <2>3, Loads
<1>5. ASSUME NEW g \in Callers, AppendCopy(g) PROVE Arrayed'
  <2> DEFINE s == list[g]
             q == arrays[s.array]
             h0 == Handle(Head(left[g]))
             new == Padded(Append(q, h0), 2 * Len(q))
  <2>1. /\ pc[g] = "append" /\ s.len = Len(q) /\ arrays' = Append(arrays, new)
        /\ list' = [list EXCEPT ![g] = [array |-> Len(arrays) + 1, len |-> s.len + 1]]
        /\ pc' = [pc EXCEPT ![g] = "store"] /\ gattChars' = gattChars
    BY <1>5 DEF AppendCopy, Goes
  <2>2. s.len > 0 /\ Within(s) /\ left[g] \in Seq(Chars) /\ left[g] # <<>>
    BY <2>1 DEF Arrayed, Typed, Caching, Adding
  <2>3. q \in Seq(Handles) /\ Len(q) \in Nat
    BY <2>2, Shown
  <2>4. h0 \in Handles
    BY <2>2, HeadTail, HandleTyped
  <2> HIDE DEF h0
  <2>5. Append(q, h0) \in Seq(Handles) /\ Len(Append(q, h0)) = Len(q) + 1
    BY <2>3, <2>4, AppendProperties
  <2>6. new \in Seq(Handles) /\ Len(new) = 2 * Len(q)
    <3>1. 2 * Len(q) \in Nat /\ Len(Append(q, h0)) <= 2 * Len(q)
      BY <2>1, <2>2, <2>3, <2>5
    <3>2. QED BY <2>5, <3>1, PaddedTyped
  <2> HIDE DEF new
  <2>7. /\ arrays' \in Seq(Seq(Handles)) /\ Len(arrays) \in Nat /\ Len(arrays') = Len(arrays) + 1
        /\ \A m \in 1..Len(arrays) : arrays'[m] = arrays[m]
        /\ arrays'[Len(arrays) + 1] = new
    BY <2>1, <2>6, Grown DEF Arrayed
  <2>8. list' = [h \in Callers |-> list'[h]] /\ \A h \in Callers :
          list'[h] = IF h = g THEN [array |-> Len(arrays) + 1, len |-> s.len + 1] ELSE list[h]
    BY <2>1 DEF Arrayed
  <2>9. \A h \in Callers : pc'[h] = IF h = g THEN "store" ELSE pc[h]
    BY <2>1 DEF Typed
  <2>10. Within(gattChars)' /\ \A h \in Callers \ {g} : Within(list[h])' /\ SameRoom(h)
    <3>1. Len(arrays) <= Len(arrays') /\ \A m \in 1..Len(arrays) : Len(arrays'[m]) = Len(arrays[m])
      BY <2>7
    <3>2. QED BY <2>1, <2>7, <2>8, <3>1, StillWithin
  <2>11. Within(list[g])' /\ list'[g].len > 0
    BY <2>1, <2>2, <2>3, <2>6, <2>7, <2>8 DEF Within
  <2>12. QED BY <2>7, <2>8, <2>9, <2>10, <2>11 DEF Arrayed, Adding, SameRoom
<1>6. ASSUME NEW g \in Callers, NEW e \in Handles, pc[g] \in {"append", "half"},
             list[g].len < Len(arrays[list[g].array]), Writes(g, e), gattChars' = gattChars
      PROVE  /\ arrays' \in Seq(Seq(Handles)) /\ Len(arrays') = Len(arrays)
             /\ \A m \in 1..Len(arrays) : Len(arrays'[m]) = Len(arrays[m])
             /\ Within(gattChars)'
  <2>1. list[g].len > 0 /\ Within(list[g])
    BY <1>6 DEF Arrayed, Adding
  <2>2. list[g].array \in 1..Len(arrays) /\ list[g].len + 1 \in 1..Len(arrays[list[g].array])
    BY <1>6, <2>1, Shown
  <2>3. /\ arrays' \in Seq(Seq(Handles)) /\ Len(arrays') = Len(arrays)
        /\ \A m \in 1..Len(arrays) : Len(arrays'[m]) = Len(arrays[m])
    BY <1>6, <2>2, Overwritten DEF Writes, Arrayed
  <2>4. Len(arrays) \in Nat
    BY LenProperties DEF Arrayed
  <2>5. QED BY <1>6, <2>3, <2>4, StillWithin
<1>7. ASSUME NEW g \in Callers, AppendHalf(g) PROVE Arrayed'
  <2>1. /\ pc[g] = "append" /\ list[g].len < Len(arrays[list[g].array]) /\ list' = list
        /\ gattChars' = gattChars /\ pc' = [pc EXCEPT ![g] = "half"]
    BY <1>7 DEF AppendHalf, Goes
  <2>2. PICK e \in Halves(g) : Writes(g, e)
    BY <1>7 DEF AppendHalf
  <2>3. e \in Handles
    BY <2>1, HalvesTyped DEF Arrayed, Typed
  <2>4. /\ arrays' \in Seq(Seq(Handles)) /\ Len(arrays') = Len(arrays)
        /\ \A m \in 1..Len(arrays) : Len(arrays'[m]) = Len(arrays[m])
        /\ Within(gattChars)'
    BY <1>6, <2>1, <2>2, <2>3
  <2>5. \A h \in Callers : pc'[h] = IF h = g THEN "half" ELSE pc[h]
    BY <2>1 DEF Typed
  <2>6. Len(arrays) \in Nat
    BY LenProperties DEF Arrayed
  <2>7. \A h \in Callers : Within(list[h])' /\ SameRoom(h)
    BY <2>1, <2>4, <2>6, StillWithin
  <2>8. QED BY <2>1, <2>4, <2>5, <2>7 DEF Arrayed, Adding, SameRoom
<1>8. ASSUME NEW g \in Callers, AppendRest(g) PROVE Arrayed'
  <2>1. /\ pc[g] = "half" /\ Writes(g, Handle(Head(left[g])))
        /\ list' = [list EXCEPT ![g] = [array |-> list[g].array, len |-> list[g].len + 1]]
        /\ gattChars' = gattChars /\ pc' = [pc EXCEPT ![g] = "store"]
    BY <1>8 DEF AppendRest, Goes, Longer
  <2>2. /\ list[g].len < Len(arrays[list[g].array]) /\ list[g].len > 0 /\ Within(list[g])
        /\ left[g] \in Seq(Chars) /\ left[g] # <<>>
    BY <2>1 DEF Arrayed, Typed, Adding, Caching
  <2>3. Handle(Head(left[g])) \in Handles
    BY <2>2, HeadTail, HandleTyped
  <2>4. /\ arrays' \in Seq(Seq(Handles)) /\ Len(arrays') = Len(arrays)
        /\ \A m \in 1..Len(arrays) : Len(arrays'[m]) = Len(arrays[m])
        /\ Within(gattChars)'
    BY <1>6, <2>1, <2>2, <2>3
  <2>5. \A h \in Callers : pc'[h] = IF h = g THEN "store" ELSE pc[h]
    BY <2>1 DEF Typed
  <2>6. Len(arrays) \in Nat /\ Len(arrays[list[g].array]) \in Nat /\ list[g].array \in 1..Len(arrays)
    BY <2>2, Shown, LenProperties DEF Arrayed
  <2>7. list' = [h \in Callers |-> list'[h]] /\ \A h \in Callers :
          list'[h] = IF h = g THEN [array |-> list[g].array, len |-> list[g].len + 1] ELSE list[h]
    BY <2>1 DEF Arrayed
  <2>8. \A h \in Callers \ {g} : Within(list[h])' /\ SameRoom(h)
    BY <2>4, <2>6, <2>7, StillWithin
  <2>9. Within(list[g])' /\ list'[g].len > 0
    BY <2>2, <2>4, <2>6, <2>7 DEF Within
  <2>10. QED BY <2>4, <2>5, <2>7, <2>8, <2>9 DEF Arrayed, Adding, SameRoom
<1>9. ASSUME NEW g \in Callers, Store(g) PROVE Arrayed'
  <2>1. pc[g] = "store" /\ gattChars' = list[g] /\ Added(g) /\ UNCHANGED <<arrays, list>>
    BY <1>9 DEF Store
  <2>2. \A h \in Callers : pc'[h] \in Adding => pc'[h] = pc[h]
    BY <1>3, <2>1 DEF Caching
  <2>3. QED BY <2>1, <2>2 DEF Arrayed, Within, Adding
<1>10. ASSUME Reconnect \/ DropServices PROVE Arrayed'
  BY <1>1, <1>10 DEF Reconnect, DropServices, cache, callers
<1>11. ASSUME DropCharacteristics PROVE Arrayed'
  <2>1. gattChars' = [array |-> 0, len |-> 0] /\ UNCHANGED <<arrays, list, pc>>
    BY <1>11 DEF DropCharacteristics, NoSlice, callers
  <2>2. Len(arrays) \in Nat
    BY LenProperties DEF Arrayed
  <2>3. QED BY <2>1, <2>2 DEF Arrayed, Within, Adding
<1>12. ASSUME UNCHANGED vars PROVE Arrayed'
  BY <1>1, <1>12 DEF vars, cache, callers
<1>13. QED
  BY <1>2, <1>4, <1>5, <1>7, <1>8, <1>9, <1>10, <1>11, <1>12 DEF Next, Lookup, Looks

\* A goroutine has only ever found what it looks for.
LEMMA MeantStep ==
    ASSUME Typed, Arrayed, Meant, [Next]_vars
    PROVE  Meant'
<1>1. ASSUME UNCHANGED <<asked, got>>,
             \A h \in Callers : pc'[h] \in {"services", "keep", "discover"} =>
                pc[h] \in {"services", "keep", "discover"}
      PROVE  Meant'
  BY <1>1 DEF Meant
<1>2. ASSUME NEW g \in Callers, NEW c \in Chars, GetCharacteristic(g, c) PROVE Meant'
  <2>1. asked' = [asked EXCEPT ![g] = c]
    BY <1>2, Begins
  <2>2. CASE pc' = [pc EXCEPT ![g] = "services"] /\ got' = [got EXCEPT ![g] = NoHandle]
    BY <2>1, <2>2 DEF Meant, Typed
  <2>3. CASE pc' = pc /\ \E e \in findCharacteristic(gattChars, c) : got' = [got EXCEPT ![g] = e]
    <3>1. PICK e \in findCharacteristic(gattChars, c) : got' = [got EXCEPT ![g] = e]
      BY <2>3
    <3>2. e.uuid = c /\ pc[g] = "idle"
      BY <1>2, Begins, Hit
    <3>3. QED BY <2>1, <2>3, <3>1, <3>2 DEF Meant, Typed
  <2>4. QED BY <1>2, <2>2, <2>3, Begins
<1>3. ASSUME NEW g \in Callers,
             CachedServices(g) \/ DiscoverServices(g) \/ StoreServices(g) \/ CallFails(g)
               \/ ServiceNotFound(g) \/ UnknownService(g) \/ DiscoverCharacteristics(g)
      PROVE  Meant'
  <2>1. /\ UNCHANGED <<asked, got>> /\ pc[g] \in {"services", "keep", "discover"}
        /\ \E p \in {"discover", "keep", "idle", "load"} : pc' = [pc EXCEPT ![g] = p]
    BY <1>3 DEF CachedServices, DiscoverServices, StoreServices, CallFails,
       ServiceNotFound, UnknownService, DiscoverCharacteristics, Goes
  <2>2. QED BY <1>1, <2>1 DEF Typed
<1>4. ASSUME NEW g \in Callers, pc[g] \in Caching, Added(g), asked' = asked PROVE Meant'
  <2>1. /\ got' = [got EXCEPT ![g] = Answered(g)]
        /\ (pc' = [pc EXCEPT ![g] = "idle"] \/ pc' = [pc EXCEPT ![g] = "load"])
    BY <1>4, GoesOn
  <2>2. Answered(g) # NoHandle => Answered(g).uuid = asked[g]
    BY <1>4 DEF Answered, Handle, Meant
  <2>3. \A h \in Callers : got'[h] # NoHandle => got'[h].uuid = asked[h]
    BY <2>1, <2>2 DEF Meant, Typed
  <2>4. \A h \in Callers : pc'[h] \in {"services", "keep", "discover"} => h # g /\ pc'[h] = pc[h]
    BY <2>1 DEF Typed
  <2>5. \A h \in Callers \ {g} : got'[h] = got[h]
    BY <2>1 DEF Typed
  <2>6. QED BY <1>4, <2>3, <2>4, <2>5 DEF Meant
<1>5. ASSUME NEW g \in Callers, LoadOrStore(g) PROVE Meant'
  <2>1. asked' = asked /\ pc[g] \in Caching
    BY <1>5, Loads DEF Caching
  <2>2. CASE Added(g)
    BY <1>4, <2>1, <2>2
  <2>3. CASE pc' = [pc EXCEPT ![g] = "append"] /\ UNCHANGED got
    BY <1>1, <2>1, <2>3 DEF Typed
  <2>4. QED BY <1>5, <2>2, <2>3, Loads
<1>6. ASSUME NEW g \in Callers, AppendCopy(g) \/ AppendHalf(g) \/ AppendRest(g) PROVE Meant'
  <2>1. UNCHANGED <<asked, got>> /\ \E p \in {"half", "store"} : pc' = [pc EXCEPT ![g] = p]
    BY <1>6 DEF AppendCopy, AppendHalf, AppendRest, Goes
  <2>2. QED BY <1>1, <2>1 DEF Typed
<1>7. ASSUME NEW g \in Callers, Store(g) PROVE Meant'
  BY <1>4, <1>7 DEF Store, Caching
<1>8. ASSUME Reconnect \/ DropServices \/ DropCharacteristics \/ UNCHANGED vars PROVE Meant'
  BY <1>1, <1>8 DEF Reconnect, DropServices, DropCharacteristics, vars, callers
<1>9. QED
  BY <1>2, <1>3, <1>5, <1>6, <1>7, <1>8 DEF Next, Lookup

-----------------------------------------------------------------------------

\* What was cached still is.
Stays ==
    \A i \in 1..gattChars.len :
        i \in 1..gattChars'.len /\ arrays'[gattChars'.array][i] = arrays[gattChars.array][i]

\* Handles found are complete ones, if those in the cache are.
LEMMA FoundComplete ==
    ASSUME Typed, Arrayed, Meant, NEW g \in Callers, pc[g] \in Caching, Added(g),
           \A h \in Callers : got[h] # NoHandle => Complete(got[h])
    PROVE  /\ \A h \in Callers : got'[h] # NoHandle => Complete(got'[h])
           /\ pc'[g] \notin Adding /\ \A h \in Callers : h # g => pc'[h] = pc[h]
<1>1. /\ got' = [got EXCEPT ![g] = Answered(g)]
      /\ (pc' = [pc EXCEPT ![g] = "idle"] \/ pc' = [pc EXCEPT ![g] = "load"])
  BY GoesOn
<1>2. asked[g] \in Chars
  BY DEF Typed, Caching
<1>3. Answered(g) # NoHandle => Complete(Answered(g))
  BY <1>2, HandleComplete DEF Answered
<1>4. \A h \in Callers : got'[h] # NoHandle => Complete(got'[h])
  BY <1>1, <1>3 DEF Typed
<1>5. pc'[g] \notin Adding /\ \A h \in Callers : h # g => pc'[h] = pc[h]
  BY <1>1 DEF Typed, Adding
<1>6. QED BY <1>4, <1>5

\* One goroutine at a time keeps what is cached, and keeps it complete.
LEMMA InTurnStep ==
    ASSUME Typed, Arrayed, Meant, InTurn, [Next]_vars, alone'
    PROVE  InTurn' /\ (~DropCharacteristics => Stays)
<1>1. ASSUME alone, UNCHANGED <<gattChars, arrays, list>>,
             \A h \in Callers : (pc'[h] = pc[h] \/ pc'[h] \notin Adding),
             \A h \in Callers : got'[h] # NoHandle => Complete(got'[h])
      PROVE  InTurn' /\ Stays
  <2>1. Stays
    BY <1>1 DEF Stays, Arrayed, Within
  <2>2. All(gattChars)' /\ \A g, h \in Callers : pc'[g] \in Adding /\ pc'[h] \in Adding => g = h
    BY <1>1 DEF InTurn, All
  <2>3. \A h \in Callers : Kept(h)'
    BY <1>1 DEF InTurn, Kept, All, Adding
  <2>4. QED BY <1>1, <2>1, <2>2, <2>3 DEF InTurn
<1>2. ASSUME NEW g \in Callers, Looks(g) PROVE InTurn' /\ Stays
  <2>1. /\ alone /\ UNCHANGED <<gattChars, arrays, list>>
        /\ \A h \in Callers : (pc'[h] = pc[h] \/ pc'[h] \notin Adding)
    BY <1>2, Calm
  <2>2. \A h \in Callers : got'[h] # NoHandle => Complete(got'[h])
    <3>1. ASSUME NEW c \in Chars, GetCharacteristic(g, c)
          PROVE  \A h \in Callers : got'[h] # NoHandle => Complete(got'[h])
      <4>1. CASE got' = [got EXCEPT ![g] = NoHandle]
        BY <2>1, <4>1 DEF InTurn, Typed
      <4>2. CASE \E e \in findCharacteristic(gattChars, c) : got' = [got EXCEPT ![g] = e]
        <5>1. PICK e \in findCharacteristic(gattChars, c) : got' = [got EXCEPT ![g] = e]
          BY <4>2
        <5>2. PICK i \in 1..gattChars.len : e = arrays[gattChars.array][i]
          BY Hit
        <5>3. Complete(e)
          BY <2>1, <5>2 DEF InTurn, All
        <5>4. QED BY <2>1, <5>1, <5>3 DEF InTurn, Typed
      <4>3. QED BY <3>1, <4>1, <4>2, Begins
    <3>2. ASSUME UNCHANGED got PROVE \A h \in Callers : got'[h] # NoHandle => Complete(got'[h])
      BY <2>1, <3>2 DEF InTurn
    <3>3. QED
      BY <1>2, <3>1, <3>2 DEF Looks, CachedServices, DiscoverServices, StoreServices, CallFails,
         ServiceNotFound, UnknownService, DiscoverCharacteristics
  <2>3. QED BY <1>1, <2>1, <2>2
<1>3. ASSUME alone, \A h \in Callers : pc'[h] \notin Adding, All(gattChars)',
             \A h \in Callers : got'[h] # NoHandle => Complete(got'[h])
      PROVE  InTurn'
  BY <1>3 DEF InTurn, Kept, Adding
<1>4. ASSUME NEW g \in Callers, LoadOrStore(g) PROVE InTurn' /\ Stays
  <2>1. alone /\ pc[g] = "load" /\ pc[g] \in Caching /\ \A h \in Callers : pc[h] \notin Adding
    BY <1>4, Loads DEF Adding, Caching
  <2>2. All(gattChars) /\ \A h \in Callers : got[h] # NoHandle => Complete(got[h])
    BY <2>1 DEF InTurn
  <2>3. ASSUME Added(g) PROVE /\ \A h \in Callers : pc'[h] \notin Adding
                              /\ \A h \in Callers : got'[h] # NoHandle => Complete(got'[h])
    BY <2>1, <2>2, <2>3, FoundComplete
  <2>4. CASE Added(g) /\ UNCHANGED <<arrays, gattChars, list>>
    BY <1>1, <2>1, <2>3, <2>4
  <2>5. CASE /\ gattChars.len = 0 /\ arrays' = Append(arrays, <<Handle(Head(left[g]))>>)
             /\ gattChars' = [array |-> Len(arrays) + 1, len |-> 1]
             /\ Added(g)
    <3>1. Head(left[g]) \in Chars
      BY <1>4, Loads
    <3>2. <<Handle(Head(left[g]))>> \in Seq(Handles) /\ Complete(<<Handle(Head(left[g]))>>[1])
      BY <3>1, HandleTyped, HandleComplete
    <3>3. Len(arrays) \in Nat /\ arrays'[Len(arrays) + 1] = <<Handle(Head(left[g]))>>
      BY <2>5, <3>2, Grown DEF Arrayed
    <3>4. All(gattChars)'
      BY <2>5, <3>2, <3>3 DEF All
    <3>5. Stays
      BY <2>5 DEF Stays
    <3>6. QED BY <1>3, <2>1, <2>3, <2>5, <3>4, <3>5
  <2>6. CASE /\ gattChars.len > 0 /\ list' = [list EXCEPT ![g] = gattChars]
             /\ pc' = [pc EXCEPT ![g] = "append"]
             /\ UNCHANGED <<arrays, gattChars, left, got>>
    <3>1. \A h \in Callers : pc'[h] \in Adding => h = g
      BY <2>1, <2>6 DEF Typed
    <3>2. list'[g] = gattChars /\ pc'[g] = "append"
      BY <2>6 DEF Arrayed, Typed
    <3>3. All(gattChars)' /\ All(list[g])'
      BY <2>2, <2>6, <3>2 DEF All
    <3>4. \A h \in Callers : Kept(h)'
      BY <2>6, <3>1, <3>2, <3>3 DEF Kept, Adding
    <3>5. Stays
      BY <2>6 DEF Stays, Arrayed, Within
    <3>6. QED BY <2>2, <2>6, <3>1, <3>3, <3>4, <3>5 DEF InTurn
  <2>7. QED BY <1>4, <2>4, <2>5, <2>6, Loads
<1>5. ASSUME NEW g \in Callers, pc[g] \in {"append", "half"}, alone
      PROVE  /\ \A h \in Callers : pc[h] \in Adding => h = g
             /\ All(gattChars) /\ All(list[g]) /\ (gattChars.len = 0 \/ gattChars = list[g])
             /\ \A h \in Callers : got[h] # NoHandle => Complete(got[h])
             /\ Within(list[g]) /\ list[g].len > 0 /\ list[g].array \in 1..Len(arrays)
             /\ list[g].len \in Nat /\ Len(arrays) \in Nat
             /\ left[g] \in Seq(Chars) /\ Head(left[g]) \in Chars
  <2>1. left[g] \in Seq(Chars) /\ Head(left[g]) \in Chars
    BY <1>5, HeadTail DEF Typed, Caching
  <2>2. Within(list[g]) /\ list[g].len > 0
    BY <1>5 DEF Arrayed, Adding
  <2>3. list[g].array \in 1..Len(arrays) /\ list[g].len \in Nat /\ Len(arrays) \in Nat
    BY <2>2, Shown, LenProperties DEF Arrayed
  <2>4. QED BY <1>5, <2>1, <2>2, <2>3 DEF InTurn, Kept, Adding
<1>6. ASSUME NEW g \in Callers, AppendCopy(g) PROVE InTurn' /\ Stays
  <2> DEFINE s == list[g]
             q == arrays[s.array]
             h0 == Handle(Head(left[g]))
             new == Padded(Append(q, h0), 2 * Len(q))
  <2>1. /\ pc[g] = "append" /\ s.len = Len(q) /\ arrays' = Append(arrays, new)
        /\ list' = [list EXCEPT ![g] = [array |-> Len(arrays) + 1, len |-> s.len + 1]]
        /\ pc' = [pc EXCEPT ![g] = "store"] /\ UNCHANGED <<gattChars, got>> /\ alone
    BY <1>6 DEF AppendCopy, Goes
  <2>2. /\ \A h \in Callers : pc[h] \in Adding => h = g
        /\ All(gattChars) /\ All(s) /\ (gattChars.len = 0 \/ gattChars = s)
        /\ \A h \in Callers : got[h] # NoHandle => Complete(got[h])
        /\ Within(s) /\ s.len > 0 /\ s.array \in 1..Len(arrays) /\ s.len \in Nat /\ Len(arrays) \in Nat
        /\ Head(left[g]) \in Chars
    BY <1>5, <2>1
  <2>3. q \in Seq(Handles) /\ Len(q) \in Nat
    BY <2>2, Shown
  <2>4. h0 \in Handles /\ Complete(h0)
    BY <2>2, HandleTyped, HandleComplete
  <2> HIDE DEF h0
  <2>5. /\ Append(q, h0) \in Seq(Handles) /\ Len(Append(q, h0)) = Len(q) + 1
        /\ Append(q, h0)[Len(q) + 1] = h0 /\ \A i \in 1..Len(q) : Append(q, h0)[i] = q[i]
    BY <2>3, <2>4, AppendProperties
  <2>6. 2 * Len(q) \in Nat /\ Len(Append(q, h0)) <= 2 * Len(q)
    BY <2>1, <2>2, <2>3, <2>5
  <2>7. /\ new \in Seq(Handles) /\ new[Len(q) + 1] = h0
        /\ \A i \in 1..Len(q) : new[i] = q[i]
    <3> DEFINE a == Append(q, h0)
    <3>1. new \in Seq(Handles) /\ \A i \in 1..Len(a) : new[i] = a[i]
      BY <2>5, <2>6, PaddedTyped
    <3>2. Len(a) = Len(q) + 1 /\ a[Len(q) + 1] = h0 /\ \A i \in 1..Len(q) : a[i] = q[i]
      BY <2>5
    <3>3. Len(q) + 1 \in 1..Len(a) /\ \A i \in 1..Len(q) : i \in 1..Len(a)
      BY <2>3, <3>2
    <3> HIDE DEF new, a
    <3>4. new[Len(q) + 1] = h0
      BY <3>1, <3>2, <3>3
    <3>5. \A i \in 1..Len(q) : new[i] = q[i]
      BY <3>1, <3>2, <3>3
    <3>6. QED BY <3>1, <3>4, <3>5
  <2> HIDE DEF new
  <2>8. arrays'[Len(arrays) + 1] = new /\ \A m \in 1..Len(arrays) : arrays'[m] = arrays[m]
    BY <2>1, <2>7, Grown DEF Arrayed
  <2>9. \A h \in Callers : pc'[h] \in Adding => h = g
    BY <2>1, <2>2 DEF Typed
  <2>10. pc'[g] = "store" /\ list'[g] = [array |-> Len(arrays) + 1, len |-> s.len + 1]
    BY <2>1 DEF Typed, Arrayed
  <2>11. All(list[g])'
    <3>1. list'[g].len = Len(q) + 1 /\ list'[g].array = Len(arrays) + 1
      BY <2>1, <2>10
    <3>2. \A i \in 1..Len(q) : Complete(new[i])
      BY <2>1, <2>2, <2>7 DEF All
    <3>3. \A i \in 1..(Len(q) + 1) : Complete(new[i])
      BY <2>3, <2>4, <2>7, <3>2
    <3>4. QED BY <2>8, <3>1, <3>3 DEF All
  <2>12. \A i \in 1..gattChars.len :
           /\ arrays'[gattChars.array][i] = arrays[gattChars.array][i]
           /\ arrays'[gattChars.array][i] = arrays'[Len(arrays) + 1][i]
    BY <2>1, <2>2, <2>7, <2>8
  <2>13. All(gattChars)' /\ Stays
    BY <2>1, <2>2, <2>12 DEF All, Stays
  <2>14. \A h \in Callers : Kept(h)'
    BY <2>1, <2>2, <2>9, <2>10, <2>11, <2>12 DEF Kept, Adding
  <2>15. QED BY <2>1, <2>2, <2>9, <2>13, <2>14 DEF InTurn
<1>7. ASSUME NEW g \in Callers, NEW e \in Handles, pc[g] \in {"append", "half"}, alone,
             list[g].len < Len(arrays[list[g].array]), Writes(g, e), gattChars' = gattChars
      PROVE  /\ All(gattChars)' /\ Stays
             /\ \A i \in 1..list[g].len : Complete(arrays'[list[g].array][i])
             /\ arrays'[list[g].array][list[g].len + 1] = e
             /\ \A i \in 1..gattChars.len : arrays'[gattChars.array][i] = arrays'[list[g].array][i]
  <2>1. /\ All(gattChars) /\ All(list[g]) /\ (gattChars.len = 0 \/ gattChars = list[g])
        /\ Within(list[g]) /\ list[g].len > 0 /\ list[g].array \in 1..Len(arrays) /\ list[g].len \in Nat
    BY <1>5, <1>7
  <2>2. list[g].len + 1 \in 1..Len(arrays[list[g].array]) /\ Len(arrays[list[g].array]) \in Nat
    BY <1>7, <2>1, Shown
  <2>3. \A j \in 1..Len(arrays[list[g].array]) :
          arrays'[list[g].array][j] = IF j = list[g].len + 1 THEN e ELSE arrays[list[g].array][j]
    BY <1>7, <2>1, <2>2, Overwritten DEF Writes, Arrayed
  <2>4. /\ arrays'[list[g].array][list[g].len + 1] = e
        /\ \A j \in 1..list[g].len : arrays'[list[g].array][j] = arrays[list[g].array][j]
    BY <2>1, <2>2, <2>3
  <2>5. \A j \in 1..gattChars.len : /\ arrays'[gattChars.array][j] = arrays[gattChars.array][j]
                                    /\ arrays'[gattChars.array][j] = arrays'[list[g].array][j]
    BY <2>1, <2>4
  <2>6. QED BY <1>7, <2>1, <2>4, <2>5 DEF All, Stays
<1>8. ASSUME NEW g \in Callers, AppendHalf(g) PROVE InTurn' /\ Stays
  <2>1. /\ pc[g] = "append" /\ list[g].len < Len(arrays[list[g].array])
        /\ UNCHANGED <<gattChars, list, got>> /\ alone /\ pc' = [pc EXCEPT ![g] = "half"]
    BY <1>8 DEF AppendHalf, Goes
  <2>2. PICK e \in Halves(g) : Writes(g, e)
    BY <1>8 DEF AppendHalf
  <2>3. e \in Handles
    BY <2>1, HalvesTyped
  <2>4. /\ \A h \in Callers : pc[h] \in Adding => h = g
        /\ (gattChars.len = 0 \/ gattChars = list[g])
        /\ \A h \in Callers : got[h] # NoHandle => Complete(got[h])
    BY <1>5, <2>1
  <2>5. /\ All(gattChars)' /\ Stays
        /\ \A i \in 1..list[g].len : Complete(arrays'[list[g].array][i])
    BY <1>7, <2>1, <2>2, <2>3
  <2>6. pc'[g] = "half" /\ \A h \in Callers : pc'[h] \in Adding => h = g
    BY <2>1, <2>4 DEF Typed
  <2>7. \A h \in Callers : Kept(h)'
    BY <2>1, <2>4, <2>5, <2>6 DEF Kept, All, Adding
  <2>8. QED BY <2>1, <2>4, <2>5, <2>6, <2>7 DEF InTurn
<1>9. ASSUME NEW g \in Callers, AppendRest(g) PROVE InTurn' /\ Stays
  <2>1. /\ pc[g] = "half" /\ Writes(g, Handle(Head(left[g])))
        /\ list' = [list EXCEPT ![g] = [array |-> list[g].array, len |-> list[g].len + 1]]
        /\ UNCHANGED <<gattChars, got>> /\ alone /\ pc' = [pc EXCEPT ![g] = "store"]
    BY <1>9 DEF AppendRest, Goes, Longer
  <2>2. /\ \A h \in Callers : pc[h] \in Adding => h = g
        /\ (gattChars.len = 0 \/ gattChars = list[g]) /\ list[g].len \in Nat
        /\ \A h \in Callers : got[h] # NoHandle => Complete(got[h])
        /\ Head(left[g]) \in Chars
    BY <1>5, <2>1
  <2>3. Handle(Head(left[g])) \in Handles /\ Complete(Handle(Head(left[g])))
    BY <2>2, HandleTyped, HandleComplete
  <2>4. list[g].len < Len(arrays[list[g].array])
    BY <2>1 DEF Arrayed
  <2>5. /\ All(gattChars)' /\ Stays
        /\ \A i \in 1..list[g].len : Complete(arrays'[list[g].array][i])
        /\ arrays'[list[g].array][list[g].len + 1] = Handle(Head(left[g]))
        /\ \A i \in 1..gattChars.len : arrays'[gattChars.array][i] = arrays'[list[g].array][i]
    BY <1>7, <2>1, <2>3, <2>4
  <2>6. pc'[g] = "store" /\ \A h \in Callers : pc'[h] \in Adding => h = g
    BY <2>1, <2>2 DEF Typed
  <2>7. list'[g] = [array |-> list[g].array, len |-> list[g].len + 1]
    BY <2>1 DEF Arrayed
  <2>8. All(list[g])'
    BY <2>2, <2>3, <2>5, <2>7 DEF All
  <2>9. \A h \in Callers : Kept(h)'
    BY <2>1, <2>2, <2>5, <2>6, <2>7, <2>8 DEF Kept, Adding
  <2>10. QED BY <2>1, <2>2, <2>5, <2>6, <2>9 DEF InTurn
<1>10. ASSUME NEW g \in Callers, Store(g) PROVE InTurn' /\ Stays
  <2>1. pc[g] = "store" /\ gattChars' = list[g] /\ Added(g) /\ UNCHANGED <<arrays, list>> /\ alone
    BY <1>10 DEF Store
  <2>2. /\ \A h \in Callers : pc[h] \in Adding => h = g
        /\ \A h \in Callers : got[h] # NoHandle => Complete(got[h])
        /\ Kept(g)
    BY <2>1 DEF InTurn, Adding
  <2>3. /\ \A h \in Callers : got'[h] # NoHandle => Complete(got'[h])
        /\ \A h \in Callers : pc'[h] \notin Adding
    BY <2>1, <2>2, FoundComplete DEF Caching
  <2>4. All(gattChars)' /\ gattChars.len < list[g].len
        /\ \A i \in 1..gattChars.len : arrays[gattChars.array][i] = arrays[list[g].array][i]
    BY <2>1, <2>2 DEF Kept, All, Adding
  <2>5. gattChars.len \in Nat /\ list[g].len \in Nat
    BY DEF Arrayed, Within
  <2>6. Stays
    BY <2>1, <2>4, <2>5 DEF Stays
  <2>7. QED BY <1>3, <2>1, <2>3, <2>4, <2>6
<1>11. ASSUME Reconnect \/ DropServices \/ UNCHANGED vars PROVE InTurn' /\ Stays
  <2>1. alone /\ UNCHANGED <<gattChars, arrays, list, pc, got>>
    BY <1>11 DEF Reconnect, DropServices, vars, cache, callers
  <2>2. \A h \in Callers : got'[h] # NoHandle => Complete(got'[h])
    BY <2>1 DEF InTurn
  <2>3. QED BY <1>1, <2>1, <2>2
<1>12. ASSUME DropCharacteristics PROVE InTurn'
  <2>1. alone /\ gattChars' = [array |-> 0, len |-> 0] /\ UNCHANGED <<arrays, list, pc, got>>
    BY <1>12 DEF DropCharacteristics, NoSlice, callers
  <2>2. All(gattChars)' /\ \A h \in Callers : pc[h] \in Adding => list[h].len > 0
    BY <2>1 DEF All, Arrayed
  <2>3. \A h \in Callers : Kept(h)'
    BY <2>1, <2>2 DEF InTurn, Kept, All, Adding
  <2>4. QED BY <2>1, <2>2, <2>3 DEF InTurn
<1>13. QED
  BY <1>2, <1>4, <1>6, <1>8, <1>9, <1>10, <1>11, <1>12 DEF Next, Lookup, Looks

\* Of an element the helper knows, or of nothing.
Familiar(e) == e.uuid \in charsKnown \cup {Nothing}

\* Arrays of which every element is one of before or familiar stay known.
LEMMA StillKnown ==
    ASSUME Arrayed, charsKnown \subseteq charsKnown', NEW s, Within(s), Known(s), s.len > 0,
           Len(arrays'[s.array]) = Len(arrays[s.array]),
           \A i \in 1..Len(arrays[s.array]) :
              arrays'[s.array][i] = arrays[s.array][i] \/ Familiar(arrays'[s.array][i])
    PROVE  \A i \in 1..Len(arrays'[s.array]) :
                  arrays'[s.array][i].uuid \in charsKnown' \cup {Nothing}
BY DEF Known, Familiar

\* What is known of one caller.
Caller(g) ==
    /\ pc[g] \in {"keep", "discover"} \cup Caching => svcsKnown
    /\ pc[g] \in Caching => \A i \in 1..Len(left[g]) : left[g][i] \in charsKnown
    /\ pc[g] \in Caching /\ got[g] # NoHandle => got[g].uuid \in charsKnown
    /\ pc[g] \in Adding => Known(list[g])

\* An answer is cached: what has been found is familiar, and what is left is.
LEMMA FoundKnown ==
    ASSUME Typed, NEW g \in Callers, pc[g] \in Caching, Added(g), Caller(g),
           UNCHANGED <<svcsKnown, charsKnown>>
    PROVE  /\ Caller(g)' /\ (got'[g] # NoHandle => got'[g].uuid \in charsKnown)
           /\ \A h \in Callers : h # g => pc'[h] = pc[h] /\ left'[h] = left[h] /\ got'[h] = got[h]
<1>1. /\ got' = [got EXCEPT ![g] = Answered(g)]
      /\ left' = [left EXCEPT ![g] = Tail(left[g])]
      /\ (pc' = [pc EXCEPT ![g] = "idle"] \/ pc' = [pc EXCEPT ![g] = "load"])
  BY GoesOn
<1>2. left[g] \in Seq(Chars) /\ left[g] # <<>> /\ asked[g] \in Chars
  BY DEF Typed, Caching
<1>3. /\ Head(left[g]) \in charsKnown
      /\ \A i \in 1..Len(Tail(left[g])) : Tail(left[g])[i] \in charsKnown
  <2>1. \A i \in 1..Len(left[g]) : left[g][i] \in charsKnown
    BY DEF Caller
  <2>2. /\ Head(left[g]) = left[g][1] /\ Len(left[g]) \in Nat \ {0}
        /\ Len(Tail(left[g])) = Len(left[g]) - 1
        /\ \A i \in 1..Len(Tail(left[g])) : Tail(left[g])[i] = left[g][i + 1]
    BY <1>2, HeadTail
  <2>3. QED BY <2>1, <2>2
<1>4. Answered(g) # NoHandle => Answered(g).uuid \in charsKnown
  BY <1>2, <1>3, HandleTyped DEF Answered, Caller
<1>5. got'[g] = Answered(g) /\ left'[g] = Tail(left[g]) /\ pc'[g] \notin Adding
      /\ \A h \in Callers : h # g => pc'[h] = pc[h] /\ left'[h] = left[h] /\ got'[h] = got[h]
  BY <1>1 DEF Typed, Adding
<1>6. svcsKnown
  BY DEF Caller
<1>7. Caller(g)'
  BY <1>3, <1>4, <1>5, <1>6 DEF Caller
<1>8. QED BY <1>4, <1>5, <1>7

\* Once emptied in peace, the cache stays familiar.
LEMMA InPeaceStep ==
    ASSUME Typed, Arrayed, Meant, InPeace, [Next]_vars, clean'
    PROVE  InPeace'
<1>1. CASE DropCharacteristics
  <2>1. /\ gattChars' = [array |-> 0, len |-> 0] /\ ~dropping' /\ ~gattSvcs'
        /\ \A g \in Callers : pc'[g] = "idle"
    BY <1>1 DEF DropCharacteristics, NoSlice, callers
  <2>2. QED BY <2>1 DEF InPeace, Known, Caching, Adding
<1> SUFFICES ASSUME ~DropCharacteristics PROVE InPeace'
  BY <1>1
<1>2. clean /\ ~Reconnect /\ ~DropServices /\ UNCHANGED dropping
  BY DEF Next, Lookup, GetCharacteristic, CachedServices, DiscoverServices, StoreServices, CallFails,
     ServiceNotFound, UnknownService, DiscoverCharacteristics, LoadOrStore, AppendCopy, AppendHalf,
     AppendRest, Store, Reconnect, DropServices, vars
<1>3. /\ ~dropping /\ (gattSvcs => svcsKnown) /\ Known(gattChars) /\ \A g \in Callers : Caller(g)
  BY <1>2 DEF InPeace, Caller
<1>4. ASSUME gattSvcs' => svcsKnown', Known(gattChars)', \A g \in Callers : Caller(g)'
      PROVE  InPeace'
  BY <1>2, <1>3, <1>4 DEF InPeace, Caller
<1>5. ASSUME UNCHANGED <<gattChars, arrays>>, charsKnown \subseteq charsKnown'
      PROVE  Known(gattChars)'
  BY <1>3, <1>5 DEF Known
<1>6. ASSUME NEW h \in Callers, svcsKnown => svcsKnown', charsKnown \subseteq charsKnown',
             UNCHANGED arrays, pc'[h] = pc[h] \/ pc'[h] \in {"idle", "services"},
             list'[h] = list[h], left'[h] = left[h], got'[h] = got[h] \/ pc'[h] \notin Caching
      PROVE  Caller(h)'
  <2>1. Caller(h)
    BY <1>3
  <2>2. CASE pc'[h] = pc[h]
    BY <1>6, <2>1, <2>2 DEF Caller, Known
  <2>3. CASE pc'[h] \in {"idle", "services"}
    BY <2>3 DEF Caller, Caching, Adding
  <2>4. QED BY <1>6, <2>2, <2>3
<1>7. ASSUME NEW g \in Callers, NEW c \in Chars, GetCharacteristic(g, c) PROVE InPeace'
  <2>1. /\ pc[g] = "idle"
        /\ UNCHANGED <<gattSvcs, gattChars, arrays, left, list, svcsKnown, charsKnown>>
        /\ pc' = pc \/ pc' = [pc EXCEPT ![g] = "services"]
    BY <1>7, Begins
  <2>2. \A h \in Callers : h # g => got'[h] = got[h]
    <3>1. \E e : got' = [got EXCEPT ![g] = e]
      BY <1>7, Begins
    <3>2. QED BY <3>1 DEF Typed
  <2>3. \A h \in Callers : pc'[h] = pc[h] \/ pc'[h] \in {"idle", "services"}
    BY <2>1 DEF Typed
  <2>4. pc'[g] \notin Caching
    BY <2>1 DEF Typed, Caching
  <2>5. \A h \in Callers : Caller(h)'
    BY <1>6, <2>1, <2>2, <2>3, <2>4
  <2>6. QED BY <1>3, <1>4, <1>5, <2>1, <2>5
<1>8. ASSUME NEW g \in Callers,
             CachedServices(g) \/ DiscoverServices(g) \/ StoreServices(g) \/ CallFails(g)
               \/ ServiceNotFound(g) \/ UnknownService(g)
      PROVE  InPeace'
  <2>1. UNCHANGED <<gattChars, arrays, list, left, got, charsKnown>>
    BY <1>8 DEF CachedServices, DiscoverServices, StoreServices, CallFails,
       ServiceNotFound, UnknownService, cache, helper
  <2>2. /\ (svcsKnown => svcsKnown') /\ (gattSvcs' => svcsKnown')
        /\ \E p \in {"idle", "keep", "discover"} :
             pc' = [pc EXCEPT ![g] = p] /\ (p # "idle" => svcsKnown')
    <3>1. pc[g] \in {"keep", "discover"} => svcsKnown
      BY <1>3 DEF Caller
    <3>2. CASE CachedServices(g)
      BY <1>3, <3>2 DEF CachedServices, cache, helper, Goes
    <3>3. CASE DiscoverServices(g)
      BY <3>3 DEF DiscoverServices, cache, Goes
    <3>4. CASE StoreServices(g)
      BY <3>1, <3>4 DEF StoreServices, helper, Goes
    <3>5. CASE CallFails(g) \/ ServiceNotFound(g) \/ UnknownService(g)
      <4>1. UNCHANGED <<gattSvcs, svcsKnown>> /\ pc' = [pc EXCEPT ![g] = "idle"]
        BY <3>5 DEF CallFails, ServiceNotFound, UnknownService, cache, helper, Goes
      <4>2. QED BY <1>3, <4>1
    <3>6. QED BY <1>8, <3>2, <3>3, <3>4, <3>5
  <2>3. \A h \in Callers : h # g => pc'[h] = pc[h]
    BY <2>2 DEF Typed
  <2>4. pc'[g] \in {"idle", "keep", "discover"} /\ (pc'[g] # "idle" => svcsKnown')
    BY <2>2 DEF Typed
  <2>5. Caller(g)'
    BY <2>4 DEF Caller, Caching, Adding
  <2>6. \A h \in Callers : Caller(h)'
    BY <1>6, <2>1, <2>2, <2>3, <2>5
  <2>7. QED BY <1>4, <1>5, <2>1, <2>2, <2>6
<1>9. ASSUME NEW g \in Callers, DiscoverCharacteristics(g) PROVE InPeace'
  <2>1. /\ pc[g] = "discover" /\ UNCHANGED <<gattSvcs, gattChars, arrays, list, got, svcsKnown>>
        /\ charsKnown' = charsKnown \cup ({asked[g]} \ Absent)
    BY <1>9 DEF DiscoverCharacteristics, cache
  <2>2. PICK q \in Orders(SameService(asked[g], charsKnown')) :
          /\ left' = [left EXCEPT ![g] = q]
          /\ pc' = [pc EXCEPT ![g] = IF q = <<>> THEN "idle" ELSE "load"]
    BY <1>9 DEF DiscoverCharacteristics, Goes
  <2>3. charsKnown' \subseteq Chars
    BY <2>1 DEF Typed
  <2>4. /\ q \in Seq(SameService(asked[g], charsKnown'))
        /\ SameService(asked[g], charsKnown') \subseteq charsKnown'
    BY <2>3, Ordered DEF SameService
  <2>5. \A i \in 1..Len(q) : q[i] \in charsKnown'
    BY <2>4, ElementOfSeq
  <2>6. got[g] = NoHandle /\ svcsKnown
    BY <1>3, <2>1 DEF Meant, Caller
  <2>7. /\ left'[g] = q /\ pc'[g] \in {"idle", "load"}
        /\ \A h \in Callers : h # g => pc'[h] = pc[h] /\ left'[h] = left[h]
    BY <2>2 DEF Typed
  <2>8. Caller(g)'
    BY <2>1, <2>5, <2>6, <2>7 DEF Caller, Adding
  <2>9. charsKnown \subseteq charsKnown'
    BY <2>1
  <2>10. \A h \in Callers : Caller(h)'
    BY <1>6, <2>1, <2>7, <2>8, <2>9
  <2>11. QED BY <1>3, <1>4, <1>5, <2>1, <2>9, <2>10
<1>10. ASSUME NEW g \in Callers, LoadOrStore(g) PROVE InPeace'
  <2>1. /\ pc[g] \in Caching /\ left[g] \in Seq(Chars) /\ Head(left[g]) \in Chars
        /\ UNCHANGED <<gattSvcs, svcsKnown, charsKnown>>
    BY <1>10, Loads DEF Caching
  <2>2. ASSUME Added(g)
        PROVE  /\ Caller(g)'
               /\ \A h \in Callers : h # g => pc'[h] = pc[h] /\ left'[h] = left[h] /\ got'[h] = got[h]
    BY <1>3, <2>1, <2>2, FoundKnown
  <2>3. CASE Added(g) /\ UNCHANGED <<arrays, gattChars, list>>
    <3>1. \A h \in Callers : Caller(h)'
      BY <1>6, <2>1, <2>2, <2>3
    <3>2. QED BY <1>3, <1>4, <1>5, <2>1, <2>3, <3>1
  <2>4. CASE /\ arrays' = Append(arrays, <<Handle(Head(left[g]))>>)
             /\ gattChars' = [array |-> Len(arrays) + 1, len |-> 1]
             /\ Added(g) /\ list' = list
    <3>1. Head(left[g]) = left[g][1] /\ 1 \in 1..Len(left[g])
      BY <2>1, HeadTail DEF Typed
    <3>2. Handle(Head(left[g])).uuid \in charsKnown
      BY <1>3, <2>1, <3>1, HandleTyped DEF Caller
    <3>3. <<Handle(Head(left[g]))>> \in Seq(Handles)
      BY <2>1, HandleTyped
    <3>4. /\ Len(arrays) \in Nat /\ arrays'[Len(arrays) + 1] = <<Handle(Head(left[g]))>>
          /\ \A m \in 1..Len(arrays) : arrays'[m] = arrays[m]
      BY <2>4, <3>3, Grown DEF Arrayed
    <3>5. Known(gattChars)'
      BY <2>1, <2>4, <3>2, <3>4 DEF Known
    <3>6. ASSUME NEW h \in Callers, h # g PROVE Caller(h)'
      <4>1. pc'[h] = pc[h] /\ left'[h] = left[h] /\ got'[h] = got[h] /\ list'[h] = list[h]
        BY <2>2, <2>4, <3>6
      <4>2. pc[h] \in Adding => list[h].array \in 1..Len(arrays) /\ list[h].len > 0
        BY DEF Arrayed, Within
      <4>3. Caller(h)
        BY <1>3
      <4>4. QED BY <2>1, <3>4, <4>1, <4>2, <4>3 DEF Caller, Known
    <3>7. QED BY <1>3, <1>4, <2>1, <2>2, <2>4, <3>5, <3>6
  <2>5. CASE /\ list' = [list EXCEPT ![g] = gattChars]
             /\ pc' = [pc EXCEPT ![g] = "append"]
             /\ UNCHANGED <<arrays, gattChars, left, got>>
    <3>1. list'[g] = gattChars /\ pc'[g] = "append"
          /\ \A h \in Callers : h # g => pc'[h] = pc[h] /\ list'[h] = list[h]
      BY <2>5 DEF Arrayed, Typed
    <3>2. Caller(g)'
      BY <1>3, <2>1, <2>5, <3>1 DEF Caller, Known, Caching
    <3>3. \A h \in Callers : Caller(h)'
      BY <1>6, <2>1, <2>5, <3>1, <3>2
    <3>4. QED BY <1>3, <1>4, <1>5, <2>1, <2>5, <3>3
  <2>6. QED BY <1>10, <2>3, <2>4, <2>5, Loads
<1>11. ASSUME NEW g \in Callers, pc[g] \in Adding
       PROVE  /\ left[g] \in Seq(Chars) /\ Head(left[g]) \in Chars /\ Head(left[g]) \in charsKnown
              /\ Within(list[g]) /\ list[g].len > 0 /\ Known(list[g]) /\ svcsKnown
  <2>1. left[g] \in Seq(Chars) /\ left[g] # <<>>
    BY <1>11 DEF Typed, Adding, Caching
  <2>2. Head(left[g]) \in Chars /\ Head(left[g]) = left[g][1] /\ 1 \in 1..Len(left[g])
    BY <2>1, HeadTail
  <2>3. Head(left[g]) \in charsKnown /\ Known(list[g]) /\ svcsKnown
    BY <1>3, <1>11, <2>2 DEF Caller, Adding, Caching
  <2>4. QED BY <1>11, <2>1, <2>2, <2>3 DEF Arrayed
<1>12. ASSUME NEW g \in Callers, AppendCopy(g) PROVE InPeace'
  <2> DEFINE s == list[g]
             q == arrays[s.array]
             h0 == Handle(Head(left[g]))
             a == Append(q, h0)
             new == Padded(a, 2 * Len(q))
  <2>1. /\ pc[g] = "append" /\ s.len = Len(q) /\ arrays' = Append(arrays, new)
        /\ list' = [list EXCEPT ![g] = [array |-> Len(arrays) + 1, len |-> s.len + 1]]
        /\ pc' = [pc EXCEPT ![g] = "store"]
        /\ UNCHANGED <<gattSvcs, gattChars, got, left, svcsKnown, charsKnown>>
    BY <1>12 DEF AppendCopy, Goes, helper
  <2>2. /\ Head(left[g]) \in Chars /\ Head(left[g]) \in charsKnown
        /\ Within(s) /\ s.len > 0 /\ Known(s)
    BY <1>11, <2>1 DEF Adding
  <2>3. q \in Seq(Handles) /\ Len(q) \in Nat
    BY <2>2, Shown
  <2>4. h0 \in Handles /\ h0.uuid \in charsKnown
    BY <2>2, HandleTyped
  <2> HIDE DEF h0
  <2>5. /\ a \in Seq(Handles) /\ Len(a) = Len(q) + 1 /\ a[Len(q) + 1] = h0
        /\ \A i \in 1..Len(q) : a[i] = q[i]
    BY <2>3, <2>4, AppendProperties
  <2>6. 2 * Len(q) \in Nat /\ Len(a) <= 2 * Len(q)
    BY <2>1, <2>2, <2>3, <2>5
  <2> HIDE DEF a
  <2>7. /\ new \in Seq(Handles) /\ Len(new) = 2 * Len(q) /\ \A i \in 1..Len(a) : new[i] = a[i]
        /\ \A i \in 1..(2 * Len(q)) : i > Len(a) => new[i] = NoHandle
    BY <2>5, <2>6, PaddedTyped
  <2> HIDE DEF new
  <2>8. \A i \in 1..Len(q) : q[i].uuid \in charsKnown \cup {Nothing}
    BY <2>2 DEF Known
  <2>9. \A i \in 1..Len(a) : a[i].uuid \in charsKnown \cup {Nothing}
    BY <2>3, <2>4, <2>5, <2>8
  <2>10. \A i \in 1..Len(new) : new[i].uuid \in charsKnown \cup {Nothing}
    BY <2>3, <2>5, <2>6, <2>7, <2>9, HandleTyped
  <2>11. /\ Len(arrays) \in Nat /\ arrays'[Len(arrays) + 1] = new
         /\ \A m \in 1..Len(arrays) : arrays'[m] = arrays[m]
    BY <2>1, <2>7, Grown DEF Arrayed
  <2>12. Known(gattChars)'
    <3>1. gattChars.len > 0 => gattChars.array \in 1..Len(arrays)
      BY DEF Arrayed, Within
    <3>2. QED BY <1>3, <2>1, <2>11, <3>1 DEF Known
  <2>13. ASSUME NEW h \in Callers, h # g PROVE Caller(h)'
    <3>1. pc'[h] = pc[h] /\ left'[h] = left[h] /\ got'[h] = got[h] /\ list'[h] = list[h]
      BY <2>1, <2>13 DEF Typed, Arrayed
    <3>2. pc[h] \in Adding => list[h].array \in 1..Len(arrays) /\ list[h].len > 0
      BY DEF Arrayed, Within
    <3>3. Caller(h)
      BY <1>3
    <3>4. QED BY <2>1, <2>11, <3>1, <3>2, <3>3 DEF Caller, Known
  <2>14. Caller(g)'
    <3>1. /\ pc'[g] = "store" /\ pc[g] \in Caching
          /\ list'[g] = [array |-> Len(arrays) + 1, len |-> s.len + 1]
      BY <2>1 DEF Typed, Arrayed, Caching
    <3>2. Known(list[g])'
      BY <2>1, <2>10, <2>11, <3>1 DEF Known
    <3>3. Caller(g)
      BY <1>3
    <3>4. QED BY <2>1, <3>1, <3>2, <3>3 DEF Caller
  <2>15. QED BY <1>3, <1>4, <2>1, <2>12, <2>13, <2>14
<1>13. ASSUME NEW g \in Callers, NEW e \in Handles, pc[g] \in {"append", "half"},
              list[g].len < Len(arrays[list[g].array]), Writes(g, e),
              e.uuid \in charsKnown \cup {Nothing},
              UNCHANGED <<gattSvcs, gattChars, svcsKnown, charsKnown, left, got>>,
              \A h \in Callers : h # g => pc'[h] = pc[h] /\ list'[h] = list[h],
              pc'[g] \in Adding, list'[g].array = list[g].array
       PROVE  InPeace'
  <2>1. Within(list[g]) /\ list[g].len > 0 /\ Known(list[g]) /\ svcsKnown
    BY <1>11, <1>13 DEF Adding
  <2>2. list[g].array \in 1..Len(arrays) /\ list[g].len + 1 \in 1..Len(arrays[list[g].array])
    BY <1>13, <2>1, Shown
  <2>3. \A m \in 1..Len(arrays) :
          /\ Len(arrays'[m]) = Len(arrays[m])
          /\ \A j \in 1..Len(arrays[m]) : arrays'[m][j] = arrays[m][j] \/ Familiar(arrays'[m][j])
    BY <1>13, <2>2, Overwritten DEF Writes, Arrayed, Familiar
  <2>4. ASSUME NEW s, Within(s), Known(s), s.len > 0
        PROVE  \A i \in 1..Len(arrays'[s.array]) :
                  arrays'[s.array][i].uuid \in charsKnown' \cup {Nothing}
    BY <1>13, <2>3, <2>4, StillKnown DEF Within
  <2>5. Known(gattChars)'
    BY <1>3, <1>13, <2>4 DEF Known, Arrayed
  <2>6. ASSUME NEW h \in Callers, h # g PROVE Caller(h)'
    <3>1. Caller(h) /\ pc'[h] = pc[h] /\ list'[h] = list[h]
      BY <1>3, <1>13, <2>6
    <3>2. pc[h] \in Adding => Known(list[h])'
      BY <2>4, <3>1 DEF Known, Arrayed, Caller
    <3>3. QED BY <1>13, <3>1, <3>2 DEF Caller
  <2>7. Caller(g)'
    <3>1. Caller(g) /\ pc[g] \in Caching
      BY <1>3, <1>13 DEF Caching
    <3>2. Known(list[g])'
      BY <1>13, <2>1, <2>4 DEF Known
    <3>3. QED BY <1>13, <3>1, <3>2 DEF Caller
  <2>8. QED BY <1>3, <1>4, <1>13, <2>5, <2>6, <2>7
<1>14. ASSUME NEW g \in Callers, AppendHalf(g) PROVE InPeace'
  <2>1. /\ pc[g] = "append" /\ list[g].len < Len(arrays[list[g].array])
        /\ pc' = [pc EXCEPT ![g] = "half"]
        /\ UNCHANGED <<gattSvcs, gattChars, svcsKnown, charsKnown, left, got, list>>
    BY <1>14 DEF AppendHalf, Goes, helper
  <2>2. PICK e \in Halves(g) : Writes(g, e)
    BY <1>14 DEF AppendHalf
  <2>3. e \in Handles /\ e.uuid \in {arrays[list[g].array][list[g].len + 1].uuid, Head(left[g])}
    BY <2>1, HalvesTyped
  <2>4. Within(list[g]) /\ list[g].len > 0 /\ Known(list[g]) /\ Head(left[g]) \in charsKnown
    BY <1>11, <2>1 DEF Adding
  <2>5. list[g].len + 1 \in 1..Len(arrays[list[g].array])
    BY <2>1, <2>4, Shown
  <2>6. e.uuid \in charsKnown \cup {Nothing}
    BY <2>3, <2>4, <2>5 DEF Known
  <2>7. pc'[g] = "half" /\ \A h \in Callers : h # g => pc'[h] = pc[h]
    BY <2>1 DEF Typed
  <2>8. QED BY <1>13, <2>1, <2>2, <2>3, <2>6, <2>7 DEF Adding
<1>15. ASSUME NEW g \in Callers, AppendRest(g) PROVE InPeace'
  <2>1. /\ pc[g] = "half" /\ Writes(g, Handle(Head(left[g]))) /\ pc' = [pc EXCEPT ![g] = "store"]
        /\ list' = [list EXCEPT ![g] = [array |-> list[g].array, len |-> list[g].len + 1]]
        /\ UNCHANGED <<gattSvcs, gattChars, svcsKnown, charsKnown, left, got>>
    BY <1>15 DEF AppendRest, Goes, helper, Longer
  <2>2. Head(left[g]) \in Chars /\ Head(left[g]) \in charsKnown
    BY <1>11, <2>1 DEF Adding
  <2>3. Handle(Head(left[g])) \in Handles /\ Handle(Head(left[g])).uuid \in charsKnown
    BY <2>2, HandleTyped
  <2>4. list[g].len < Len(arrays[list[g].array])
    BY <2>1 DEF Arrayed
  <2>5. /\ pc'[g] = "store" /\ list'[g].array = list[g].array
        /\ \A h \in Callers : h # g => pc'[h] = pc[h] /\ list'[h] = list[h]
    BY <2>1 DEF Typed, Arrayed
  <2>6. QED BY <1>13, <2>1, <2>3, <2>4, <2>5 DEF Adding
<1>16. ASSUME NEW g \in Callers, Store(g) PROVE InPeace'
  <2>1. /\ pc[g] = "store" /\ gattChars' = list[g] /\ Added(g)
        /\ UNCHANGED <<gattSvcs, arrays, list, svcsKnown, charsKnown>>
    BY <1>16 DEF Store, helper
  <2>2. /\ Caller(g)'
        /\ \A h \in Callers : h # g => pc'[h] = pc[h] /\ left'[h] = left[h] /\ got'[h] = got[h]
    BY <1>3, <2>1, FoundKnown DEF Caching
  <2>3. Known(list[g])
    BY <1>11, <2>1 DEF Adding
  <2>4. Known(gattChars)'
    BY <2>1, <2>3 DEF Known
  <2>5. \A h \in Callers : Caller(h)'
    BY <1>6, <2>1, <2>2
  <2>6. QED BY <1>3, <1>4, <2>1, <2>4, <2>5
<1>17. ASSUME UNCHANGED vars PROVE InPeace'
  <2>1. UNCHANGED <<gattSvcs, gattChars, arrays, list, pc, left, got, svcsKnown, charsKnown>>
    BY <1>17 DEF vars, cache, callers, helper
  <2>2. \A h \in Callers : Caller(h)'
    BY <1>6, <2>1
  <2>3. QED BY <1>3, <1>4, <1>5, <2>1, <2>2
<1>18. QED
  BY <1>2, <1>7, <1>8, <1>9, <1>10, <1>12, <1>14, <1>15, <1>16, <1>17 DEF Next, Lookup

\* A handle made of a characteristic is whole.
LEMMA HandleWhole == \A c \in Chars : Whole(Handle(c))
BY GattAssumption DEF GattAssumption, Whole, Handle, ServiceOf

\* Elements that stay whole leave a slice written.
LEMMA StillWritten ==
    ASSUME Arrayed, NEW s, Within(s), Written(s),
           \A m \in 1..Len(arrays) : \A i \in 1..Len(arrays[m]) :
             Whole(arrays[m][i]) => Whole(arrays'[m][i])
    PROVE  \A i \in 1..s.len : Whole(arrays'[s.array][i])
<1> SUFFICES ASSUME NEW i \in 1..s.len PROVE Whole(arrays'[s.array][i])
  OBVIOUS
<1>1. s.len \in Nat /\ s.len > 0
  BY DEF Within
<1>2. s.array \in 1..Len(arrays) /\ i \in 1..Len(arrays[s.array])
  BY <1>1, Shown
<1>3. Whole(arrays[s.array][i])
  BY DEF Written
<1>4. QED BY <1>2, <1>3

\* What a goroutine goes on with is whole.
LEMMA FoundWhole ==
    ASSUME Typed, Filled, NEW g \in Callers, pc[g] \in Caching, Added(g)
    PROVE  \A h \in Callers : got'[h] # NoHandle => Whole(got'[h])
<1>1. got' = [got EXCEPT ![g] = Answered(g)]
  BY GoesOn
<1>2. left[g] \in Seq(Chars) /\ left[g] # <<>>
  BY DEF Typed, Caching
<1>3. Head(left[g]) \in Chars
  BY <1>2, HeadTail
<1>4. Answered(g) # NoHandle => Whole(Answered(g))
  BY <1>3, HandleWhole DEF Answered, Filled
<1>5. QED BY <1>1, <1>4 DEF Filled, Typed

\* Nothing shows before it is written through.
LEMMA FilledStep ==
    ASSUME Typed, Arrayed, Filled, [Next]_vars
    PROVE  Filled'
<1>1. ASSUME UNCHANGED <<gattChars, arrays, list>>,
             \A h \in Callers : got'[h] # NoHandle => Whole(got'[h])
      PROVE  Filled'
  BY <1>1 DEF Filled, Written
<1>2. ASSUME NEW g \in Callers, Looks(g) PROVE Filled'
  <2>1. UNCHANGED <<gattChars, arrays, list>>
    BY <1>2, Calm
  <2>2. ASSUME NEW c \in Chars, GetCharacteristic(g, c)
        PROVE  \A h \in Callers : got'[h] # NoHandle => Whole(got'[h])
    <3>1. CASE got' = [got EXCEPT ![g] = NoHandle]
      BY <3>1 DEF Filled, Typed
    <3>2. CASE \E e \in findCharacteristic(gattChars, c) : got' = [got EXCEPT ![g] = e]
      <4>1. PICK e \in findCharacteristic(gattChars, c) : got' = [got EXCEPT ![g] = e]
        BY <3>2
      <4>2. PICK i \in 1..gattChars.len : e = arrays[gattChars.array][i]
        BY Hit
      <4>3. Whole(e)
        BY <4>2 DEF Filled, Written
      <4>4. QED BY <4>1, <4>3 DEF Filled, Typed
    <3>3. QED BY <2>2, <3>1, <3>2, Begins
  <2>3. ASSUME UNCHANGED got PROVE \A h \in Callers : got'[h] # NoHandle => Whole(got'[h])
    BY <2>3 DEF Filled
  <2>4. QED
    BY <1>1, <1>2, <2>1, <2>2, <2>3 DEF Looks, CachedServices, DiscoverServices, StoreServices,
       CallFails, ServiceNotFound, UnknownService, DiscoverCharacteristics
<1>3. ASSUME Len(arrays) \in Nat, Len(arrays') = Len(arrays) + 1,
             \A m \in 1..Len(arrays) : arrays'[m] = arrays[m]
      PROVE  \A m \in 1..Len(arrays) : \A i \in 1..Len(arrays[m]) :
               Whole(arrays[m][i]) => Whole(arrays'[m][i])
  BY <1>3
<1>4. ASSUME NEW g \in Callers, LoadOrStore(g) PROVE Filled'
  <2>1. CASE Added(g) /\ UNCHANGED <<arrays, gattChars, list>>
    BY <1>1, <1>4, <2>1, Loads, FoundWhole DEF Caching
  <2>2. CASE /\ arrays' = Append(arrays, <<Handle(Head(left[g]))>>)
             /\ gattChars' = [array |-> Len(arrays) + 1, len |-> 1]
             /\ Added(g) /\ list' = list
    <3>1. Head(left[g]) \in Chars
      BY <1>4, Loads
    <3>2. <<Handle(Head(left[g]))>> \in Seq(Handles) /\ Whole(<<Handle(Head(left[g]))>>[1])
      BY <3>1, HandleTyped, HandleWhole
    <3>3. /\ Len(arrays) \in Nat /\ Len(arrays') = Len(arrays) + 1
          /\ \A m \in 1..Len(arrays) : arrays'[m] = arrays[m]
          /\ arrays'[Len(arrays) + 1] = <<Handle(Head(left[g]))>>
      BY <2>2, <3>2, Grown DEF Arrayed
    <3>4. Written(gattChars)'
      BY <2>2, <3>2, <3>3 DEF Written
    <3>5. \A h \in Callers : Written(list[h])'
      <4>1. ASSUME NEW h \in Callers
            PROVE  \A i \in 1..list[h].len : Whole(arrays'[list[h].array][i])
        <5>1. Within(list[h]) /\ Written(list[h])
          BY DEF Arrayed, Filled
        <5>2. QED BY <1>3, <3>3, <5>1, StillWritten
      <4>2. QED BY <2>2, <4>1 DEF Written
    <3>6. \A h \in Callers : got'[h] # NoHandle => Whole(got'[h])
      BY <1>4, <2>2, Loads, FoundWhole DEF Caching
    <3>7. QED BY <3>4, <3>5, <3>6 DEF Filled
  <2>3. CASE /\ gattChars.len > 0 /\ list' = [list EXCEPT ![g] = gattChars]
             /\ UNCHANGED <<arrays, gattChars, left, got>>
    <3>1. \A h \in Callers : list'[h] = IF h = g THEN gattChars ELSE list[h]
      BY <2>3 DEF Arrayed
    <3>2. QED BY <2>3, <3>1 DEF Filled, Written
  <2>4. QED BY <1>4, <2>1, <2>2, <2>3, Loads
<1>5. ASSUME NEW g \in Callers, AppendCopy(g) PROVE Filled'
  <2> DEFINE s == list[g]
             q == arrays[s.array]
             h0 == Handle(Head(left[g]))
             new == Padded(Append(q, h0), 2 * Len(q))
  <2>1. /\ pc[g] = "append" /\ s.len = Len(q) /\ arrays' = Append(arrays, new)
        /\ list' = [list EXCEPT ![g] = [array |-> Len(arrays) + 1, len |-> s.len + 1]]
        /\ gattChars' = gattChars /\ got' = got
    BY <1>5 DEF AppendCopy
  <2>2. s.len > 0 /\ Within(s) /\ Written(s) /\ left[g] \in Seq(Chars) /\ left[g] # <<>>
    BY <2>1 DEF Arrayed, Filled, Typed, Caching, Adding
  <2>3. q \in Seq(Handles) /\ Len(q) \in Nat
    BY <2>2, Shown
  <2>4. h0 \in Handles /\ Whole(h0)
    BY <2>2, HeadTail, HandleTyped, HandleWhole
  <2>5. \A i \in 1..Len(q) : Whole(q[i])
    BY <2>1, <2>2 DEF Written
  <2> HIDE DEF h0
  <2>6. /\ Append(q, h0) \in Seq(Handles) /\ Len(Append(q, h0)) = Len(q) + 1
        /\ \A i \in 1..Len(q) : Append(q, h0)[i] = q[i]
        /\ Append(q, h0)[Len(q) + 1] = h0
    BY <2>3, <2>4, AppendProperties
  <2>7. /\ new \in Seq(Handles)
        /\ \A i \in 1..(Len(q) + 1) : new[i] = Append(q, h0)[i]
    <3>1. 2 * Len(q) \in Nat /\ Len(Append(q, h0)) <= 2 * Len(q)
      BY <2>1, <2>2, <2>3, <2>6
    <3>2. QED BY <2>6, <3>1, PaddedTyped
  <2>8. \A i \in 1..(Len(q) + 1) : Whole(new[i])
    <3>1. \A i \in 1..(Len(q) + 1) : i \in 1..Len(q) \/ i = Len(q) + 1
      BY <2>3
    <3>2. QED BY <2>4, <2>5, <2>6, <2>7, <3>1
  <2> HIDE DEF new
  <2>9. /\ Len(arrays) \in Nat /\ Len(arrays') = Len(arrays) + 1
        /\ \A m \in 1..Len(arrays) : arrays'[m] = arrays[m]
        /\ arrays'[Len(arrays) + 1] = new
    BY <2>1, <2>7, Grown DEF Arrayed
  <2>10. \A h \in Callers :
           list'[h] = IF h = g THEN [array |-> Len(arrays) + 1, len |-> s.len + 1] ELSE list[h]
    BY <2>1 DEF Arrayed
  <2>11. Written(gattChars)'
    <3>1. Within(gattChars) /\ Written(gattChars)
      BY DEF Arrayed, Filled
    <3>2. \A i \in 1..gattChars.len : Whole(arrays'[gattChars.array][i])
      BY <1>3, <2>9, <3>1, StillWritten
    <3>3. QED BY <2>1, <3>2 DEF Written
  <2>12. ASSUME NEW h \in Callers PROVE Written(list[h])'
    <3>1. CASE h = g
      BY <2>1, <2>8, <2>9, <2>10, <3>1 DEF Written
    <3>2. CASE h # g
      <4>1. Within(list[h]) /\ Written(list[h])
        BY DEF Arrayed, Filled
      <4>2. \A i \in 1..list[h].len : Whole(arrays'[list[h].array][i])
        BY <1>3, <2>9, <4>1, StillWritten
      <4>3. QED BY <2>10, <3>2, <4>2 DEF Written
    <3>3. QED BY <3>1, <3>2
  <2>13. QED BY <2>1, <2>11, <2>12 DEF Filled
<1>6. ASSUME NEW g \in Callers, NEW e \in Handles, pc[g] \in {"append", "half"},
             list[g].len < Len(arrays[list[g].array]), Writes(g, e),
             Whole(arrays[list[g].array][list[g].len + 1]) => Whole(e)
      PROVE  /\ arrays'[list[g].array][list[g].len + 1] = e
             /\ \A m \in 1..Len(arrays) : \A i \in 1..Len(arrays[m]) :
                  Whole(arrays[m][i]) => Whole(arrays'[m][i])
  <2>1. list[g].len > 0 /\ Within(list[g])
    BY <1>6 DEF Arrayed, Adding
  <2>2. list[g].array \in 1..Len(arrays) /\ list[g].len + 1 \in 1..Len(arrays[list[g].array])
    BY <1>6, <2>1, Shown
  <2>3. \A m \in 1..Len(arrays) : \A j \in 1..Len(arrays[m]) :
          arrays'[m][j] = IF m = list[g].array /\ j = list[g].len + 1 THEN e ELSE arrays[m][j]
    BY <1>6, <2>2, Overwritten DEF Writes, Arrayed
  <2>4. QED BY <1>6, <2>2, <2>3
<1>7. ASSUME NEW g \in Callers, AppendHalf(g) PROVE Filled'
  <2>1. /\ pc[g] = "append" /\ list[g].len < Len(arrays[list[g].array]) /\ list' = list
        /\ gattChars' = gattChars /\ got' = got
    BY <1>7 DEF AppendHalf
  <2>2. PICK e \in Halves(g) : Writes(g, e)
    BY <1>7 DEF AppendHalf
  <2>3. e \in Handles
    BY <2>1, HalvesTyped DEF Arrayed, Typed
  <2>4. Whole(Handle(Head(left[g])))
    <3>1. left[g] \in Seq(Chars) /\ left[g] # <<>>
      BY <2>1 DEF Typed, Caching
    <3>2. QED BY <3>1, HeadTail, HandleWhole
  <2>5. Whole(arrays[list[g].array][list[g].len + 1]) => Whole(e)
    BY <2>4 DEF Halves, Whole
  <2>6. \A m \in 1..Len(arrays) : \A i \in 1..Len(arrays[m]) :
          Whole(arrays[m][i]) => Whole(arrays'[m][i])
    BY <1>6, <2>1, <2>2, <2>3, <2>5
  <2>7. Written(gattChars)' /\ \A h \in Callers : Written(list[h])'
    <3>1. ASSUME NEW s, Within(s), Written(s)
          PROVE  \A i \in 1..s.len : Whole(arrays'[s.array][i])
      BY <2>6, <3>1, StillWritten
    <3>2. QED BY <2>1, <3>1 DEF Arrayed, Filled, Written
  <2>8. QED BY <2>1, <2>7 DEF Filled
<1>8. ASSUME NEW g \in Callers, AppendRest(g) PROVE Filled'
  <2>1. /\ pc[g] = "half" /\ Writes(g, Handle(Head(left[g])))
        /\ list' = [list EXCEPT ![g] = [array |-> list[g].array, len |-> list[g].len + 1]]
        /\ gattChars' = gattChars /\ got' = got
    BY <1>8 DEF AppendRest, Longer
  <2>2. /\ list[g].len < Len(arrays[list[g].array]) /\ list[g].len \in Nat
        /\ left[g] \in Seq(Chars) /\ left[g] # <<>>
    BY <2>1 DEF Arrayed, Within, Typed, Caching
  <2>3. Handle(Head(left[g])) \in Handles /\ Whole(Handle(Head(left[g])))
    BY <2>2, HeadTail, HandleTyped, HandleWhole
  <2>4. /\ arrays'[list[g].array][list[g].len + 1] = Handle(Head(left[g]))
        /\ \A m \in 1..Len(arrays) : \A i \in 1..Len(arrays[m]) :
             Whole(arrays[m][i]) => Whole(arrays'[m][i])
    BY <1>6, <2>1, <2>2, <2>3
  <2>5. ASSUME NEW s, Within(s), Written(s)
        PROVE  \A i \in 1..s.len : Whole(arrays'[s.array][i])
    BY <2>4, <2>5, StillWritten
  <2>6. Written(gattChars)'
    BY <2>1, <2>5 DEF Arrayed, Filled, Written
  <2>7. \A h \in Callers : list'[h] =
          IF h = g THEN [array |-> list[g].array, len |-> list[g].len + 1] ELSE list[h]
    BY <2>1 DEF Arrayed
  <2>8. \A h \in Callers : \A i \in 1..list[h].len : Whole(arrays'[list[h].array][i])
    BY <2>5 DEF Arrayed, Filled
  <2>9. \A i \in 1..(list[g].len + 1) : Whole(arrays'[list[g].array][i])
    <3>1. \A i \in 1..(list[g].len + 1) : i \in 1..list[g].len \/ i = list[g].len + 1
      BY <2>2
    <3>2. QED BY <2>3, <2>4, <2>8, <3>1
  <2>10. \A h \in Callers : Written(list[h])'
    BY <2>7, <2>8, <2>9 DEF Written
  <2>11. QED BY <2>1, <2>6, <2>10 DEF Filled
<1>9. ASSUME NEW g \in Callers, Store(g) PROVE Filled'
  <2>1. pc[g] = "store" /\ gattChars' = list[g] /\ Added(g) /\ UNCHANGED <<arrays, list>>
    BY <1>9 DEF Store
  <2>2. \A h \in Callers : got'[h] # NoHandle => Whole(got'[h])
    BY <2>1, FoundWhole DEF Caching
  <2>3. QED BY <2>1, <2>2 DEF Filled, Written
<1>10. ASSUME Reconnect \/ DropServices PROVE Filled'
  <2>1. UNCHANGED <<gattChars, arrays, list, got>>
    BY <1>10 DEF Reconnect, DropServices, cache, callers
  <2>2. QED BY <1>1, <2>1 DEF Filled
<1>11. ASSUME DropCharacteristics PROVE Filled'
  <2>1. gattChars' = [array |-> 0, len |-> 0] /\ UNCHANGED <<arrays, list, got>>
    BY <1>11 DEF DropCharacteristics, NoSlice, callers
  <2>2. QED BY <2>1 DEF Filled, Written
<1>12. ASSUME UNCHANGED vars PROVE Filled'
  <2>1. UNCHANGED <<gattChars, arrays, list, got>>
    BY <1>12 DEF vars, cache, callers
  <2>2. QED BY <1>1, <2>1 DEF Filled
<1>13. QED
  BY <1>2, <1>4, <1>5, <1>7, <1>8, <1>9, <1>10, <1>11, <1>12 DEF Next, Lookup, Looks

\* At first all of it holds.
LEMMA InitLemma ==
    ASSUME Init
    PROVE  IInv
<1> USE DEF NoSlice
<1>0. Lookups \in Nat /\ Reconnects \in Nat /\ Failures \in Nat /\ Cached \subseteq Chars
  BY GattAssumption DEF GattAssumption
<1>1. PICK before \in {{}, Cached} :
        LET found == [i \in 1..Cardinality(before) |-> Handle(Order(before)[i])] IN
        /\ charsKnown = before
        /\ gattSvcs = (before # {}) /\ svcsKnown = (before # {})
        /\ arrays = IF before = {} THEN <<>> ELSE <<Padded(found, Room(Len(found)))>>
        /\ gattChars = IF before = {} THEN NoSlice ELSE [array |-> 1, len |-> Len(found)]
  BY DEF Init
<1>2. /\ pc = [g \in Callers |-> "idle"] /\ asked = [g \in Callers |-> Nothing]
      /\ left = [g \in Callers |-> <<>>] /\ list = [g \in Callers |-> NoSlice]
      /\ got = [g \in Callers |-> NoHandle]
      /\ dropping = FALSE /\ lookups = Lookups /\ reconnects = Reconnects /\ failures = Failures
      /\ alone = TRUE /\ clean = TRUE
  BY DEF Init
<1>3. /\ arrays \in Seq(Seq(Handles)) /\ Within(gattChars) /\ All(gattChars) /\ Known(gattChars)
      /\ Written(gattChars)
  <2>1. CASE before = {}
    <3>1. arrays = <<>> /\ gattChars = [array |-> 0, len |-> 0]
      BY <1>1, <2>1
    <3>2. QED BY <3>1 DEF Within, All, Known, Written
  <2>2. CASE before # {}
    <3> DEFINE n == Cardinality(before)
               found == [i \in 1..n |-> Handle(Order(before)[i])]
               room == Room(Len(found))
               first == Padded(found, room)
    <3>1. before = Cached /\ before \subseteq Chars /\ n <= 16 /\ IsFiniteSet(before)
      BY <1>0, <2>2, GattAssumption, FS_Subset DEF GattAssumption
    <3>2. n \in Nat /\ Order(before) \in Seq(before) /\ Len(Order(before)) = n
      BY <3>1, Ordered
    <3>3. n # 0
      BY <2>2, <3>1, FS_EmptySet
    <3>4. \A i \in 1..n : Order(before)[i] \in before
      BY <3>2, ElementOfSeq
    <3>5. /\ found \in Seq(Handles) /\ Len(found) = n
          /\ \A i \in 1..n : found[i] = Handle(Order(before)[i])
      <4>1. found \in [1..n -> Handles]
        BY <3>1, <3>4, HandleTyped
      <4>2. QED BY <3>2, <4>1, SeqDef, LenProperties
    <3>6. \A i \in 1..n : Complete(found[i]) /\ Whole(found[i]) /\ found[i].uuid \in charsKnown
      BY <1>1, <3>1, <3>4, <3>5, HandleTyped, HandleComplete, HandleWhole
    <3>7. room \in Nat /\ n <= room
      <4>1. \E r \in {1, 2, 4, 8, 16} : n <= r /\ (r = 1 \/ r < 2 * n)
        BY <3>1, <3>2, <3>3
      <4>2. room = CHOOSE r \in {1, 2, 4, 8, 16} : n <= r /\ (r = 1 \/ r < 2 * n)
        BY <3>5 DEF Room
      <4> HIDE DEF room, n
      <4>3. room \in {1, 2, 4, 8, 16} /\ n <= room
        BY <4>1, <4>2
      <4>4. QED BY <4>3
    <3>8. arrays = <<first>> /\ gattChars = [array |-> 1, len |-> Len(found)]
      BY <1>1, <2>2
    <3> HIDE DEF found, room, n
    <3>9. /\ first \in Seq(Handles) /\ Len(first) = room
          /\ \A i \in 1..n : first[i] = found[i]
          /\ \A i \in 1..room : i > n => first[i] = NoHandle
      BY <3>5, <3>7, PaddedTyped
    <3> HIDE DEF first
    <3>10. arrays \in Seq(Seq(Handles)) /\ Len(arrays) = 1 /\ arrays[1] = first
      BY <3>8, <3>9
    <3>11. gattChars.array = 1 /\ gattChars.len = n /\ gattChars \in [array : 0..1, len : Nat]
      BY <3>2, <3>5, <3>8 DEF n
    <3>12. Within(gattChars) /\ All(gattChars) /\ Written(gattChars)
      BY <3>6, <3>7, <3>9, <3>10, <3>11 DEF Within, All, Written
    <3>13. \A i \in 1..room : first[i].uuid \in charsKnown \cup {Nothing}
      <4>1. \A i \in 1..room : i \in 1..n \/ i > n
        BY <3>2, <3>7 DEF n
      <4>2. QED BY <3>6, <3>9, <4>1, HandleTyped
    <3>14. Known(gattChars)
      BY <3>9, <3>10, <3>11, <3>13 DEF Known
    <3>15. QED BY <3>10, <3>12, <3>14
  <2>3. QED BY <2>1, <2>2
<1>4. Typed
  <2>1. gattSvcs \in BOOLEAN /\ svcsKnown \in BOOLEAN /\ charsKnown \subseteq Chars
    BY <1>0, <1>1
  <2>2. \A g \in Callers : left[g] = <<>> /\ pc[g] = "idle"
    BY <1>2
  <2>3. left \in [Callers -> Seq(Chars)]
    BY <1>2
  <2>4. lookups \in 0..Lookups /\ reconnects \in 0..Reconnects /\ failures \in 0..Failures
    BY <1>0, <1>2
  <2>5. /\ pc \in [Callers -> Points] /\ asked \in [Callers -> Chars \cup {Nothing}]
        /\ got \in [Callers -> Handles]
    BY <1>2, HandleTyped DEF Points
  <2>6. dropping \in BOOLEAN /\ alone \in BOOLEAN /\ clean \in BOOLEAN
    BY <1>2
  <2>7. QED BY <2>1, <2>2, <2>3, <2>4, <2>5, <2>6 DEF Typed, Caching
<1>5. Arrayed
  <2>1. Len(arrays) \in Nat
    BY <1>3, LenProperties
  <2>2. QED BY <1>2, <1>3, <2>1 DEF Arrayed, Within, Adding
<1>6. Meant
  BY <1>2 DEF Meant
<1>7. InTurn
  BY <1>2, <1>3 DEF InTurn, Kept, Adding
<1>8. InPeace
  BY <1>1, <1>2, <1>3 DEF InPeace, Adding, Caching
<1>9. Filled
  BY <1>2, <1>3 DEF Filled, Written
<1>10. QED BY <1>4, <1>5, <1>6, <1>7, <1>8, <1>9 DEF IInv

\* gatt.go:61-149.  The invariant of the cache.
THEOREM Inductive == Spec => []IInv
<1>1. IInv /\ [Next]_vars => IInv'
  <2> SUFFICES ASSUME IInv, [Next]_vars PROVE IInv'
    OBVIOUS
  <2>1. Typed /\ Arrayed /\ Meant /\ InTurn /\ InPeace /\ Filled
    BY DEF IInv
  <2>2. Typed' /\ Arrayed' /\ Meant'
    BY <2>1, TypedStep, ArrayedStep, MeantStep
  <2>3. InTurn'
    BY <2>1, InTurnStep DEF InTurn
  <2>4. InPeace'
    BY <2>1, InPeaceStep DEF InPeace
  <2>5. Filled'
    BY <2>1, FilledStep
  <2>6. QED BY <2>2, <2>3, <2>4, <2>5 DEF IInv
<1>2. QED BY <1>1, InitLemma, PTL DEF Spec

\* gatt.go:114-123.  A lookup that finds something returns the characteristic
\* it was asked for.
THEOREM ReturnsWhatWasAsked == Spec => []AskedFor
<1>1. IInv => AskedFor
  BY DEF IInv, Meant, AskedFor, Found
<1>2. QED BY <1>1, Inductive, PTL

\* gatt.go:139-149.  And with its own service, as long as no two goroutines
\* extend the cache at once.
THEOREM ReturnsItsService == Spec => []WithItsService
<1>1. IInv => WithItsService
  BY DEF IInv, Meant, InTurn, Complete, WithItsService, Found
<1>2. QED BY <1>1, Inductive, PTL

\* gatt.go:139-149.  Whoever writes into the same room meanwhile, what shows in
\* the cache, and what a lookup returns, is written through.
THEOREM NoHalves == Spec => []WholeHandles
<1>1. IInv => WholeHandles
  <2> SUFFICES ASSUME IInv PROVE WholeHandles
    OBVIOUS
  <2>1. \A e \in In(gattChars) : Whole(e)
    BY DEF IInv, Filled, Written, In
  <2>2. \A g \in Callers : Found(g) => Whole(got[g])
    BY DEF IInv, Filled, Found
  <2>3. QED BY <2>1, <2>2 DEF WholeHandles
<1>2. QED BY <1>1, Inductive, PTL

\* gatt.go:139-149.  As long as no two extend it at once, what is in the cache
\* stays until Disconnect.
THEOREM CacheKept == Spec => KeptAlone
<1>1. IInv /\ [Next]_vars =>
        [ alone' /\ ~DropCharacteristics =>
            \A e \in In(gattChars) :
              e \in {arrays'[gattChars'.array][i] : i \in 1..gattChars'.len} ]_vars
  <2> SUFFICES ASSUME IInv, [Next]_vars, alone', ~DropCharacteristics
               PROVE  \A e \in In(gattChars) :
                        e \in {arrays'[gattChars'.array][i] : i \in 1..gattChars'.len}
    OBVIOUS
  <2>1. Stays
    BY InTurnStep DEF IInv
  <2>2. QED BY <2>1 DEF Stays, In
<1>2. QED BY <1>1, Inductive, PTL DEF Spec, KeptAlone

\* A lookup that ends in peace has found what the helper knows, or nothing.
LEMMA EndsKnown ==
    ASSUME IInv, clean, NEW g \in Callers, pc[g] # "idle", pc'[g] = "idle", got'[g] # NoHandle,
           [Next]_vars
    PROVE  got'[g].uuid \in charsKnown'
<1>1. Typed /\ Meant /\ Caller(g)
  BY DEF IInv, InPeace, Caller
<1>2. PICK h \in Callers : (\E c \in Chars : GetCharacteristic(h, c)) \/ Lookup(h)
  <2>1. ~Reconnect /\ ~DropServices /\ ~DropCharacteristics /\ ~UNCHANGED vars
    BY DEF Reconnect, DropServices, DropCharacteristics, vars, callers
  <2>2. QED BY <2>1 DEF Next
<1>3. pc' = [pc EXCEPT ![h] = pc'[h]] /\ ~\E c \in Chars : GetCharacteristic(g, c)
  <2>1. ASSUME NEW c \in Chars, GetCharacteristic(h, c) PROVE pc' = [pc EXCEPT ![h] = pc'[h]]
    BY <1>1, <2>1 DEF GetCharacteristic, Goes, Typed
  <2>2. ASSUME NEW c \in Chars, GetCharacteristic(g, c) PROVE FALSE
    BY <2>2 DEF GetCharacteristic
  <2>3. ASSUME Lookup(h) PROVE \E p : pc' = [pc EXCEPT ![h] = p]
    BY <2>3 DEF Lookup, CachedServices, DiscoverServices, StoreServices, CallFails, ServiceNotFound,
       UnknownService, DiscoverCharacteristics, LoadOrStore, AppendCopy, AppendHalf, AppendRest,
       Store, Added, Goes
  <2>4. QED BY <1>1, <1>2, <2>1, <2>2, <2>3 DEF Typed
<1>4. g = h /\ Lookup(g)
  BY <1>1, <1>2, <1>3 DEF Typed
<1>5. CASE pc[g] \in Caching /\ Added(g) /\ UNCHANGED <<svcsKnown, charsKnown>>
  BY <1>1, <1>5, FoundKnown
<1>6. CASE pc[g] \in {"services", "keep", "discover"} /\ UNCHANGED got
  BY <1>1, <1>6 DEF Meant
<1>7. CASE pc'[g] \in {"append", "half", "store"}
  BY <1>7
<1>8. ASSUME LoadOrStore(g) PROVE got'[g].uuid \in charsKnown'
  <2>1. pc[g] \in Caching /\ UNCHANGED <<svcsKnown, charsKnown>>
    BY <1>1, <1>8, Loads DEF Caching
  <2>2. CASE Added(g)
    BY <1>5, <2>1, <2>2
  <2>3. CASE pc' = [pc EXCEPT ![g] = "append"]
    BY <1>1, <2>3 DEF Typed
  <2>4. QED BY <1>1, <1>8, <2>2, <2>3, Loads
<1>9. ASSUME Store(g) PROVE got'[g].uuid \in charsKnown'
  BY <1>5, <1>9 DEF Store, Caching, helper
<1>10. ASSUME AppendCopy(g) \/ AppendHalf(g) \/ AppendRest(g) PROVE FALSE
  <2>1. \E p \in {"half", "store"} : pc' = [pc EXCEPT ![g] = p]
    BY <1>10 DEF AppendCopy, AppendHalf, AppendRest, Goes
  <2>2. QED BY <1>1, <2>1 DEF Typed
<1>11. ASSUME CachedServices(g) \/ DiscoverServices(g) \/ StoreServices(g) \/ CallFails(g)
               \/ ServiceNotFound(g) \/ UnknownService(g) \/ DiscoverCharacteristics(g)
       PROVE  pc[g] \in {"services", "keep", "discover"} /\ UNCHANGED got
  BY <1>11 DEF CachedServices, DiscoverServices, StoreServices, CallFails, ServiceNotFound,
     UnknownService, DiscoverCharacteristics
<1>12. QED BY <1>4, <1>6, <1>8, <1>9, <1>10, <1>11 DEF Lookup

\* README.md:171-174,403-412.  A lookup after a reconnection and a Disconnect
\* that no lookup went across returns a handle that is of use, and asks for
\* no service the helper does not know.
THEOREM StaysOfUse == Spec => OfUse
<1> DEFINE Fine == \A g \in Callers : clean =>
                     /\ ~UnknownService(g)
                     /\ Returned(g) => got'[g].uuid \in charsKnown'
<1>1. IInv /\ [Next]_vars => [Fine]_vars
  <2> SUFFICES ASSUME IInv, [Next]_vars, NEW g \in Callers, clean
               PROVE  /\ ~UnknownService(g)
                      /\ Returned(g) => got'[g].uuid \in charsKnown'
    OBVIOUS
  <2>1. ~UnknownService(g)
    BY DEF IInv, InPeace, UnknownService
  <2>2. ASSUME Returned(g), NEW c \in Chars, GetCharacteristic(g, c)
        PROVE  got'[g].uuid \in charsKnown'
    <3>1. Typed /\ Arrayed /\ Known(gattChars)
      BY DEF IInv, InPeace
    <3>2. charsKnown' = charsKnown
      BY <2>2, <3>1, Begins
    <3>3. CASE got' = [got EXCEPT ![g] = NoHandle]
      BY <2>2, <3>1, <3>3 DEF Returned, Typed
    <3>4. CASE \E e \in findCharacteristic(gattChars, c) : got' = [got EXCEPT ![g] = e]
      <4>1. PICK e \in findCharacteristic(gattChars, c) : got' = [got EXCEPT ![g] = e]
        BY <3>4
      <4>2. PICK i \in 1..gattChars.len : e = arrays[gattChars.array][i] /\ e.uuid = c
        BY <3>1, Hit
      <4>3. gattChars.len > 0 /\ i \in 1..Len(arrays[gattChars.array])
        <5>1. Within(gattChars)
          BY <3>1 DEF Arrayed
        <5>2. gattChars.len \in Nat /\ gattChars.len > 0
          BY <4>2, <5>1 DEF Within
        <5>3. QED BY <3>1, <4>2, <5>1, <5>2, Shown
      <4>4. e.uuid \in charsKnown
        BY <3>1, <4>2, <4>3, GattAssumption DEF Known, GattAssumption
      <4>5. QED BY <3>1, <3>2, <4>1, <4>4 DEF Typed
    <3>5. QED BY <2>2, <3>1, <3>3, <3>4, Begins
  <2>3. ASSUME Returned(g), pc[g] # "idle" PROVE got'[g].uuid \in charsKnown'
    BY <2>3, EndsKnown DEF Returned
  <2>4. QED BY <2>1, <2>2, <2>3 DEF Returned
<1>2. QED BY <1>1, Inductive, PTL DEF Spec, OfUse
=============================================================================
