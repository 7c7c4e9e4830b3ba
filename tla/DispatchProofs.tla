--------------------------- MODULE DispatchProofs ---------------------------
(***************************************************************************)
(* Dispatch, for any set of handlers and subscriptions, any types, any     *)
(* capacity, and any number of frames and failures.                        *)
(***************************************************************************)
EXTENDS Dispatch, SequenceTheorems, TLAPS

Entries(q) == {q[i] : i \in 1..Len(q)}
Rising(q) == \A i, j \in 1..Len(q) : i < j => q[i] < q[j]
Distinct(q) == \A i, j \in 1..Len(q) : q[i] = q[j] => i = j

\* The types.
Points == {"out", "start", "notify", "registry", "subscribe", "added", "removed"}
Added == [sub : Subs, type : Types \cup {"write", "report"}]

Typed ==
    /\ pc \in [Handlers -> Points]
    /\ on \in [Handlers -> Added \cup {Nothing}]
    /\ \A h \in Handlers : pc[h] = "out" <=> on[h] = Nothing
    /\ \A h \in Handlers : on[h] # Nothing => Sub(h) \in Subs /\ on[h].type \in TypesOf(Sub(h))
    /\ mu \in [Subs -> Handlers \cup {Nothing}] /\ started \in [Subs -> BOOLEAN]
    /\ loop \in [Subs -> {"off", "receive", "handlers", "acks"}]
    /\ data \in [Subs -> Nat]
    /\ ch \in [Subs -> Seq(Nat)] /\ \A s \in Subs : Len(ch[s]) <= Cap
    /\ notifying \subseteq Chars /\ registry \in BOOLEAN
    /\ callbacks \in [Chars -> Seq(Subs)]
    /\ fan \in [n : Nat, left : Seq(Subs)] /\ stream \in Seq(Nat)
    /\ running \in [Handlers -> Seq(Nat)] /\ heard \in [Handlers -> Seq(Nat)]
    /\ sent \in Seq(Frame) /\ failures \in 0..Failures /\ failed \subseteq Subs
    /\ until \in [Handlers -> Nat \cup {Nothing}]

\* One goroutine starts a Subscription, with its lock, and registers it once.
Starting == {"notify", "registry", "subscribe"}

Locked ==
    /\ \A h \in Handlers : pc[h] \in Starting => mu[Sub(h)] = h
    /\ \A s \in Subs : mu[s] # Nothing => started[s]
    /\ \A c \in Chars : Distinct(callbacks[c])
    /\ \A c \in Chars : \A s \in Entries(callbacks[c]) :
         Char(s) = c /\ started[s] /\ mu[s] = Nothing

\* A frame goes one way: from the stream to the Subscriptions it still goes
\* to, to their channels, to the loop.  Each is ahead of the one before.
Upstream ==
    /\ Rising(stream)
    /\ \A n \in Entries(stream) : fan.n < n /\ n <= Len(sent)
    /\ fan.n <= Len(sent)
    /\ Distinct(fan.left)
    /\ \A s \in Entries(fan.left) : fan.n > 0 /\ sent[fan.n].char = Char(s)

DownstreamTo(s) ==
    /\ Rising(ch[s])
    /\ \A n \in Entries(ch[s]) :
         data[s] < n /\ n <= fan.n /\ sent[n].char = Char(s)
    /\ data[s] <= fan.n
    /\ s \in Entries(fan.left) =>
         data[s] < fan.n /\ \A n \in Entries(ch[s]) : n < fan.n
    /\ loop[s] \in {"handlers", "acks"} =>
         data[s] > 0 /\ sent[data[s]].char = Char(s) /\ sent[data[s]].type # "noise"
    /\ loop[s] = "acks" => IsAck(s)

Downstream == \A s \in Subs : DownstreamTo(s)

\* A handler has had the frames before the loop's, and that one too, once the
\* loop has got to it.
Yet(h) == loop[Sub(h)] = "handlers" \/ (loop[Sub(h)] = "acks" /\ on[h].type = "write")

GivenTo(h) ==
    /\ Rising(running[h])
    /\ \A n \in Entries(running[h]) : n \notin Entries(heard[h])
    /\ \A n \in Entries(running[h]) \cup Entries(heard[h]) :
         /\ pc[h] # "out"
         /\ 0 < n /\ n <= data[Sub(h)] /\ (Yet(h) => n < data[Sub(h)])
    /\ \A n \in Entries(running[h]) : Topic(h) \in Topics(sent[n])
    /\ until[h] = Nothing <=> pc[h] # "removed"
    /\ until[h] # Nothing => \A n \in Entries(running[h]) : n <= until[h]

Given == \A h \in Handlers : GivenTo(h)

IInv == Typed /\ Locked /\ Upstream /\ Downstream /\ Given

-----------------------------------------------------------------------------

\* Sequences: what adding at the end, taking from the front, and taking out of
\* the middle do to the entries and their order.
LEMMA EntriesTyped ==
    ASSUME NEW S, NEW q \in Seq(S)
    PROVE  \A e \in Entries(q) : e \in S
BY ElementOfSeq DEF Entries

\* A value at the end is one more entry, and keeps a sequence of distinct values distinct.
LEMMA AppendEntries ==
    ASSUME NEW S, NEW q \in Seq(S), NEW e \in S
    PROVE  /\ Append(q, e) \in Seq(S) /\ Len(Append(q, e)) = Len(q) + 1
           /\ Entries(Append(q, e)) = Entries(q) \cup {e}
           /\ Distinct(q) /\ e \notin Entries(q) => Distinct(Append(q, e))
BY AppendProperties DEF Entries, Distinct

\* A greater number at the end keeps a rising sequence rising.
LEMMA AppendRising ==
    ASSUME NEW q \in Seq(Nat), NEW e \in Nat, Rising(q), \A n \in Entries(q) : n < e
    PROVE  Rising(Append(q, e)) /\ Entries(Append(q, e)) = Entries(q) \cup {e}
BY AppendEntries, AppendProperties DEF Entries, Rising

\* The head is an entry; without it a sequence of distinct values has the others.
LEMMA TailEntries ==
    ASSUME NEW S, NEW q \in Seq(S), q # <<>>
    PROVE  /\ Tail(q) \in Seq(S) /\ Len(Tail(q)) = Len(q) - 1
           /\ Head(q) \in S /\ Head(q) \in Entries(q)
           /\ Entries(Tail(q)) \subseteq Entries(q)
           /\ Distinct(q) => Distinct(Tail(q)) /\ Head(q) \notin Entries(Tail(q))
<1>1. Len(q) \in Nat \ {0}
  BY EmptySeq
<1>2. Head(q) = q[1]
  BY <1>1
<1>3. /\ Tail(q) \in Seq(S) /\ Len(Tail(q)) = Len(q) - 1 /\ Head(q) \in S
      /\ \A i \in 1..Len(Tail(q)) : Tail(q)[i] = q[i + 1]
  BY HeadTailProperties
<1>4. QED BY <1>1, <1>2, <1>3 DEF Entries, Distinct

\* The head of a rising sequence is below all the others.
LEMMA TailRising ==
    ASSUME NEW q \in Seq(Nat), q # <<>>, Rising(q)
    PROVE  Rising(Tail(q)) /\ \A n \in Entries(Tail(q)) : Head(q) < n
<1>1. Len(q) \in Nat \ {0}
  BY EmptySeq
<1>2. Head(q) = q[1]
  BY <1>1
<1>3. /\ Len(Tail(q)) = Len(q) - 1
      /\ \A i \in 1..Len(Tail(q)) : Tail(q)[i] = q[i + 1]
  BY HeadTailProperties
<1>4. QED BY <1>1, <1>2, <1>3 DEF Entries, Rising

\* A rising sequence without one of its places rises, and has lost that entry.
LEMMA WithoutEntries ==
    ASSUME NEW q \in Seq(Nat), NEW i \in 1..Len(q), Rising(q)
    PROVE  /\ Without(q, i) \in Seq(Nat) /\ Rising(Without(q, i))
           /\ Entries(Without(q, i)) \subseteq Entries(q) \ {q[i]}
           /\ Len(Without(q, i)) < Len(q)
<1> DEFINE a == SubSeq(q, 1, i - 1)
           b == SubSeq(q, i + 1, Len(q))
<1>1. /\ Len(q) \in Nat /\ i \in Int
      /\ \A j \in 1..Len(q) : q[j] \in Nat
  OBVIOUS
<1>2. /\ a \in Seq(Nat) /\ Len(a) = i - 1
      /\ \A j \in 1..i - 1 : a[j] = q[j]
  <2>1. \A j \in 1..i - 1 : q[j] \in Nat
    BY <1>1
  <2>2. QED BY <1>1, <2>1, SubSeqProperties
<1>3. /\ b \in Seq(Nat) /\ Len(b) = Len(q) - i
      /\ \A j \in 1..Len(q) - i : b[j] = q[j + i]
  <2>1. \A j \in i + 1..Len(q) : q[j] \in Nat
    BY <1>1
  <2>2. /\ b \in Seq(Nat)
        /\ Len(b) = IF i + 1 <= Len(q) THEN Len(q) - (i + 1) + 1 ELSE 0
        /\ \A j \in 1..Len(q) - (i + 1) + 1 : b[j] = q[i + 1 + j - 1]
    BY <1>1, <2>1, SubSeqProperties
  <2> HIDE DEF b
  <2>3. QED BY <1>1, <2>2
<1>4. Without(q, i) = a \o b
  BY DEF Without
<1> HIDE DEF a, b
<1>5. /\ a \o b \in Seq(Nat) /\ Len(a \o b) = Len(q) - 1
      /\ \A j \in 1..Len(q) - 1 : (a \o b)[j] = IF j < i THEN q[j] ELSE q[j + 1]
  <2>1. /\ a \o b \in Seq(Nat) /\ Len(a \o b) = Len(a) + Len(b)
        /\ \A j \in 1..Len(a) + Len(b) :
             (a \o b)[j] = IF j <= Len(a) THEN a[j] ELSE b[j - Len(a)]
    BY <1>2, <1>3, ConcatProperties
  <2>2. Len(a) + Len(b) = Len(q) - 1
    BY <1>1, <1>2, <1>3
  <2>3. ASSUME NEW j \in 1..Len(q) - 1
        PROVE  (a \o b)[j] = IF j < i THEN q[j] ELSE q[j + 1]
    <3>1. CASE j < i
      BY <1>1, <1>2, <2>1, <2>2, <3>1
    <3>2. CASE ~(j < i)
      <4>1. j - Len(a) \in 1..Len(q) - i /\ j - Len(a) + i = j + 1
        BY <1>1, <1>2, <3>2
      <4>2. (a \o b)[j] = b[j - Len(a)]
        BY <1>1, <1>2, <2>1, <2>2, <3>2
      <4>3. b[j - Len(a)] = q[j - Len(a) + i]
        BY <1>3, <4>1
      <4>4. QED BY <3>2, <4>1, <4>2, <4>3
    <3>3. QED BY <3>1, <3>2
  <2>4. QED BY <2>1, <2>2, <2>3
<1> DEFINE w == Without(q, i)
<1>6. /\ w \in Seq(Nat) /\ Len(w) = Len(q) - 1
      /\ \A j \in 1..Len(w) : w[j] = IF j < i THEN q[j] ELSE q[j + 1]
  BY <1>4, <1>5
<1> HIDE DEF w
<1>7. Rising(w)
  <2> SUFFICES ASSUME NEW j \in 1..Len(w), NEW k \in 1..Len(w), j < k
               PROVE  w[j] < w[k]
    BY DEF Rising
  <2> DEFINE m == IF j < i THEN j ELSE j + 1
             n == IF k < i THEN k ELSE k + 1
  <2>1. j \in Nat /\ k \in Nat /\ j <= Len(q) - 1 /\ k <= Len(q) - 1
    BY <1>1, <1>6
  <2>2. m \in 1..Len(q) /\ n \in 1..Len(q) /\ m < n
    BY <1>1, <2>1
  <2>3. w[j] = q[m] /\ w[k] = q[n]
    BY <1>6
  <2> HIDE DEF m, n
  <2>4. QED BY <2>2, <2>3 DEF Rising
<1>8. ASSUME NEW j \in 1..Len(w) PROVE w[j] \in Entries(q) /\ w[j] # q[i]
  <2>1. PICK k \in 1..Len(q) : w[j] = q[k] /\ k # i
    BY <1>1, <1>6
  <2>2. q[k] # q[i]
    BY <1>1, <2>1 DEF Rising
  <2>3. QED BY <2>1, <2>2 DEF Entries
<1>9. Entries(w) \subseteq Entries(q) \ {q[i]}
  BY <1>8 DEF Entries
<1>10. QED BY <1>1, <1>6, <1>7, <1>9 DEF w

\* No step leaves the types, or lets a handler be added where it was not meant to be.
LEMMA TypedStep ==
    ASSUME Typed, Locked, Upstream, Given, [Next]_vars
    PROVE  Typed'
<1> USE DispatchAssumption DEF DispatchAssumption, Typed, Points, Added, Goes, Unlock, Sub, adders,
    subs, client, told, past
<1>1. ASSUME NEW h \in Handlers, NEW s \in Subs, NEW type \in TypesOf(s), AddCallback(h, s, type)
      PROVE Typed'
  <2>1. on' \in [Handlers -> Added \cup {Nothing}]
    BY <1>1 DEF AddCallback, TypesOf
  <2>2. \A g \in Handlers : on'[g] # Nothing => on'[g].type \in TypesOf(on'[g].sub)
    BY <1>1 DEF AddCallback
  <2>3. /\ pc' \in [Handlers -> Points] /\ pc'[h] # "out" /\ on'[h] \in Added /\ on'[h] # Nothing
        /\ \A g \in Handlers \ {h} : pc'[g] = pc[g] /\ on'[g] = on[g]
    <3>1. pc' = [pc EXCEPT ![h] = "start"] /\ on' = [on EXCEPT ![h] = [sub |-> s, type |-> type]]
      BY <1>1 DEF AddCallback
    <3>2. [sub |-> s, type |-> type] \in Added /\ [sub |-> s, type |-> type] # Nothing
      BY DEF TypesOf
    <3>3. QED BY <3>1, <3>2
  <2>4. \A g \in Handlers : (pc'[g] = "out" <=> on'[g] = Nothing) /\ (on'[g] # Nothing => on'[g].sub \in Subs)
    BY <2>3
  <2>5. UNCHANGED <<subs, client, told, sent, failures, past>>
    BY <1>1 DEF AddCallback
  <2>6. QED BY <2>1, <2>2, <2>3, <2>4, <2>5
<1>2. ASSUME NEW h \in Handlers, Started(h) PROVE Typed'
  BY <1>2 DEF Started
<1>3. ASSUME NEW h \in Handlers, Start(h) PROVE Typed'
  BY <1>3 DEF Start
<1>4. ASSUME NEW h \in Handlers, SetNotify(h) PROVE Typed'
  <2>1. notifying' \subseteq Chars
    BY <1>4 DEF SetNotify, Chars, Char
  <2>2. QED BY <1>4, <2>1 DEF SetNotify
<1>5. ASSUME NEW h \in Handlers, SetNotifyFails(h) PROVE Typed'
  <2>1. notifying' \subseteq Chars
    BY <1>5 DEF SetNotifyFails, Chars, Char
  <2>2. Sub(h) \in Subs
    BY <1>5 DEF SetNotifyFails
  <2>3. mu' \in [Subs -> Handlers \cup {Nothing}] /\ failed' \subseteq Subs
    BY <1>5, <2>2 DEF SetNotifyFails
  <2>4. failures' \in 0..Failures /\ pc' \in [Handlers -> Points]
    BY <1>5 DEF SetNotifyFails
  <2>5. UNCHANGED <<on, started, loop, data, ch, registry, callbacks, fan, stream, running, heard,
                    sent, until>>
    BY <1>5 DEF SetNotifyFails
  <2>6. pc[h] # "out" /\ pc'[h] # "out" /\ \A g \in Handlers \ {h} : pc'[g] = pc[g]
    BY <1>5 DEF SetNotifyFails
  <2>7. QED BY <2>1, <2>3, <2>4, <2>5, <2>6
<1>6. ASSUME NEW h \in Handlers, notifyRegistryFor(h) PROVE Typed'
  BY <1>6 DEF notifyRegistryFor
<1>7. ASSUME NEW h \in Handlers, subscribe(h) PROVE Typed'
  <2>1. Sub(h) \in Subs
    BY <1>7 DEF subscribe
  <2>2. Char(Sub(h)) \in Chars
    BY DEF Char, Chars
  <2>3. callbacks' \in [Chars -> Seq(Subs)]
    <3>1. Append(callbacks[Char(Sub(h))], Sub(h)) \in Seq(Subs)
      BY <2>1, <2>2, AppendProperties
    <3>2. QED BY <1>7, <2>2, <3>1 DEF subscribe
  <2>4. QED BY <1>7, <2>1, <2>3 DEF subscribe
<1>8. ASSUME NEW h \in Handlers, unregister(h) PROVE Typed'
  <2>1. /\ pc' = [pc EXCEPT ![h] = "removed"] /\ pc[h] = "added"
        /\ until' = [until EXCEPT ![h] = Len(sent)]
        /\ UNCHANGED <<on, subs, client, told, sent, failures, failed>>
    BY <1>8 DEF unregister
  <2>2. until' \in [Handlers -> Nat \cup {Nothing}]
    BY <2>1
  <2>3. pc' \in [Handlers -> Points] /\ \A g \in Handlers : pc'[g] = "out" <=> pc[g] = "out"
    BY <2>1
  <2>4. QED BY <2>1, <2>2, <2>3
<1>9. ASSUME NEW h \in Handlers, Call(h) PROVE Typed'
  <2>1. PICK i \in DOMAIN running[h] :
          /\ heard' = [heard EXCEPT ![h] = Append(heard[h], running[h][i])]
          /\ running' = [running EXCEPT ![h] = Without(running[h], i)]
    BY <1>9 DEF Call
  <2>2. running[h] \in Seq(Nat) /\ heard[h] \in Seq(Nat) /\ i \in 1..Len(running[h])
    OBVIOUS
  <2>3. Without(running[h], i) \in Seq(Nat)
    BY <2>2, WithoutEntries DEF Given, GivenTo
  <2>4. Append(heard[h], running[h][i]) \in Seq(Nat)
    BY <2>2, AppendProperties
  <2>5. running' \in [Handlers -> Seq(Nat)] /\ heard' \in [Handlers -> Seq(Nat)]
    BY <2>1, <2>3, <2>4
  <2>6. QED BY <1>9, <2>5 DEF Call
<1>10. ASSUME NEW f \in Frame, Notify(f) PROVE Typed'
  BY <1>10 DEF Notify
<1>11. CASE Fan
  <2>1. stream # <<>>
    BY <1>11 DEF Fan
  <2>2. /\ Head(stream) \in Nat /\ Head(stream) \in Entries(stream)
        /\ Tail(stream) \in Seq(Nat)
    BY <2>1, TailEntries
  <2>3. Head(stream) \in 1..Len(sent)
    BY <2>2 DEF Upstream
  <2>4. sent[Head(stream)].char \in Chars
    <3>1. sent[Head(stream)] \in Frame
      BY <2>3, ElementOfSeq
    <3>2. QED BY <3>1 DEF Frame, Chars
  <2>5. fan' \in [n : Nat, left : Seq(Subs)]
    BY <1>11, <2>2, <2>4 DEF Fan
  <2>6. QED BY <1>11, <2>2, <2>5 DEF Fan
<1>12. CASE Forward
  <2>1. fan.left # <<>> /\ fan.left \in Seq(Subs) /\ fan.n \in Nat
    BY <1>12 DEF Forward
  <2> DEFINE s == Head(fan.left)
  <2>2. s \in Subs /\ Tail(fan.left) \in Seq(Subs)
    BY <2>1, TailEntries
  <2>3. /\ fan' = [n |-> fan.n, left |-> Tail(fan.left)] /\ Len(ch[s]) < Cap
        /\ ch' = [ch EXCEPT ![s] = Append(ch[s], fan.n)]
        /\ UNCHANGED <<adders, mu, started, loop, data, notifying, registry, callbacks, stream,
                        told, sent, failures, past>>
    BY <1>12 DEF Forward
  <2> HIDE DEF s
  <2>4. /\ Append(ch[s], fan.n) \in Seq(Nat) /\ Len(Append(ch[s], fan.n)) = Len(ch[s]) + 1
        /\ Len(ch[s]) \in Nat
    BY <2>1, <2>2, AppendProperties
  <2>5. ch' \in [Subs -> Seq(Nat)] /\ \A r \in Subs : Len(ch'[r]) <= Cap
    BY <2>2, <2>3, <2>4
  <2>6. fan' \in [n : Nat, left : Seq(Subs)]
    BY <2>1, <2>2, <2>3
  <2>7. QED BY <2>3, <2>5, <2>6
<1>13. ASSUME NEW s \in Subs, Receive(s) PROVE Typed'
  <2>1. ch[s] # <<>> /\ ch[s] \in Seq(Nat)
    BY <1>13 DEF Receive
  <2>2. Head(ch[s]) \in Nat /\ Tail(ch[s]) \in Seq(Nat) /\ Len(Tail(ch[s])) = Len(ch[s]) - 1
    BY <2>1, TailEntries
  <2>3. /\ data' \in [Subs -> Nat] /\ ch' \in [Subs -> Seq(Nat)]
        /\ \A r \in Subs : Len(ch'[r]) <= Cap
    BY <1>13, <2>2 DEF Receive
  <2>4. loop' \in [Subs -> {"off", "receive", "handlers", "acks"}]
    BY <1>13 DEF Receive
  <2>5. QED BY <1>13, <2>3, <2>4 DEF Receive
<1>14. ASSUME NEW s \in Subs, StartHandlers(s) PROVE Typed'
  <2>1. running' \in [Handlers -> Seq(Nat)]
    BY <1>14, AppendProperties DEF StartHandlers, Starts
  <2>2. loop' \in [Subs -> {"off", "receive", "handlers", "acks"}]
    BY <1>14 DEF StartHandlers
  <2>3. QED BY <1>14, <2>1, <2>2 DEF StartHandlers
<1>15. ASSUME NEW s \in Subs, StartWriteHandlers(s) PROVE Typed'
  <2>1. running' \in [Handlers -> Seq(Nat)]
    BY <1>15, AppendProperties DEF StartWriteHandlers, Starts
  <2>2. QED BY <1>15, <2>1 DEF StartWriteHandlers
<1>16. CASE UNCHANGED vars
  BY <1>16 DEF vars
<1>17. QED
  BY <1>1, <1>2, <1>3, <1>4, <1>5, <1>6, <1>7, <1>8, <1>9,
     <1>10, <1>11, <1>12, <1>13, <1>14, <1>15, <1>16 DEF Next, Adding, Loop

\* The locks and the registrations.
LEMMA LockedStep ==
    ASSUME Typed, Typed', Locked, [Next]_vars
    PROVE  Locked'
<1> USE DispatchAssumption DEF DispatchAssumption, Locked, Starting, Goes, Unlock, Sub, adders,
    subs, client, told, past
<1> /\ pc \in [Handlers -> Points] /\ on \in [Handlers -> Added \cup {Nothing}]
    /\ \A h \in Handlers : pc[h] = "out" <=> on[h] = Nothing
    /\ \A h \in Handlers : on[h] # Nothing => on[h].sub \in Subs
    /\ mu \in [Subs -> Handlers \cup {Nothing}] /\ started \in [Subs -> BOOLEAN]
    /\ callbacks \in [Chars -> Seq(Subs)]
  BY DEF Typed, Sub
<1>1. ASSUME NEW h \in Handlers, NEW s \in Subs, NEW type \in TypesOf(s), AddCallback(h, s, type)
      PROVE Locked'
  BY <1>1 DEF AddCallback
<1>2. ASSUME NEW h \in Handlers, Started(h) PROVE Locked'
  BY <1>2 DEF Started
<1>3. ASSUME NEW h \in Handlers, Start(h) PROVE Locked'
  BY <1>3 DEF Start
<1>4. ASSUME NEW h \in Handlers, SetNotify(h) PROVE Locked'
  BY <1>4 DEF SetNotify
<1>5. ASSUME NEW h \in Handlers, SetNotifyFails(h) PROVE Locked'
  BY <1>5 DEF SetNotifyFails
<1>6. ASSUME NEW h \in Handlers, notifyRegistryFor(h) PROVE Locked'
  BY <1>6 DEF notifyRegistryFor
<1>7. ASSUME NEW h \in Handlers, subscribe(h) PROVE Locked'
  <2> DEFINE s == on[h].sub
             q == callbacks[Char(s)]
  <2>1. s \in Subs /\ mu[s] = h /\ started[s]
    BY <1>7 DEF subscribe
  <2>2. Char(s) \in Chars /\ q \in Seq(Subs)
    BY DEF Char, Chars
  <2>3. s \notin Entries(q) /\ Distinct(q)
    BY <2>1, <2>2
  <2>4. Distinct(Append(q, s)) /\ Entries(Append(q, s)) = Entries(q) \cup {s}
    BY <2>1, <2>2, <2>3, AppendEntries
  <2>5. callbacks' = [callbacks EXCEPT ![Char(s)] = Append(q, s)]
    BY <1>7 DEF subscribe
  <2>6. /\ mu' = [mu EXCEPT ![s] = Nothing] /\ started' = started /\ on' = on
        /\ pc' = [pc EXCEPT ![h] = "added"] /\ pc[h] = "subscribe"
    BY <1>7 DEF subscribe
  <2> HIDE DEF s, q
  <2>7. \A c \in Chars : Distinct(callbacks'[c])
    BY <2>2, <2>4, <2>5
  <2>8. \A c \in Chars : \A r \in Entries(callbacks'[c]) :
          Char(r) = c /\ started[r] /\ mu'[r] = Nothing
    <3> SUFFICES ASSUME NEW c \in Chars, NEW r \in Entries(callbacks'[c])
                 PROVE  Char(r) = c /\ started[r] /\ mu'[r] = Nothing
      OBVIOUS
    <3>1. (r = s /\ c = Char(s)) \/ r \in Entries(callbacks[c])
      BY <2>2, <2>4, <2>5 DEF q
    <3>2. callbacks[c] \in Seq(Subs)
      OBVIOUS
    <3>3. r \in Subs
      BY <2>1, <3>1, <3>2, ElementOfSeq DEF Entries
    <3>4. QED BY <2>1, <2>6, <3>1, <3>3
  <2>9. \A g \in Handlers : pc'[g] \in Starting => mu'[on'[g].sub] = g
    BY <2>1, <2>6 DEF s
  <2>10. \A r \in Subs : mu'[r] # Nothing => started'[r]
    BY <2>6
  <2>11. QED BY <2>6, <2>7, <2>8, <2>9, <2>10
<1>8. ASSUME NEW h \in Handlers, unregister(h) PROVE Locked'
  BY <1>8 DEF unregister
<1>9. ASSUME NEW h \in Handlers, Call(h) PROVE Locked'
  BY <1>9 DEF Call
<1>10. ASSUME NEW f \in Frame, Notify(f) PROVE Locked'
  BY <1>10 DEF Notify
<1>11. CASE Fan
  BY <1>11 DEF Fan
<1>12. CASE Forward
  BY <1>12 DEF Forward
<1>13. ASSUME NEW s \in Subs, Receive(s) PROVE Locked'
  BY <1>13 DEF Receive
<1>14. ASSUME NEW s \in Subs, StartHandlers(s) PROVE Locked'
  BY <1>14 DEF StartHandlers
<1>15. ASSUME NEW s \in Subs, StartWriteHandlers(s) PROVE Locked'
  BY <1>15 DEF StartWriteHandlers
<1>16. CASE UNCHANGED vars
  BY <1>16 DEF vars
<1>17. QED
  BY <1>1, <1>2, <1>3, <1>4, <1>5, <1>6, <1>7, <1>8, <1>9,
     <1>10, <1>11, <1>12, <1>13, <1>14, <1>15, <1>16 DEF Next, Adding, Loop

\* The stream, and the Subscriptions a frame still goes to.
LEMMA UpstreamStep ==
    ASSUME Typed, Typed', Locked, Upstream, [Next]_vars
    PROVE  Upstream'
<1> USE DEF Upstream, Goes, adders, subs, client, told, past
<1> /\ stream \in Seq(Nat) /\ fan \in [n : Nat, left : Seq(Subs)]
    /\ Len(sent) \in Nat
  BY DEF Typed
<1>1. ASSUME NEW h \in Handlers, NEW s \in Subs, NEW type \in TypesOf(s), AddCallback(h, s, type)
      PROVE Upstream'
  BY <1>1 DEF AddCallback
<1>2. ASSUME NEW h \in Handlers, Started(h) PROVE Upstream'
  BY <1>2 DEF Started
<1>3. ASSUME NEW h \in Handlers, Start(h) PROVE Upstream'
  BY <1>3 DEF Start
<1>4. ASSUME NEW h \in Handlers, SetNotify(h) PROVE Upstream'
  BY <1>4 DEF SetNotify
<1>5. ASSUME NEW h \in Handlers, SetNotifyFails(h) PROVE Upstream'
  BY <1>5 DEF SetNotifyFails
<1>6. ASSUME NEW h \in Handlers, notifyRegistryFor(h) PROVE Upstream'
  BY <1>6 DEF notifyRegistryFor
<1>7. ASSUME NEW h \in Handlers, subscribe(h) PROVE Upstream'
  BY <1>7 DEF subscribe
<1>8. ASSUME NEW h \in Handlers, unregister(h) PROVE Upstream'
  BY <1>8 DEF unregister
<1>9. ASSUME NEW h \in Handlers, Call(h) PROVE Upstream'
  BY <1>9 DEF Call
<1>10. ASSUME NEW f \in Frame, Notify(f) PROVE Upstream'
  <2>1. /\ sent \in Seq(Frame) /\ sent' \in Seq(Frame) /\ Len(sent') = Len(sent) + 1
        /\ \A n \in 1..Len(sent) : sent'[n] = sent[n]
    BY <1>10, AppendProperties DEF Notify, Typed
  <2>2. stream' = Append(stream, Len(sent) + 1) /\ fan' = fan
    BY <1>10 DEF Notify
  <2> DEFINE new == Len(sent) + 1
  <2>3. new \in Nat /\ \A n \in Entries(stream) : n \in Nat /\ n < new
    <3>1. \A n \in Entries(stream) : n \in Nat
      BY ElementOfSeq DEF Entries
    <3>2. QED BY <3>1
  <2> HIDE DEF new
  <2>4. Rising(Append(stream, new)) /\ Entries(Append(stream, new)) = Entries(stream) \cup {new}
    BY <2>3, AppendRising
  <2>5. /\ stream' = Append(stream, new) /\ Len(sent') = new /\ Len(sent) < new
        /\ UNCHANGED fan /\ fan.n \in Nat
    BY <2>1, <2>2 DEF new
  <2>6. \A s \in Entries(fan.left) : fan.n > 0 /\ sent'[fan.n].char = Char(s)
    BY <2>1
  <2>7. QED BY <2>3, <2>4, <2>5, <2>6
<1>11. CASE Fan
  <2>1. stream # <<>>
    BY <1>11 DEF Fan
  <2> DEFINE n == Head(stream)
  <2>2. /\ n \in Nat /\ n \in Entries(stream)
        /\ Rising(Tail(stream)) /\ \A m \in Entries(Tail(stream)) : n < m /\ m \in Entries(stream)
    BY <2>1, TailEntries, TailRising
  <2>3. /\ stream' = Tail(stream) /\ fan'.n = n /\ fan'.left = callbacks[sent[n].char]
        /\ sent' = sent
    BY <1>11 DEF Fan
  <2>4. n \in 1..Len(sent)
    BY <2>2
  <2>5. sent[n] \in Frame
    BY <2>4, ElementOfSeq DEF Typed
  <2>6. sent[n].char \in Chars
    BY <2>5 DEF Frame, Chars
  <2> HIDE DEF n
  <2>7. /\ Distinct(callbacks[sent[n].char])
        /\ \A s \in Entries(callbacks[sent[n].char]) : Char(s) = sent[n].char
    BY <2>6 DEF Locked
  <2>8. QED BY <2>2, <2>3, <2>4, <2>7
<1>12. CASE Forward
  <2>1. fan.left # <<>>
    BY <1>12 DEF Forward
  <2>2. Distinct(Tail(fan.left)) /\ Entries(Tail(fan.left)) \subseteq Entries(fan.left)
    BY <2>1, TailEntries
  <2>3. fan'.n = fan.n /\ fan'.left = Tail(fan.left) /\ UNCHANGED <<stream, sent>>
    BY <1>12 DEF Forward
  <2>4. QED BY <2>2, <2>3
<1>13. ASSUME NEW s \in Subs, Receive(s) PROVE Upstream'
  BY <1>13 DEF Receive
<1>14. ASSUME NEW s \in Subs, StartHandlers(s) PROVE Upstream'
  BY <1>14 DEF StartHandlers
<1>15. ASSUME NEW s \in Subs, StartWriteHandlers(s) PROVE Upstream'
  BY <1>15 DEF StartWriteHandlers
<1>16. CASE UNCHANGED vars
  BY <1>16 DEF vars
<1>17. QED
  BY <1>1, <1>2, <1>3, <1>4, <1>5, <1>6, <1>7, <1>8, <1>9,
     <1>10, <1>11, <1>12, <1>13, <1>14, <1>15, <1>16 DEF Next, Adding, Loop

\* The channels and the loops.
LEMMA DownstreamStep ==
    ASSUME Typed, Typed', Upstream, Downstream, [Next]_vars
    PROVE  Downstream'
<1> USE DEF Downstream, DownstreamTo, IsAck, Goes, adders, subs, client, told, past
<1> /\ ch \in [Subs -> Seq(Nat)] /\ data \in [Subs -> Nat]
    /\ loop \in [Subs -> {"off", "receive", "handlers", "acks"}]
    /\ stream \in Seq(Nat) /\ fan \in [n : Nat, left : Seq(Subs)] /\ Len(sent) \in Nat
  BY DEF Typed
<1> \A s \in Subs : \A n \in Entries(ch[s]) : n \in Nat
  BY ElementOfSeq DEF Entries
<1>1. ASSUME NEW h \in Handlers, NEW s \in Subs, NEW type \in TypesOf(s), AddCallback(h, s, type)
      PROVE Downstream'
  BY <1>1 DEF AddCallback
<1>2. ASSUME NEW h \in Handlers, Started(h) PROVE Downstream'
  BY <1>2 DEF Started
<1>3. ASSUME NEW h \in Handlers, Start(h) PROVE Downstream'
  BY <1>3 DEF Start
<1>4. ASSUME NEW h \in Handlers, SetNotify(h) PROVE Downstream'
  BY <1>4 DEF SetNotify
<1>5. ASSUME NEW h \in Handlers, SetNotifyFails(h) PROVE Downstream'
  BY <1>5 DEF SetNotifyFails
<1>6. ASSUME NEW h \in Handlers, notifyRegistryFor(h) PROVE Downstream'
  BY <1>6 DEF notifyRegistryFor
<1>7. ASSUME NEW h \in Handlers, subscribe(h) PROVE Downstream'
  BY <1>7 DEF subscribe
<1>8. ASSUME NEW h \in Handlers, unregister(h) PROVE Downstream'
  BY <1>8 DEF unregister
<1>9. ASSUME NEW h \in Handlers, Call(h) PROVE Downstream'
  BY <1>9 DEF Call
<1>10. ASSUME NEW f \in Frame, Notify(f) PROVE Downstream'
  <2>1. /\ sent \in Seq(Frame) /\ sent' \in Seq(Frame) /\ Len(sent') = Len(sent) + 1
        /\ \A n \in 1..Len(sent) : sent'[n] = sent[n]
    BY <1>10, AppendProperties DEF Notify, Typed
  <2>2. UNCHANGED <<ch, data, fan, loop>>
    BY <1>10 DEF Notify
  <2>3. fan.n <= Len(sent)
    BY DEF Upstream
  <2>4. ASSUME NEW n \in Nat, 0 < n, n <= fan.n PROVE sent'[n] = sent[n]
    <3>1. fan.n \in Nat
      OBVIOUS
    <3>2. n \in 1..Len(sent)
      BY <2>3, <2>4, <3>1
    <3>3. QED BY <2>1, <3>2
  <2>5. \A s \in Subs : \A n \in Entries(ch[s]) : sent'[n] = sent[n]
    BY <2>4
  <2>6. \A s \in Subs : loop[s] \in {"handlers", "acks"} => sent'[data[s]] = sent[data[s]]
    BY <2>4
  <2>7. ASSUME NEW s \in Subs PROVE DownstreamTo(s)'
    <3>1. /\ Rising(ch'[s]) /\ data'[s] <= fan'.n
          /\ \A n \in Entries(ch'[s]) : data'[s] < n /\ n <= fan'.n /\ sent'[n].char = Char(s)
          /\ s \in Entries(fan'.left) => data'[s] < fan'.n /\ \A n \in Entries(ch'[s]) : n < fan'.n
      BY <2>2, <2>5
    <3>2. loop'[s] \in {"handlers", "acks"} =>
            data'[s] > 0 /\ sent'[data'[s]].char = Char(s) /\ sent'[data'[s]].type # "noise"
      BY <2>2, <2>6
    <3>3. loop'[s] = "acks" => IsAck(s)'
      BY <2>2, <2>6
    <3> QED BY <3>1, <3>2, <3>3
  <2>8. QED BY <2>7
<1>11. CASE Fan
  <2>1. /\ fan.left = <<>> /\ stream # <<>> /\ fan'.n = Head(stream)
        /\ UNCHANGED <<ch, data, loop, sent>>
    BY <1>11 DEF Fan
  <2>2. Head(stream) \in Nat /\ fan.n < Head(stream)
    BY <2>1, TailEntries DEF Upstream
  <2>3. QED BY <2>1, <2>2
<1>12. CASE Forward
  <2> DEFINE s == Head(fan.left)
  <2>1. fan.left # <<>>
    BY <1>12 DEF Forward
  <2>2. /\ s \in Subs /\ s \in Entries(fan.left) /\ s \notin Entries(Tail(fan.left))
        /\ Entries(Tail(fan.left)) \subseteq Entries(fan.left)
    BY <2>1, TailEntries DEF Upstream
  <2>3. /\ fan'.n = fan.n /\ fan'.left = Tail(fan.left)
        /\ ch' = [ch EXCEPT ![s] = Append(ch[s], fan.n)]
        /\ UNCHANGED <<data, loop, sent>>
    BY <1>12 DEF Forward
  <2> HIDE DEF s
  <2>4. /\ fan.n \in Nat /\ data[s] < fan.n /\ \A n \in Entries(ch[s]) : n < fan.n
        /\ sent[fan.n].char = Char(s)
    BY <2>2 DEF Upstream
  <2>5. Rising(Append(ch[s], fan.n)) /\ Entries(Append(ch[s], fan.n)) = Entries(ch[s]) \cup {fan.n}
    <3>1. ch[s] \in Seq(Nat) /\ Rising(ch[s])
      BY <2>2
    <3> DEFINE q == ch[s]
               m == fan.n
    <3>2. q \in Seq(Nat) /\ Rising(q) /\ m \in Nat /\ \A n \in Entries(q) : n < m
      BY <2>4, <3>1
    <3> HIDE DEF q, m
    <3>3. Rising(Append(q, m)) /\ Entries(Append(q, m)) = Entries(q) \cup {m}
      BY <3>2, AppendRising
    <3>4. QED BY <3>3 DEF q, m
  <2>6. QED BY <2>2, <2>3, <2>4, <2>5
<1>13. ASSUME NEW s \in Subs, Receive(s) PROVE Downstream'
  <2> DEFINE n == Head(ch[s])
  <2>1. ch[s] # <<>> /\ loop[s] = "receive"
    BY <1>13 DEF Receive
  <2>2. /\ n \in Nat /\ n \in Entries(ch[s]) /\ Entries(Tail(ch[s])) \subseteq Entries(ch[s])
        /\ Rising(Tail(ch[s])) /\ \A m \in Entries(Tail(ch[s])) : n < m
    BY <2>1, TailEntries, TailRising
  <2>3. /\ data' = [data EXCEPT ![s] = n] /\ ch' = [ch EXCEPT ![s] = Tail(ch[s])]
        /\ UNCHANGED <<fan, sent>>
    BY <1>13 DEF Receive
  <2>4. /\ \A r \in Subs \ {s} : loop'[r] = loop[r]
        /\ loop'[s] = "receive" \/ (loop'[s] = "handlers" /\ sent[n].type # "noise")
    BY <1>13 DEF Receive
  <2> HIDE DEF n
  <2>5. data[s] < n /\ n <= fan.n /\ sent[n].char = Char(s)
    BY <2>2
  <2>6. s \in Entries(fan.left) => n < fan.n
    BY <2>2
  <2>7. \A r \in Subs \ {s} : DownstreamTo(r)'
    BY <2>3, <2>4
  <2>8. DownstreamTo(s)'
    <3>1. ch'[s] = Tail(ch[s]) /\ data'[s] = n /\ UNCHANGED <<fan, sent>>
      BY <2>3
    <3>2. \A m \in Entries(ch'[s]) : n < m /\ m <= fan.n /\ sent[m].char = Char(s)
      BY <2>2, <3>1
    <3>3. s \in Entries(fan.left) => n < fan.n /\ \A m \in Entries(ch'[s]) : m < fan.n
      BY <2>2, <3>1
    <3>4. n > 0
      BY <2>2, <2>5
    <3>5. QED BY <2>2, <2>4, <2>5, <3>1, <3>2, <3>3, <3>4
  <2>9. QED BY <2>7, <2>8
<1>14. ASSUME NEW s \in Subs, StartHandlers(s) PROVE Downstream'
  BY <1>14 DEF StartHandlers
<1>15. ASSUME NEW s \in Subs, StartWriteHandlers(s) PROVE Downstream'
  BY <1>15 DEF StartWriteHandlers
<1>16. CASE UNCHANGED vars
  BY <1>16 DEF vars
<1>17. QED
  BY <1>1, <1>2, <1>3, <1>4, <1>5, <1>6, <1>7, <1>8, <1>9,
     <1>10, <1>11, <1>12, <1>13, <1>14, <1>15, <1>16 DEF Next, Adding, Loop

\* A handler that nothing happens to has had what it had.
LEMMA SameGiven ==
    ASSUME Typed, Typed', NEW g \in Handlers, GivenTo(g),
           running'[g] = running[g], heard'[g] = heard[g], until'[g] = until[g],
           pc'[g] = "out" => pc[g] = "out", pc'[g] = "removed" <=> pc[g] = "removed",
           pc[g] # "out" =>
             /\ on'[g] = on[g]
             /\ \/ /\ data'[Sub(g)] = data[Sub(g)]
                   /\ loop[Sub(g)] = "handlers" \/ loop'[Sub(g)] \in {loop[Sub(g)], "receive"}
                \/ data[Sub(g)] < data'[Sub(g)],
           \A n \in Entries(running[g]) : sent'[n] = sent[n]
    PROVE  GivenTo(g)'
<1>1. \A n \in Entries(running[g]) \cup Entries(heard[g]) :
        n \in Nat /\ pc[g] # "out" /\ pc'[g] # "out"
  <2>1. running[g] \in Seq(Nat) /\ heard[g] \in Seq(Nat)
    BY DEF Typed
  <2>2. \A n \in Entries(running[g]) \cup Entries(heard[g]) : n \in Nat
    BY <2>1, EntriesTyped
  <2>3. QED BY <2>2 DEF GivenTo
<1>2. pc[g] # "out" => /\ Sub(g) \in Subs /\ Sub(g)' = Sub(g) /\ Topic(g)' = Topic(g)
                       /\ data[Sub(g)] \in Nat /\ data'[Sub(g)] \in Nat
  BY DEF Typed, Sub, Topic
<1>3. pc[g] # "out" =>
        /\ data[Sub(g)] <= data'[Sub(g)]
        /\ Yet(g)' => Yet(g) \/ data[Sub(g)] < data'[Sub(g)]
  BY <1>2 DEF Yet
<1>4. \A n \in Entries(running[g]) \cup Entries(heard[g]) :
        0 < n /\ n <= data'[Sub(g)'] /\ (Yet(g)' => n < data'[Sub(g)'])
  BY <1>1, <1>2, <1>3 DEF GivenTo
<1>5. \A n \in Entries(running[g]) : Topic(g)' \in Topics(sent'[n])
  BY <1>1, <1>2 DEF GivenTo
<1>6. QED BY <1>1, <1>4, <1>5 DEF GivenTo

\* What the handlers have had.
LEMMA GivenStep ==
    ASSUME Typed, Typed', Upstream, Downstream, Given, [Next]_vars
    PROVE  Given'
<1> USE DispatchAssumption DEF DispatchAssumption, Given, Goes, adders, subs, client, told, past
<1> /\ ch \in [Subs -> Seq(Nat)] /\ data \in [Subs -> Nat] /\ pc \in [Handlers -> Points]
    /\ loop \in [Subs -> {"off", "receive", "handlers", "acks"}]
    /\ fan.n \in Nat /\ Len(sent) \in Nat /\ sent \in Seq(Frame)
    /\ running \in [Handlers -> Seq(Nat)] /\ heard \in [Handlers -> Seq(Nat)]
    /\ until \in [Handlers -> Nat \cup {Nothing}] /\ on \in [Handlers -> Added \cup {Nothing}]
    /\ \A h \in Handlers : pc[h] = "out" <=> on[h] = Nothing
    /\ \A h \in Handlers : on[h] # Nothing => Sub(h) \in Subs
  BY DEF Typed
<1> \A h \in Handlers : \A n \in Entries(running[h]) \cup Entries(heard[h]) : n \in Nat /\ n <= Len(sent)
  <2> SUFFICES ASSUME NEW h \in Handlers, NEW n \in Entries(running[h]) \cup Entries(heard[h])
               PROVE  n \in Nat /\ n <= Len(sent)
    OBVIOUS
  <2>1. running[h] \in Seq(Nat) /\ heard[h] \in Seq(Nat)
    OBVIOUS
  <2>2. n \in Nat
    BY <2>1, EntriesTyped
  <2>3. n <= data[Sub(h)] /\ Sub(h) \in Subs
    BY DEF GivenTo
  <2>4. data[Sub(h)] <= fan.n /\ fan.n <= Len(sent) /\ data[Sub(h)] \in Nat
    BY <2>3 DEF Downstream, DownstreamTo, Upstream
  <2>5. QED BY <2>2, <2>3, <2>4
<1>1. ASSUME NEW h \in Handlers, NEW s \in Subs, NEW type \in TypesOf(s), AddCallback(h, s, type)
      PROVE Given'
  <2>1. /\ UNCHANGED <<running, heard, sent, until, data, loop>>
        /\ pc[h] = "out" /\ pc'[h] = "start"
        /\ \A g \in Handlers \ {h} : on'[g] = on[g] /\ pc'[g] = pc[g]
    BY <1>1 DEF AddCallback
  <2>2. QED BY <2>1, SameGiven
<1>2. ASSUME NEW h \in Handlers, Started(h) PROVE Given'
  <2>1. \A g \in Handlers : /\ running'[g] = running[g] /\ heard'[g] = heard[g] /\ until'[g] = until[g]
                            /\ (pc'[g] = "out" <=> pc[g] = "out") /\ (pc'[g] = "removed" <=> pc[g] = "removed")
                            /\ on'[g] = on[g]
    BY <1>2 DEF Started
  <2>2. data' = data /\ sent' = sent /\ \A s \in Subs : loop'[s] \in {loop[s], "receive"}
    BY <1>2 DEF Started
  <2>3. QED BY <2>1, <2>2, SameGiven
<1>3. ASSUME NEW h \in Handlers, Start(h) PROVE Given'
  <2>1. \A g \in Handlers : /\ running'[g] = running[g] /\ heard'[g] = heard[g] /\ until'[g] = until[g]
                            /\ (pc'[g] = "out" <=> pc[g] = "out") /\ (pc'[g] = "removed" <=> pc[g] = "removed")
                            /\ on'[g] = on[g]
    BY <1>3 DEF Start
  <2>2. data' = data /\ sent' = sent /\ \A s \in Subs : loop'[s] \in {loop[s], "receive"}
    BY <1>3 DEF Start
  <2>3. QED BY <2>1, <2>2, SameGiven
<1>4. ASSUME NEW h \in Handlers, SetNotify(h) PROVE Given'
  <2>1. \A g \in Handlers : /\ running'[g] = running[g] /\ heard'[g] = heard[g] /\ until'[g] = until[g]
                            /\ (pc'[g] = "out" <=> pc[g] = "out") /\ (pc'[g] = "removed" <=> pc[g] = "removed")
                            /\ on'[g] = on[g]
    BY <1>4 DEF SetNotify
  <2>2. data' = data /\ sent' = sent /\ \A s \in Subs : loop'[s] \in {loop[s], "receive"}
    BY <1>4 DEF SetNotify
  <2>3. QED BY <2>1, <2>2, SameGiven
<1>5. ASSUME NEW h \in Handlers, SetNotifyFails(h) PROVE Given'
  <2>1. \A g \in Handlers : /\ running'[g] = running[g] /\ heard'[g] = heard[g] /\ until'[g] = until[g]
                            /\ (pc'[g] = "out" <=> pc[g] = "out") /\ (pc'[g] = "removed" <=> pc[g] = "removed")
                            /\ on'[g] = on[g]
    BY <1>5 DEF SetNotifyFails
  <2>2. data' = data /\ sent' = sent /\ \A s \in Subs : loop'[s] \in {loop[s], "receive"}
    BY <1>5 DEF SetNotifyFails
  <2>3. QED BY <2>1, <2>2, SameGiven
<1>6. ASSUME NEW h \in Handlers, notifyRegistryFor(h) PROVE Given'
  <2>1. \A g \in Handlers : /\ running'[g] = running[g] /\ heard'[g] = heard[g] /\ until'[g] = until[g]
                            /\ (pc'[g] = "out" <=> pc[g] = "out") /\ (pc'[g] = "removed" <=> pc[g] = "removed")
                            /\ on'[g] = on[g]
    BY <1>6 DEF notifyRegistryFor
  <2>2. data' = data /\ sent' = sent /\ \A s \in Subs : loop'[s] \in {loop[s], "receive"}
    BY <1>6 DEF notifyRegistryFor
  <2>3. QED BY <2>1, <2>2, SameGiven
<1>7. ASSUME NEW h \in Handlers, subscribe(h) PROVE Given'
  <2>1. \A g \in Handlers : /\ running'[g] = running[g] /\ heard'[g] = heard[g] /\ until'[g] = until[g]
                            /\ (pc'[g] = "out" <=> pc[g] = "out") /\ (pc'[g] = "removed" <=> pc[g] = "removed")
                            /\ on'[g] = on[g]
    BY <1>7 DEF subscribe
  <2>2. data' = data /\ sent' = sent /\ \A s \in Subs : loop'[s] \in {loop[s], "receive"}
    BY <1>7 DEF subscribe
  <2>3. QED BY <2>1, <2>2, SameGiven
<1>8. ASSUME NEW h \in Handlers, unregister(h) PROVE Given'
  <2>1. UNCHANGED <<running, heard, sent, data, on, loop>>
    BY <1>8 DEF unregister
  <2>2. /\ pc[h] = "added" /\ pc'[h] = "removed" /\ until'[h] = Len(sent)
        /\ \A g \in Handlers \ {h} : pc'[g] = pc[g] /\ until'[g] = until[g]
    BY <1>8 DEF unregister
  <2>3. \A g \in Handlers \ {h} : GivenTo(g)'
    BY <2>1, <2>2, SameGiven
  <2>4. Yet(h)' = Yet(h) /\ Sub(h)' = Sub(h) /\ Topic(h)' = Topic(h)
    BY <2>1 DEF Yet, Sub, Topic
  <2>5. GivenTo(h)'
    BY <2>1, <2>2, <2>4 DEF GivenTo
  <2>6. QED BY <2>3, <2>5
<1>9. ASSUME NEW h \in Handlers, Call(h) PROVE Given'
  <2>1. PICK i \in DOMAIN running[h] :
          /\ heard' = [heard EXCEPT ![h] = Append(heard[h], running[h][i])]
          /\ running' = [running EXCEPT ![h] = Without(running[h], i)]
    BY <1>9 DEF Call
  <2>2. UNCHANGED <<pc, on, loop, data, sent, until>>
    BY <1>9 DEF Call
  <2> DEFINE q == running[h]
             r == heard[h]
             n == q[i]
  <2>3. q \in Seq(Nat) /\ r \in Seq(Nat) /\ i \in 1..Len(q) /\ Rising(q)
    BY DEF GivenTo
  <2>4. n \in Nat /\ n \in Entries(q)
    <3> HIDE DEF q
    <3>1. QED BY <2>3, ElementOfSeq DEF Entries
  <2>5. /\ Rising(Without(q, i)) /\ Entries(Without(q, i)) \subseteq Entries(q) \ {n}
        /\ Entries(Append(r, n)) = Entries(r) \cup {n}
    BY <2>3, <2>4, WithoutEntries, AppendEntries
  <2>6. running'[h] = Without(q, i) /\ heard'[h] = Append(r, n)
    BY <2>1
  <2>7. \A g \in Handlers \ {h} : running'[g] = running[g] /\ heard'[g] = heard[g]
    BY <2>1
  <2>8. Yet(h)' = Yet(h) /\ Sub(h)' = Sub(h) /\ Topic(h)' = Topic(h)
    BY <2>2 DEF Yet, Sub, Topic
  <2>9. \A m \in Entries(q) : m \notin Entries(r)
    BY DEF GivenTo
  <2> HIDE DEF n, q, r
  <2>10. \A m \in Entries(running'[h]) : m \in Entries(q) /\ m \notin Entries(heard'[h])
    BY <2>5, <2>6, <2>9
  <2>11. \A m \in Entries(heard'[h]) : m \in Entries(q) \cup Entries(r)
    BY <2>5, <2>6, <2>4
  <2>12. Rising(running'[h])
    BY <2>5, <2>6
  <2>13. GivenTo(h)'
    BY <2>2, <2>8, <2>10, <2>11, <2>12 DEF GivenTo, q, r
  <2>14. \A g \in Handlers \ {h} : GivenTo(g)'
    BY <2>2, <2>7, SameGiven
  <2>15. QED BY <2>13, <2>14
<1>10. ASSUME NEW f \in Frame, Notify(f) PROVE Given'
  <2>1. /\ sent \in Seq(Frame) /\ sent' \in Seq(Frame) /\ Len(sent') = Len(sent) + 1
        /\ \A n \in 1..Len(sent) : sent'[n] = sent[n]
    BY <1>10, AppendProperties DEF Notify, Typed
  <2>2. UNCHANGED <<pc, on, running, heard, until, data, loop>>
    BY <1>10 DEF Notify
  <2>3. \A h \in Handlers : \A n \in Entries(running[h]) : sent'[n] = sent[n]
    <3>1. \A h \in Handlers : \A n \in Entries(running[h]) : n \in 1..Len(sent)
      BY DEF GivenTo
    <3>2. QED BY <2>1, <3>1
  <2>4. QED BY <2>2, <2>3, SameGiven
<1>11. CASE Fan
  <2>1. \A g \in Handlers : /\ running'[g] = running[g] /\ heard'[g] = heard[g] /\ until'[g] = until[g]
                            /\ (pc'[g] = "out" <=> pc[g] = "out") /\ (pc'[g] = "removed" <=> pc[g] = "removed")
                            /\ on'[g] = on[g]
    BY <1>11 DEF Fan
  <2>2. data' = data /\ sent' = sent /\ \A s \in Subs : loop'[s] \in {loop[s], "receive"}
    BY <1>11 DEF Fan
  <2>3. QED BY <2>1, <2>2, SameGiven
<1>12. CASE Forward
  <2>1. \A g \in Handlers : /\ running'[g] = running[g] /\ heard'[g] = heard[g] /\ until'[g] = until[g]
                            /\ (pc'[g] = "out" <=> pc[g] = "out") /\ (pc'[g] = "removed" <=> pc[g] = "removed")
                            /\ on'[g] = on[g]
    BY <1>12 DEF Forward
  <2>2. data' = data /\ sent' = sent /\ \A s \in Subs : loop'[s] \in {loop[s], "receive"}
    BY <1>12 DEF Forward
  <2>3. QED BY <2>1, <2>2, SameGiven
<1>13. ASSUME NEW s \in Subs, Receive(s) PROVE Given'
  <2>1. ch[s] # <<>> /\ data' = [data EXCEPT ![s] = Head(ch[s])]
    BY <1>13 DEF Receive
  <2>2. /\ UNCHANGED <<pc, on, running, heard, until, sent>>
        /\ loop[s] = "receive" /\ \A r \in Subs \ {s} : loop'[r] = loop[r]
    BY <1>13 DEF Receive
  <2>3. Head(ch[s]) \in Nat /\ data[s] < Head(ch[s])
    BY <2>1, TailEntries DEF Downstream, DownstreamTo
  <2>4. QED BY <2>1, <2>2, <2>3, SameGiven
<1>14. ASSUME NEW s \in Subs, StartHandlers(s) PROVE Given'
  <2> DEFINE n == data[s]
             hs == HandlersFor(s, sent[data[s]].type)
  <2>1. /\ UNCHANGED <<pc, on, heard, sent, until, data>>
        /\ running' = [h \in Handlers |-> IF h \in hs THEN Append(running[h], n) ELSE running[h]]
        /\ \A r \in Subs \ {s} : loop'[r] = loop[r]
    BY <1>14 DEF StartHandlers, Starts
  <2>2. n \in Nat /\ 0 < n /\ n <= fan.n /\ n <= Len(sent) /\ sent[n].char = Char(s)
    BY <1>14 DEF StartHandlers, Downstream, DownstreamTo, Upstream
  <2>3. /\ sent[n].type # "noise" /\ loop'[s] \in {"acks", "receive"}
    BY <1>14 DEF StartHandlers, Downstream, DownstreamTo
  <2>4. /\ sent[n].type # "write"
        /\ <<Char(s), sent[n].type>> \in Topics(sent[n])
    <3>1. sent[n] \in Frame
      BY <2>2, ElementOfSeq
    <3> HIDE DEF n
    <3>2. CASE sent[n].char = "panel"
      <4>1. sent[n].type \in Types
        BY <2>3, <3>1, <3>2 DEF Frame
      <4>2. sent[n].type # "write"
        BY <4>1
      <4>3. <<"panel", sent[n].type>> \in Topics(sent[n])
        BY <3>2, <4>1 DEF Topics
      <4>4. QED BY <2>2, <3>2, <4>2, <4>3
    <3>3. CASE sent[n].char # "panel"
      BY <2>2, <2>3, <3>1, <3>3 DEF Frame, Topics
    <3>4. QED BY <3>2, <3>3
  <2> HIDE DEF n
  <2>5. ASSUME NEW h \in Handlers, h \in hs PROVE GivenTo(h)'
    <3>1. Sub(h) = s /\ on[h].type = sent[data[s]].type /\ pc[h] \notin {"out", "removed"}
      BY <2>5 DEF HandlersFor, Sub
    <3>2. Yet(h)
      BY <1>14, <3>1 DEF Yet, StartHandlers
    <3>3. \A m \in Entries(running[h]) \cup Entries(heard[h]) : 0 < m /\ m < n
      BY <3>1, <3>2 DEF n, GivenTo
    <3>4. Rising(Append(running[h], n)) /\ Entries(Append(running[h], n)) = Entries(running[h]) \cup {n}
      BY <2>2, <3>3, AppendRising DEF GivenTo
    <3>5. running'[h] = Append(running[h], n)
      BY <2>1, <2>5
    <3>6. /\ Sub(h)' = Sub(h) /\ Topic(h)' = Topic(h) /\ heard'[h] = heard[h] /\ pc'[h] = pc[h]
          /\ data'[Sub(h)'] = n /\ sent' = sent /\ until'[h] = Nothing
      BY <2>1, <3>1 DEF Sub, Topic, n, GivenTo
    <3>7. ~Yet(h)'
      BY <2>1, <2>3, <2>4, <3>1, <3>6 DEF Yet
    <3>8. Topic(h) \in Topics(sent[n])
      BY <2>4, <3>1 DEF Topic, n
    <3>9. \A m \in Entries(running'[h]) : (m = n \/ m \in Entries(running[h]))
      BY <3>4, <3>5
    <3>10. Rising(running'[h])
      BY <3>4, <3>5
    <3>11. \A m \in Entries(running'[h]) : m \notin Entries(heard'[h])
      BY <2>2, <3>3, <3>6, <3>9 DEF GivenTo
    <3>12. \A m \in Entries(running'[h]) \cup Entries(heard'[h]) : pc'[h] # "out" /\ 0 < m /\ m <= n
      BY <2>2, <3>1, <3>3, <3>6, <3>9
    <3>13. \A m \in Entries(running'[h]) : Topic(h)' \in Topics(sent'[m])
      <4>1. \A m \in Entries(running[h]) : Topic(h) \in Topics(sent[m])
        BY DEF GivenTo
      <4>2. \A m \in Entries(running'[h]) : Topic(h) \in Topics(sent[m])
        BY <3>8, <3>9, <4>1
      <4>3. ASSUME NEW m \in Entries(running'[h]) PROVE Topic(h)' \in Topics(sent'[m])
        <5>1. Topic(h)' = Topic(h) /\ sent'[m] = sent[m]
          BY <3>6
        <5>2. Topic(h) \in Topics(sent[m])
          BY <4>2
        <5>3. QED BY <5>1, <5>2
      <4>4. QED BY <4>3
    <3>14. QED BY <3>1, <3>6, <3>7, <3>10, <3>11, <3>12, <3>13 DEF GivenTo
  <2>6. ASSUME NEW h \in Handlers, h \notin hs PROVE GivenTo(h)'
    <3>1. \A r \in Subs : loop[r] = "handlers" \/ loop'[r] \in {loop[r], "receive"}
      BY <1>14, <2>1, <2>3 DEF StartHandlers
    <3>2. running'[h] = running[h]
      BY <2>1, <2>6
    <3>3. QED BY <2>1, <3>1, <3>2, SameGiven
  <2>7. QED BY <2>5, <2>6
<1>15. ASSUME NEW s \in Subs, StartWriteHandlers(s) PROVE Given'
  <2> DEFINE n == data[s]
             hs == HandlersFor(s, "write")
  <2>1. /\ UNCHANGED <<pc, on, heard, sent, until, data>>
        /\ running' = [h \in Handlers |-> IF h \in hs THEN Append(running[h], n) ELSE running[h]]
        /\ \A r \in Subs \ {s} : loop'[r] = loop[r]
    BY <1>15 DEF StartWriteHandlers, Starts
  <2>2. n \in Nat /\ 0 < n /\ n <= fan.n /\ n <= Len(sent) /\ sent[n].char = Char(s)
    BY <1>15 DEF StartWriteHandlers, Downstream, DownstreamTo, Upstream
  <2>3. loop'[s] = "receive"
    BY <1>15 DEF StartWriteHandlers
  <2>4. <<Char(s), "write">> \in Topics(sent[n])
    <3>1. sent[n].ack /\ Char(s) = "panel"
      BY <1>15 DEF StartWriteHandlers, Downstream, DownstreamTo, IsAck
    <3>2. QED BY <2>2, <3>1 DEF Topics
  <2> HIDE DEF n
  <2>5. ASSUME NEW h \in Handlers, h \in hs PROVE GivenTo(h)'
    <3>1. Sub(h) = s /\ on[h].type = "write" /\ pc[h] \notin {"out", "removed"}
      BY <2>5 DEF HandlersFor, Sub
    <3>2. Yet(h)
      BY <1>15, <3>1 DEF Yet, StartWriteHandlers
    <3>3. \A m \in Entries(running[h]) \cup Entries(heard[h]) : 0 < m /\ m < n
      BY <3>1, <3>2 DEF n, GivenTo
    <3>4. Rising(Append(running[h], n)) /\ Entries(Append(running[h], n)) = Entries(running[h]) \cup {n}
      BY <2>2, <3>3, AppendRising DEF GivenTo
    <3>5. running'[h] = Append(running[h], n)
      BY <2>1, <2>5
    <3>6. /\ Sub(h)' = Sub(h) /\ Topic(h)' = Topic(h) /\ heard'[h] = heard[h] /\ pc'[h] = pc[h]
          /\ data'[Sub(h)'] = n /\ sent' = sent /\ until'[h] = Nothing
      BY <2>1, <3>1 DEF Sub, Topic, n, GivenTo
    <3>7. ~Yet(h)'
      BY <2>1, <2>3, <2>4, <3>1, <3>6 DEF Yet
    <3>8. Topic(h) \in Topics(sent[n])
      BY <2>4, <3>1 DEF Topic, n
    <3>9. \A m \in Entries(running'[h]) : (m = n \/ m \in Entries(running[h]))
      BY <3>4, <3>5
    <3>10. Rising(running'[h])
      BY <3>4, <3>5
    <3>11. \A m \in Entries(running'[h]) : m \notin Entries(heard'[h])
      BY <2>2, <3>3, <3>6, <3>9 DEF GivenTo
    <3>12. \A m \in Entries(running'[h]) \cup Entries(heard'[h]) : pc'[h] # "out" /\ 0 < m /\ m <= n
      BY <2>2, <3>1, <3>3, <3>6, <3>9
    <3>13. \A m \in Entries(running'[h]) : Topic(h)' \in Topics(sent'[m])
      <4>1. \A m \in Entries(running[h]) : Topic(h) \in Topics(sent[m])
        BY DEF GivenTo
      <4>2. \A m \in Entries(running'[h]) : Topic(h) \in Topics(sent[m])
        BY <3>8, <3>9, <4>1
      <4>3. ASSUME NEW m \in Entries(running'[h]) PROVE Topic(h)' \in Topics(sent'[m])
        <5>1. Topic(h)' = Topic(h) /\ sent'[m] = sent[m]
          BY <3>6
        <5>2. Topic(h) \in Topics(sent[m])
          BY <4>2
        <5>3. QED BY <5>1, <5>2
      <4>4. QED BY <4>3
    <3>14. QED BY <3>1, <3>6, <3>7, <3>10, <3>11, <3>12, <3>13 DEF GivenTo
  <2>6. ASSUME NEW h \in Handlers, h \notin hs PROVE GivenTo(h)'
    <3>1. \A r \in Subs : loop[r] = "handlers" \/ loop'[r] \in {loop[r], "receive"}
      BY <1>15, <2>1, <2>3 DEF StartWriteHandlers
    <3>2. running'[h] = running[h]
      BY <2>1, <2>6
    <3>3. QED BY <2>1, <3>1, <3>2, SameGiven
  <2>7. QED BY <2>5, <2>6
<1>16. CASE UNCHANGED vars
  <2>1. \A g \in Handlers : /\ running'[g] = running[g] /\ heard'[g] = heard[g] /\ until'[g] = until[g]
                            /\ (pc'[g] = "out" <=> pc[g] = "out") /\ (pc'[g] = "removed" <=> pc[g] = "removed")
                            /\ on'[g] = on[g]
    BY <1>16 DEF vars
  <2>2. data' = data /\ sent' = sent /\ \A s \in Subs : loop'[s] \in {loop[s], "receive"}
    BY <1>16 DEF vars
  <2>3. QED BY <2>1, <2>2, SameGiven
<1>17. QED
  BY <1>1, <1>2, <1>3, <1>4, <1>5, <1>6, <1>7, <1>8, <1>9,
     <1>10, <1>11, <1>12, <1>13, <1>14, <1>15, <1>16 DEF Next, Adding, Loop

-----------------------------------------------------------------------------

\* All of it holds in every state.
THEOREM Inductive == Spec => []IInv
<1>1. Init => IInv
  <2> SUFFICES ASSUME Init PROVE IInv
    OBVIOUS
  <2> USE DispatchAssumption DEF DispatchAssumption, Init, Idle
  <2>1. Entries(<<>>) = {} /\ Rising(<<>>) /\ Distinct(<<>>)
    BY DEF Entries, Rising, Distinct
  <2>2. Typed
    <3>1. <<>> \in Seq(Nat) /\ <<>> \in Seq(Subs) /\ <<>> \in Seq(Frame) /\ Len(<<>>) = 0
      BY EmptySeq
    <3>2. /\ ch \in [Subs -> Seq(Nat)] /\ callbacks \in [Chars -> Seq(Subs)]
          /\ running \in [Handlers -> Seq(Nat)] /\ heard \in [Handlers -> Seq(Nat)]
          /\ fan \in [n : Nat, left : Seq(Subs)] /\ stream \in Seq(Nat) /\ sent \in Seq(Frame)
      BY <3>1
    <3>3. \A s \in Subs : Len(ch[s]) <= Cap
      BY <3>1
    <3>4. started \in [Subs -> BOOLEAN] /\ registry \in BOOLEAN
      BY Zenon
    <3>5. /\ mu \in [Subs -> Handlers \cup {Nothing}] /\ data \in [Subs -> Nat]
          /\ loop \in [Subs -> {"off", "receive", "handlers", "acks"}]
          /\ on \in [Handlers -> Added \cup {Nothing}]
          /\ until \in [Handlers -> Nat \cup {Nothing}] /\ pc \in [Handlers -> Points]
      BY DEF Points
    <3>6. failures \in 0..Failures
      OBVIOUS
    <3>7. QED BY <3>2, <3>3, <3>4, <3>5, <3>6 DEF Typed
  <2>3. Locked /\ Upstream /\ Downstream
    BY <2>1 DEF Locked, Starting, Upstream, Downstream, DownstreamTo
  <2>4. Given
    BY <2>1 DEF Given, GivenTo
  <2>5. QED BY <2>2, <2>3, <2>4 DEF IInv
<1>2. IInv /\ [Next]_vars => IInv'
  <2> SUFFICES ASSUME IInv, [Next]_vars PROVE IInv'
    OBVIOUS
  <2>1. Typed /\ Locked /\ Upstream /\ Downstream /\ Given
    BY DEF IInv
  <2>2. Typed'
    BY <2>1, TypedStep
  <2>3. Locked' /\ Upstream' /\ Downstream' /\ Given'
    BY <2>1, <2>2, LockedStep, UpstreamStep, DownstreamStep, GivenStep
  <2>4. QED BY <2>2, <2>3 DEF IInv
<1>3. QED BY <1>1, <1>2, PTL DEF Spec

\* A sequence over one set whose entries are in another is a sequence over that one.
LEMMA Narrower ==
    ASSUME NEW S, NEW R, NEW q \in Seq(S), \A e \in Entries(q) : e \in R
    PROVE  q \in Seq(R)
BY LenProperties DEF Entries

\* The frames known anywhere are frames that were sent, and a channel never
\* holds more than it can.
THEOREM TypeCorrect == Spec => []DispatchTypeOK
<1>1. IInv => DispatchTypeOK
  <2> SUFFICES ASSUME IInv PROVE DispatchTypeOK
    OBVIOUS
  <2>1. Typed /\ Locked /\ Upstream /\ Downstream /\ Given
    BY DEF IInv
  <2>2. Len(sent) \in Nat /\ fan.n \in Nat /\ fan.n <= Len(sent) /\ fan.left \in Seq(Subs)
    BY <2>1 DEF Typed, Upstream
  <2>3. stream \in Seq(Numbers)
    <3>1. stream \in Seq(Nat)
      BY <2>1 DEF Typed
    <3>2. \A n \in Entries(stream) : n \in Nat /\ fan.n < n /\ n <= Len(sent)
      BY <2>1, <3>1, EntriesTyped DEF Upstream
    <3>3. QED BY <2>2, <3>1, <3>2, Narrower DEF Numbers
  <2>4. ASSUME NEW s \in Subs PROVE ch[s] \in Seq(Numbers) /\ data[s] \in {0} \cup Numbers
    <3>1. ch[s] \in Seq(Nat) /\ data[s] \in Nat
      BY <2>1 DEF Typed
    <3>2. \A n \in Entries(ch[s]) : n \in Nat
      BY <3>1, EntriesTyped
    <3>3. data[s] <= fan.n /\ \A n \in Entries(ch[s]) : data[s] < n /\ n <= fan.n
      BY <2>1 DEF Downstream, DownstreamTo
    <3>4. \A n \in Entries(ch[s]) : n \in Numbers
      BY <2>2, <3>1, <3>2, <3>3 DEF Numbers
    <3>5. QED BY <2>2, <3>1, <3>3, <3>4, Narrower DEF Numbers
  <2>5. ASSUME NEW h \in Handlers PROVE running[h] \in Seq(Numbers) /\ heard[h] \in Seq(Numbers)
    <3>1. running[h] \in Seq(Nat) /\ heard[h] \in Seq(Nat)
      BY <2>1 DEF Typed
    <3>2. \A n \in Entries(running[h]) \cup Entries(heard[h]) : n \in Nat
      BY <3>1, EntriesTyped
    <3>3. \A n \in Entries(running[h]) \cup Entries(heard[h]) : n \in Numbers
      <4> SUFFICES ASSUME NEW n \in Entries(running[h]) \cup Entries(heard[h]) PROVE n \in Numbers
        OBVIOUS
      <4>1. 0 < n /\ n <= data[Sub(h)] /\ pc[h] # "out"
        BY <2>1 DEF Given, GivenTo
      <4>2. Sub(h) \in Subs
        BY <2>1, <4>1 DEF Typed
      <4>3. data[Sub(h)] \in Nat /\ data[Sub(h)] <= fan.n
        BY <2>1, <4>2 DEF Typed, Downstream, DownstreamTo
      <4>4. QED BY <2>2, <3>2, <4>1, <4>3 DEF Numbers
    <3>4. QED BY <3>1, <3>3, Narrower
  <2>6. data \in [Subs -> {0} \cup Numbers]
    BY <2>1, <2>4 DEF Typed
  <2>7. QED BY <2>1, <2>2, <2>3, <2>4, <2>5, <2>6 DEF Typed, DispatchTypeOK, Points
<1>2. QED BY <1>1, Inductive, PTL

\* What a step does to the goroutines of a handler: a frame of the loop is new
\* to it, and later than all it has had.
LEMMA Fresh ==
    ASSUME IInv, [Next]_vars, NEW h \in Handlers
    PROVE  \/ running'[h] = running[h]
           \/ \E i \in 1..Len(running[h]) : running'[h] = Without(running[h], i)
           \/ \E n \in Nat : /\ running'[h] = Append(running[h], n)
                             /\ heard'[h] = heard[h]
                             /\ \A m \in Entries(running[h]) \cup Entries(heard[h]) : m < n
<1> DEFINE Goal ==
      \/ running'[h] = running[h]
      \/ \E i \in 1..Len(running[h]) : running'[h] = Without(running[h], i)
      \/ \E n \in Nat : /\ running'[h] = Append(running[h], n)
                        /\ heard'[h] = heard[h]
                        /\ \A m \in Entries(running[h]) \cup Entries(heard[h]) : m < n
<1>1. /\ running \in [Handlers -> Seq(Nat)] /\ heard \in [Handlers -> Seq(Nat)]
      /\ data \in [Subs -> Nat]
  BY DEF IInv, Typed
<1>2. ASSUME NEW s \in Subs, StartHandlers(s) \/ StartWriteHandlers(s) PROVE Goal
  <2>1. CASE running'[h] = running[h]
    BY <2>1
  <2>2. CASE running'[h] # running[h]
    <3>1. /\ running'[h] = Append(running[h], data[s]) /\ heard' = heard
          /\ Sub(h) = s /\ Yet(h)
      BY <1>2, <2>2 DEF StartHandlers, StartWriteHandlers, Starts, HandlersFor, Sub, Yet
    <3>2. \A m \in Entries(running[h]) \cup Entries(heard[h]) : m < data[s]
      BY <3>1 DEF IInv, Given, GivenTo
    <3>3. QED BY <1>1, <3>1, <3>2
  <2>3. QED BY <2>1, <2>2
<1>3. ASSUME NEW g \in Handlers, Call(g) PROVE Goal
  <2>1. PICK i \in DOMAIN running[g] : running' = [running EXCEPT ![g] = Without(running[g], i)]
    BY <1>3 DEF Call
  <2>2. g = h => i \in 1..Len(running[h])
    BY <1>1, LenProperties
  <2>3. QED BY <1>1, <2>1, <2>2
<1>4. CASE running' = running
  BY <1>4
<1>5. \/ running' = running
      \/ \E g \in Handlers : Call(g)
      \/ \E s \in Subs : StartHandlers(s) \/ StartWriteHandlers(s)
  BY DEF Next, vars, told, Adding, Loop, AddCallback, Started, Start, SetNotify, SetNotifyFails,
         notifyRegistryFor, subscribe, unregister, Notify, Fan, Forward, Receive
<1>6. QED BY <1>2, <1>3, <1>4, <1>5

\* subscription.go:152-183.  The loop starts the goroutines of a handler in the
\* order in which the desk sent the frames.
THEOREM StartedInOrder == Spec => InOrder
<1> DEFINE Right ==
      \A h \in Handlers : Len(running'[h]) > Len(running[h]) =>
        LET n == running'[h][Len(running'[h])] IN
        /\ \A i \in DOMAIN running[h] : running[h][i] < n
        /\ \A i \in DOMAIN heard[h] : heard[h][i] < n
<1>1. IInv /\ [Next]_vars => Right
  <2> SUFFICES ASSUME IInv, [Next]_vars, NEW h \in Handlers, Len(running'[h]) > Len(running[h])
               PROVE  /\ \A i \in DOMAIN running[h] : running[h][i] < running'[h][Len(running'[h])]
                      /\ \A i \in DOMAIN heard[h] : heard[h][i] < running'[h][Len(running'[h])]
    OBVIOUS
  <2>1. /\ running[h] \in Seq(Nat) /\ heard[h] \in Seq(Nat) /\ Len(running[h]) \in Nat
        /\ DOMAIN running[h] = 1..Len(running[h]) /\ DOMAIN heard[h] = 1..Len(heard[h])
    BY LenProperties DEF IInv, Typed
  <2>2. PICK n \in Nat : /\ running'[h] = Append(running[h], n)
                         /\ \A m \in Entries(running[h]) \cup Entries(heard[h]) : m < n
    <3>1. running'[h] # running[h]
      BY <2>1
    <3>2. ASSUME NEW i \in 1..Len(running[h]) PROVE running'[h] # Without(running[h], i)
      <4>1. Without(running[h], i) \in Seq(Nat) /\ Len(Without(running[h], i)) < Len(running[h])
        BY <2>1, WithoutEntries DEF IInv, Given, GivenTo
      <4>2. Len(Without(running[h], i)) \in Nat
        BY <4>1
      <4>3. QED BY <2>1, <4>1, <4>2
    <3>3. QED BY <3>1, <3>2, Fresh
  <2>3. running'[h][Len(running'[h])] = n
    BY <2>1, <2>2, AppendProperties
  <2>4. QED BY <2>1, <2>2, <2>3 DEF Entries
<1>2. IInv /\ [Next]_vars => [Right]_vars
  BY <1>1
<1>3. Spec => [][Right]_vars
  BY <1>2, Inductive, PTL DEF Spec
<1>4. QED BY <1>3 DEF InOrder
-----------------------------------------------------------------------------

\* The state of the promise: how many frames, and who has joined.
LEMMA TopicsLen ==
    ASSUME NEW q \in Seq(Frame)
    PROVE  /\ Len([n \in 1..Len(q) |-> Topics(q[n])]) = Len(q) /\ Len(q) \in Nat
           /\ [n \in 1..Len(q) |-> Topics(q[n])] \in Seq({Topics(f) : f \in Frame})
<1> DEFINE p == [n \in 1..Len(q) |-> Topics(q[n])]
<1>1. Len(q) \in Nat /\ \A n \in 1..Len(q) : q[n] \in Frame
  BY ElementOfSeq
<1>2. p \in [1..Len(q) -> {Topics(f) : f \in Frame}]
  BY <1>1
<1>3. p \in Seq({Topics(f) : f \in Frame}) /\ DOMAIN p = 1..Len(q)
  BY <1>1, <1>2
<1> HIDE DEF p
<1>4. DOMAIN p = 1..Len(p) /\ Len(p) \in Nat
  BY <1>3, LenProperties
<1>5. Len(p) = Len(q)
  BY <1>1, <1>3, <1>4
<1>6. QED BY <1>1, <1>3, <1>5 DEF p

\* As many frames are published as were sent.
LEMMA PublishedLen ==
    ASSUME Typed
    PROVE  /\ Len(Published) = Len(sent) /\ Len(sent) \in Nat
           /\ \A n \in 1..Len(sent) : Published[n] = Topics(sent[n])
BY TopicsLen DEF Typed, Published, Numbers

\* A handler has joined with the topic of its registration.
LEMMA JoinedTopic ==
    ASSUME Typed, NEW h \in Handlers
    PROVE  /\ pc[h] = "out" <=> Joined[h] = Nothing
           /\ pc[h] # "out" => Joined[h] = Topic(h)
<1>1. CASE on[h] = Nothing
  BY <1>1 DEF Joined, Typed
<1>2. CASE on[h] # Nothing
  <2>1. Sub(h) \in Subs /\ on[h].type \in TypesOf(Sub(h)) /\ pc[h] # "out"
    BY <1>2 DEF Typed
  <2>2. Topic(h) # Nothing
    BY <2>1, DispatchAssumption DEF DispatchAssumption, Topic
  <2>3. QED BY <1>2, <2>1, <2>2 DEF Joined, Topic, Sub
<1>3. QED BY <1>1, <1>2

\* A goroutine that calls a handler: the frame is for it, and new to it.
LEMMA CallHears ==
    ASSUME IInv, NEW h \in Handlers, Call(h)
    PROVE  \E n \in 1..Len(Published) : View!Hear(h, n)
<1> USE DEF IInv
<1>1. PICK i \in DOMAIN running[h] :
        /\ heard' = [heard EXCEPT ![h] = Append(heard[h], running[h][i])]
        /\ UNCHANGED <<on, sent, until>>
  BY DEF Call, adders, subs, client, past
<1> DEFINE n == running[h][i]
<1>2. n \in Entries(running[h]) /\ n \in Nat
  BY LenProperties, ElementOfSeq DEF Entries, Typed
<1> HIDE DEF n
<1>3. /\ n \notin Entries(heard[h]) /\ pc[h] # "out" /\ Topic(h) \in Topics(sent[n])
      /\ until[h] # Nothing => n <= until[h]
      /\ 0 < n /\ n <= data[Sub(h)]
  BY <1>2 DEF Given, GivenTo
<1>4. n \in 1..Len(sent)
  <2>1. Sub(h) \in Subs
    BY <1>3 DEF Typed
  <2>2. data[Sub(h)] \in Nat /\ data[Sub(h)] <= fan.n /\ fan.n <= Len(sent) /\ fan.n \in Nat
    BY <2>1 DEF Typed, Downstream, DownstreamTo, Upstream
  <2>3. Len(sent) \in Nat
    BY DEF Typed
  <2>4. QED BY <1>2, <1>3, <2>2, <2>3
<1>5. n \in 1..Len(Published) /\ Published[n] = Topics(sent[n]) /\ Joined[h] = Topic(h)
  BY <1>3, <1>4, PublishedLen, JoinedTopic
<1>6. n \notin View!Called(h)
  BY <1>3, LenProperties DEF View!Called, Entries, Typed
<1>7. UNCHANGED <<Joined, Published, until>>
  BY <1>1 DEF Joined, Published, Numbers
<1>8. heard' = [heard EXCEPT ![h] = Append(heard[h], n)]
  BY <1>1 DEF n
<1>9. View!Hear(h, n)
  BY <1>3, <1>5, <1>6, <1>7, <1>8 DEF View!Hear, View!Stays
<1>10. QED BY <1>5, <1>9

\* A notification is published.
LEMMA NotifyPublishes ==
    ASSUME Typed, Typed', NEW f \in Frame, Notify(f)
    PROVE  /\ Len(Published') = Len(Published) + 1
           /\ View!Publish(Published'[Len(Published')])
<1>1. sent' = Append(sent, f) /\ UNCHANGED <<on, until, heard>>
  BY DEF Notify, adders, told
<1>2. /\ sent \in Seq(Frame) /\ Len(sent') = Len(sent) + 1 /\ sent'[Len(sent) + 1] = f
      /\ \A n \in 1..Len(sent) : sent'[n] = sent[n]
  BY <1>1, AppendProperties DEF Typed
<1> DEFINE T == {Topics(g) : g \in Frame}
<1>3. /\ Len(Published') = Len(sent') /\ Len(Published) = Len(sent) /\ Len(sent) \in Nat
      /\ \A n \in 1..Len(sent') : Published'[n] = Topics(sent'[n])
      /\ \A n \in 1..Len(sent) : Published[n] = Topics(sent[n])
  BY TopicsLen DEF Typed, Published, Numbers
<1>4. Published \in Seq(T) /\ Published' \in Seq(T)
  BY TopicsLen DEF Typed, Published, Numbers
<1>5. Topics(f) \in T
  OBVIOUS
<1> HIDE DEF T
<1>6. /\ Append(Published, Topics(f)) \in Seq(T)
      /\ Len(Append(Published, Topics(f))) = Len(Published) + 1
      /\ \A n \in 1..Len(Published) : Append(Published, Topics(f))[n] = Published[n]
      /\ Append(Published, Topics(f))[Len(Published) + 1] = Topics(f)
  BY <1>4, <1>5, AppendProperties
<1>7. ASSUME NEW n \in 1..Len(Published') PROVE Published'[n] = Append(Published, Topics(f))[n]
  <2>1. CASE n = Len(sent) + 1
    BY <1>2, <1>3, <1>6, <2>1
  <2>2. CASE n # Len(sent) + 1
    BY <1>2, <1>3, <1>6, <2>2
  <2>3. QED BY <2>1, <2>2
<1>8. Published' = Append(Published, Topics(f))
  BY <1>2, <1>3, <1>4, <1>6, <1>7, SeqEqual
<1>9. Published'[Len(Published')] = Topics(f)
  BY <1>2, <1>3, <1>6, <1>8
<1>10. UNCHANGED <<Joined, until, heard>>
  BY <1>1 DEF Joined
<1>11. QED BY <1>2, <1>3, <1>8, <1>9, <1>10 DEF View!Publish

\* Adding a handler joins.
LEMMA AddCallbackJoins ==
    ASSUME Typed, Typed', NEW h \in Handlers, NEW s \in Subs, NEW type \in TypesOf(s),
           AddCallback(h, s, type)
    PROVE  View!Join(h, Joined'[h])
<1>1. /\ pc[h] = "out" /\ pc'[h] # "out"
      /\ on' = [on EXCEPT ![h] = [sub |-> s, type |-> type]] /\ on \in [Handlers -> Added \cup {Nothing}]
      /\ UNCHANGED <<sent, until, heard>>
  BY DEF AddCallback, Goes, Typed, told, past
<1>2. Joined[h] = Nothing /\ Joined'[h] # Nothing
  <2>1. Joined[h] = Nothing
    BY <1>1, JoinedTopic
  <2>2. Joined'[h] = <<Char(s), type>>
    BY <1>1, DispatchAssumption DEF DispatchAssumption, Joined
  <2>3. QED BY <2>1, <2>2, DispatchAssumption DEF DispatchAssumption
<1>3. Joined' = [Joined EXCEPT ![h] = Joined'[h]]
  BY <1>1 DEF Joined
<1>4. UNCHANGED <<Published, until, heard>>
  BY <1>1 DEF Published, Numbers
<1>5. QED BY <1>2, <1>3, <1>4 DEF View!Join

\* Removing a handler leaves.
LEMMA unregisterLeaves ==
    ASSUME Typed, Given, NEW h \in Handlers, unregister(h)
    PROVE  View!Leave(h)
<1>1. pc[h] = "added" /\ until' = [until EXCEPT ![h] = Len(sent)] /\ UNCHANGED <<on, sent, heard>>
  BY DEF unregister, told
<1>2. until[h] = Nothing
  BY <1>1 DEF Given, GivenTo
<1>3. Joined[h] # Nothing /\ Len(Published) = Len(sent)
  BY <1>1, JoinedTopic, PublishedLen
<1>4. UNCHANGED <<Joined, Published, heard>>
  BY <1>1 DEF Joined, Published, Numbers
<1>5. QED BY <1>1, <1>2, <1>3, <1>4 DEF View!Leave, View!Stays

\* subscription.go:80-135, notify.go:46-66.  Every step does what a broadcast
\* may do, or nothing that it shows.
THEOREM Implements == Spec => ImplementsBroadcast
<1>1. Init => View!Init
  BY DEF Init, View!Init, Joined, Published, Numbers
<1>2. IInv /\ IInv' /\ [Next]_vars => [View!Next]_View!vars
  <2> SUFFICES ASSUME IInv, IInv', [Next]_vars
               PROVE  View!Next \/ UNCHANGED View!vars
    OBVIOUS
  <2> USE DEF IInv
  <2>1. ASSUME NEW h \in Handlers, NEW s \in Subs, NEW type \in TypesOf(s), AddCallback(h, s, type)
        PROVE  View!Next
    BY <2>1, AddCallbackJoins DEF View!Next
  <2>2. ASSUME NEW h \in Handlers, unregister(h) PROVE View!Next
    BY <2>2, unregisterLeaves DEF View!Next
  <2>3. ASSUME NEW h \in Handlers, Call(h) PROVE View!Next
    BY <2>3, CallHears DEF View!Next
  <2>4. ASSUME NEW f \in Frame, Notify(f) PROVE View!Next
    BY <2>4, NotifyPublishes DEF View!Next
  <2>5. CASE UNCHANGED <<on, sent, until, heard>>
    BY <2>5 DEF View!vars, Joined, Published, Numbers
  <2>6. \/ \E h \in Handlers : \/ \E s \in Subs : \E type \in TypesOf(s) : AddCallback(h, s, type)
                               \/ unregister(h) \/ Call(h)
        \/ \E f \in Frame : Notify(f)
        \/ UNCHANGED <<on, sent, until, heard>>
    BY DEF Next, vars, adders, told, past, Adding, Loop, Started, Start, SetNotify, SetNotifyFails,
           notifyRegistryFor, subscribe, Fan, Forward, Receive, StartHandlers, StartWriteHandlers
  <2>7. QED BY <2>1, <2>2, <2>3, <2>4, <2>5, <2>6
<1>3. QED BY <1>1, <1>2, Inductive, PTL DEF Spec, ImplementsBroadcast, View!Spec
=============================================================================
