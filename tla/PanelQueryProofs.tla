-------------------------- MODULE PanelQueryProofs --------------------------
(***************************************************************************)
(* PanelQuery, for any set of clients, any positions and settings, and any *)
(* number of calls, expiries, losses and cleared owner bits.               *)
(***************************************************************************)
EXTENDS PanelQuery, TLAPS

\* A call under way has a number.
Typed == TypeOK /\ \A c \in Clients : pc[c] # "idle" => about[c].number \in 1..Asks

\* Who holds a lock is where it is held, and knows what it asks.
Locked ==
    \A c \in Clients :
      /\ deskPanelMu = c <=> pc[c] \in {"send", "await"}
      /\ reminderMu = c <=> Updates(c) /\ pc[c] \notin {"idle", "reminderMu"}
      /\ pc[c] \in {"reminderMu", "write"} => Updates(c)
      /\ pc[c] = "writeUser" => Owns(c)

\* The subscription made in turn: one client at most makes it, and nobody
\* gets beyond it before its callbacks are registered.
Before == {"idle", "reminderMu", "init", "make"}

Wired ==
    /\ \A c, o \in Clients : {pc[c], pc[o]} \subseteq {"make", "wire"} => c = o
    /\ dpSub => \A c \in Clients : pc[c] # "make"
    /\ ~dpSub => wired = 0 /\ \A c \in Clients : pc[c] \in Before
    /\ wired = 1 <=> dpSub /\ \A c \in Clients : pc[c] # "wire"
    /\ wired = 0 \/ wired = 1
    /\ wired = 0 => \A c \in Clients : pc[c] \in Before \cup {"wire"}

\* An answer on its way, or in a slot, is to the question somebody waits with,
\* and is still true.
Awaited(a) == \E c \in Clients : pc[c] = "await" /\ a.for = Number(c)

True(a) ==
    \A c \in Clients : pc[c] = "await" =>
      /\ Updates(c) => a.says = reminder
      /\ Owns(c) /\ c \notin cleared /\ a.owner => owner

Good(a) == Awaited(a) /\ True(a)

\* And it is the only one.
Flow ==
    /\ \A a \in air \cup handlers : Good(a)
    /\ memory # None => Good(memory)
    /\ memoryUnset # None => Good(memoryUnset)
    /\ reminders # None => Good(reminders)
    /\ user # None => Good(user)

Empty == memory = None /\ memoryUnset = None /\ reminders = None /\ user = None

Single ==
    /\ \A a, b \in air : a = b
    /\ \A a, b \in handlers : a = b
    /\ air = {} \/ handlers = {}
    /\ air \cup handlers # {} => Empty
    /\ memory # None => memoryUnset = None /\ reminders = None /\ user = None
    /\ memoryUnset # None => reminders = None /\ user = None
    /\ reminders # None => user = None

\* What a client is about to write back is what is there.
Current ==
    /\ \A c \in Clients : pc[c] = "write" => current[c] = reminder
    /\ reminder = want

\* What a client waits for is on its way to a slot the client reads, or there.
Bound(c) == IF Updates(c) THEN {"reminder"} ELSE IF Owns(c) THEN {"user"}
            ELSE {"memory", "unset"}

OnItsWay(c) == \E a \in air \cup handlers : a.for = Number(c) /\ a.slot \in Bound(c)

There(c) == \E a \in SlotsOf(c) : a # None /\ a.for = Number(c)

Kept == \A c \in Clients : pc[c] = "await" => OnItsWay(c) \/ There(c)

IInv ==
    /\ Typed
    /\ Locked
    /\ inTurn => Wired
    /\ Orderly => Flow /\ Single /\ Current
    /\ Orderly /\ losses = Losses => Kept

-----------------------------------------------------------------------------

\* The types.
LEMMA TypedInit == Init => Typed
<1> SUFFICES ASSUME Init PROVE Typed
  OBVIOUS
<1> USE PanelAssumption DEF PanelAssumption, Init
<1>1. Unwritten \in [Settings -> 0..Asks]
  BY DEF Unwritten
<1>2. about \in [Clients -> [what : Positions \cup Settings \cup {Ownership, None},
                             number : 0..Asks, turn : {1, 2}]]
  BY DEF Nothing
<1>3. expired \in [Clients -> BOOLEAN]
  BY Zenon
<1>4. asks \in 0..Asks /\ expiries \in 0..Expiries /\ losses \in 0..Losses /\ clears \in 0..Clears
  BY SMT
<1>5. owner \in BOOLEAN /\ inTurn \in BOOLEAN /\ patient \in BOOLEAN /\ dpSub \in BOOLEAN
  BY Zenon
<1>6. QED BY <1>1, <1>2, <1>3, <1>4, <1>5 DEF Typed, TypeOK

\* An answer is a record of its five parts.
LEMMA AnswerTyped ==
    ASSUME Typed, NEW c \in Clients, pc[c] # "idle"
    PROVE  Answer(c) \in Answers
<1>1. (Owns(c) /\ owner) \in BOOLEAN
  BY Zenon
<1>2. Number(c) \in Numbers
  BY DEF Typed, TypeOK, Number, Numbers
<1>3. reminder \in [Settings -> 0..Asks]
  BY DEF Typed, TypeOK
<1>4. QED BY <1>1, <1>2, <1>3 DEF Answer, Answers

\* So is the copy of it a callback gets.
LEMMA CopyTyped ==
    ASSUME NEW a \in Answers, NEW i \in Nat
    PROVE  Copied(a, i) \in Answers
BY DEF Copied, Answers

\* A client that returns, and the answers that no longer concern anybody.
LEMMA ForgetsTyped ==
    ASSUME Typed, NEW c \in Clients, Forgets(c)
    PROVE  /\ pc' \in [Clients -> {"idle", "reminderMu", "init", "make", "wire", "deskPanelMu",
                                   "send", "await", "write", "writeUser"}]
           /\ about' \in [Clients -> [what : Positions \cup Settings \cup {Ownership, None},
                                      number : 0..Asks, turn : {1, 2}]]
           /\ expired' \in [Clients -> BOOLEAN]
           /\ current' \in [Clients -> [Settings -> 0..Asks]]
           /\ cleared' \subseteq Clients
           /\ \A o \in Clients : pc'[o] # "idle" => about'[o].number \in 1..Asks
<1> USE PanelAssumption DEF PanelAssumption, Typed, TypeOK, Forgets, Goes
<1>1. Nothing \in [what : Positions \cup Settings \cup {Ownership, None},
                   number : 0..Asks, turn : {1, 2}]
  BY DEF Nothing
<1>2. Unwritten \in [Settings -> 0..Asks]
  BY DEF Unwritten
<1>3. expired' \in [Clients -> BOOLEAN]
  BY Zenon
<1>4. QED BY <1>1, <1>2, <1>3

\* No step leaves the types.
LEMMA TypedStep == Typed /\ [Next]_vars => Typed'
<1> SUFFICES ASSUME Typed PROVE [Next]_vars => Typed'
  OBVIOUS
<1> USE PanelAssumption DEF PanelAssumption, Typed, TypeOK, Goes, desk, subs, locks, slots,
     clients, bounds, past
<1>1. ASSUME NEW c \in Clients, NEW what \in Positions \cup Settings \cup {Ownership}, Ask(c, what)
      PROVE Typed'
  BY <1>1 DEF Ask
<1>2. ASSUME NEW c \in Clients, LockReminder(c) PROVE Typed'
  BY <1>2 DEF LockReminder
<1>3. ASSUME NEW c \in Clients, LookForSub(c) PROVE Typed'
  BY <1>3 DEF LookForSub
<1>4. ASSUME NEW c \in Clients, MakeSub(c) PROVE Typed'
  BY <1>4 DEF MakeSub
<1>5. ASSUME NEW c \in Clients, WireSub(c) PROVE Typed'
  BY <1>5 DEF WireSub
<1>6. ASSUME NEW c \in Clients, LockPanel(c) PROVE Typed'
  BY <1>6 DEF LockPanel, Drain
<1>7. ASSUME NEW c \in Clients, Send(c) PROVE Typed'
  <2>1. air' \subseteq Answers
    BY <1>7, AnswerTyped DEF Send
  <2>2. QED BY <1>7, <2>1 DEF Send
<1>8. ASSUME NEW c \in Clients, SendFails(c) PROVE Typed'
  <2>1. Answer(c) \in Answers
    BY <1>8, AnswerTyped DEF SendFails
  <2>2. patient' \in BOOLEAN
    BY <1>8, Zenon DEF SendFails
  <2>3. air' \subseteq Answers
    BY <1>8, <2>1 DEF SendFails
  <2>4. QED BY <1>8, <2>2, <2>3, ForgetsTyped DEF SendFails, Returns
<1>9. ASSUME NEW c \in Clients, TakeMemory(c) PROVE Typed'
  BY <1>9, ForgetsTyped DEF TakeMemory, Returns
<1>10. ASSUME NEW c \in Clients, TakeReminder(c) PROVE Typed'
  BY <1>10 DEF TakeReminder, Answers
<1>11. ASSUME NEW c \in Clients, TakeUser(c) PROVE Typed'
  BY <1>11, ForgetsTyped DEF TakeUser, Returns
<1>12. ASSUME NEW c \in Clients, WriteUser(c) PROVE Typed'
  <2>1. owner' \in BOOLEAN
    BY <1>12, Zenon DEF WriteUser
  <2>2. CASE Returns(c)
    BY <1>12, <2>1, <2>2, ForgetsTyped DEF WriteUser, Returns
  <2>3. CASE ~Returns(c)
    <3> DEFINE r == [what |-> Ownership, number |-> about[c].number, turn |-> 2]
    <3>1. r \in [what : Positions \cup Settings \cup {Ownership, None},
                 number : 0..Asks, turn : {1, 2}]
      OBVIOUS
    <3>2. about' = [about EXCEPT ![c] = r] /\ pc' = [pc EXCEPT ![c] = "init"]
      BY <1>12, <2>3 DEF WriteUser
    <3>3. r.number \in 1..Asks
      BY <1>12 DEF WriteUser
    <3> HIDE DEF r
    <3>4. /\ about' \in [Clients -> [what : Positions \cup Settings \cup {Ownership, None},
                                      number : 0..Asks, turn : {1, 2}]]
          /\ pc' \in [Clients -> {"idle", "reminderMu", "init", "make", "wire", "deskPanelMu",
                                   "send", "await", "write", "writeUser"}]
          /\ \A o \in Clients : pc'[o] # "idle" => about'[o].number \in 1..Asks
      BY <3>1, <3>2, <3>3
    <3>5. QED BY <1>12, <2>1, <2>3, <3>4 DEF WriteUser
  <2>4. QED BY <2>2, <2>3
<1>13. ASSUME NEW c \in Clients, GiveUp(c) PROVE Typed'
  BY <1>13, ForgetsTyped DEF GiveUp, Returns
<1>14. ASSUME NEW c \in Clients, Write(c) PROVE Typed'
  <2>1. CASE UNCHANGED <<reminder, want>>
    BY <1>14, <2>1, ForgetsTyped DEF Write, Returns
  <2>2. CASE ~UNCHANGED <<reminder, want>>
    <3>1. about[c].number \in 0..Asks
      OBVIOUS
    <3>2. /\ reminder' = [current[c] EXCEPT ![about[c].what] = about[c].number]
          /\ want' = [want EXCEPT ![about[c].what] = about[c].number]
      BY <1>14, <2>2 DEF Write
    <3>3. current[c] \in [Settings -> 0..Asks] /\ want \in [Settings -> 0..Asks]
      OBVIOUS
    <3>4. {reminder', want'} \subseteq [Settings -> 0..Asks]
      BY <3>1, <3>2, <3>3
    <3>5. QED BY <1>14, <3>4, ForgetsTyped DEF Write, Returns
  <2>3. QED BY <2>1, <2>2
<1>15. ASSUME NEW c \in Clients, Expire(c) PROVE Typed'
  BY <1>15 DEF Expire
<1>16. ASSUME NEW a \in air, Arrive(a) PROVE Typed'
  <2>1. a \in Answers
    OBVIOUS
  <2>2. handlers' \subseteq Answers
    BY <1>16, <2>1, CopyTyped DEF Arrive
  <2>3. QED BY <1>16, <2>2 DEF Arrive
<1>17. ASSUME NEW a \in air, Lose(a) PROVE Typed'
  BY <1>17 DEF Lose, Answers
<1>18. ASSUME NEW a \in handlers, Put(a) PROVE Typed'
  BY <1>18 DEF Put, Answers
<1>19. CASE Clear
  <2>1. owner' \in BOOLEAN
    BY <1>19, Zenon DEF Clear
  <2>2. clears' \in 0..Clears /\ cleared' \subseteq Clients
    BY <1>19 DEF Clear
  <2>3. QED BY <1>19, <2>1, <2>2 DEF Clear
<1>20. CASE UNCHANGED vars
  BY <1>20 DEF vars
<1>21. QED BY <1>1, <1>2, <1>3, <1>4, <1>5, <1>6, <1>7, <1>8, <1>9, <1>10, <1>11, <1>12, <1>13,
              <1>14, <1>15, <1>16, <1>17, <1>18, <1>19, <1>20 DEF Next, Client

\* The locks.
LEMMA LockedStep == Typed /\ Locked /\ [Next]_vars => Locked'
<1> SUFFICES ASSUME Typed, Locked PROVE [Next]_vars => Locked'
  OBVIOUS
<1> USE PanelAssumption DEF PanelAssumption, Locked, Updates, Owns, Goes, desk, subs, locks,
     slots, clients, bounds, past
<1> /\ pc \in [Clients -> {"idle", "reminderMu", "init", "make", "wire", "deskPanelMu",
                           "send", "await", "write", "writeUser"}]
    /\ about \in [Clients -> [what : Positions \cup Settings \cup {Ownership, None},
                              number : 0..Asks, turn : {1, 2}]]
    /\ deskPanelMu \in Clients \cup {None} /\ reminderMu \in Clients \cup {None}
  BY DEF Typed, TypeOK
<1>. USE DEF Nothing
<1>1. ASSUME NEW c \in Clients, NEW what \in Positions \cup Settings \cup {Ownership}, Ask(c, what)
      PROVE Locked'
  BY <1>1 DEF Ask
<1>2. ASSUME NEW c \in Clients, LockReminder(c) PROVE Locked'
  BY <1>2 DEF LockReminder
<1>3. ASSUME NEW c \in Clients, LookForSub(c) PROVE Locked'
  BY <1>3 DEF LookForSub
<1>4. ASSUME NEW c \in Clients, MakeSub(c) PROVE Locked'
  BY <1>4 DEF MakeSub
<1>5. ASSUME NEW c \in Clients, WireSub(c) PROVE Locked'
  BY <1>5 DEF WireSub
<1>6. ASSUME NEW c \in Clients, LockPanel(c) PROVE Locked'
  BY <1>6 DEF LockPanel
<1>7. ASSUME NEW c \in Clients, Send(c) PROVE Locked'
  BY <1>7 DEF Send
<1>8. ASSUME NEW c \in Clients, SendFails(c) PROVE Locked'
  BY <1>8 DEF SendFails, Returns, Forgets
<1>9. ASSUME NEW c \in Clients, TakeMemory(c) PROVE Locked'
  BY <1>9 DEF TakeMemory, Returns, Forgets
<1>10. ASSUME NEW c \in Clients, TakeReminder(c) PROVE Locked'
  BY <1>10 DEF TakeReminder
<1>11. ASSUME NEW c \in Clients, TakeUser(c) PROVE Locked'
  BY <1>11 DEF TakeUser, Returns, Forgets
<1>12. ASSUME NEW c \in Clients, WriteUser(c) PROVE Locked'
  BY <1>12 DEF WriteUser, Returns, Forgets
<1>13. ASSUME NEW c \in Clients, GiveUp(c) PROVE Locked'
  BY <1>13 DEF GiveUp, Returns, Forgets
<1>14. ASSUME NEW c \in Clients, Write(c) PROVE Locked'
  BY <1>14 DEF Write, Returns, Forgets
<1>15. ASSUME NEW c \in Clients, Expire(c) PROVE Locked'
  BY <1>15 DEF Expire
<1>16. ASSUME NEW a \in air, Arrive(a) PROVE Locked'
  BY <1>16 DEF Arrive
<1>17. ASSUME NEW a \in air, Lose(a) PROVE Locked'
  BY <1>17 DEF Lose
<1>18. ASSUME NEW a \in handlers, Put(a) PROVE Locked'
  BY <1>18 DEF Put
<1>19. CASE Clear
  BY <1>19 DEF Clear
<1>20. CASE UNCHANGED vars
  BY <1>20 DEF vars
<1>21. QED BY <1>1, <1>2, <1>3, <1>4, <1>5, <1>6, <1>7, <1>8, <1>9, <1>10, <1>11, <1>12, <1>13,
              <1>14, <1>15, <1>16, <1>17, <1>18, <1>19, <1>20 DEF Next, Client

\* The subscription.
LEMMA WiredStep == Typed /\ (inTurn => Wired) /\ [Next]_vars => (inTurn' => Wired')
<1> SUFFICES ASSUME Typed, inTurn => Wired, inTurn' PROVE [Next]_vars => Wired'
  OBVIOUS
<1> USE DEF Wired, Before, Goes, desk, subs, locks, slots, clients, bounds, past
<1> /\ pc \in [Clients -> {"idle", "reminderMu", "init", "make", "wire", "deskPanelMu",
                           "send", "await", "write", "writeUser"}]
    /\ wired \in Nat
  BY DEF Typed, TypeOK
<1>1. ASSUME NEW c \in Clients, NEW what \in Positions \cup Settings \cup {Ownership}, Ask(c, what)
      PROVE Wired'
  BY <1>1 DEF Ask
<1>2. ASSUME NEW c \in Clients, LockReminder(c) PROVE Wired'
  BY <1>2 DEF LockReminder
<1>3. ASSUME NEW c \in Clients, LookForSub(c) PROVE Wired'
  <2>1. inTurn /\ \A o \in Clients : pc[o] \notin {"make", "wire"}
    BY <1>3, Zenon DEF LookForSub
  <2>2. Wired
    BY <2>1
  <2>3. CASE dpSub
    BY <1>3, <2>1, <2>2, <2>3 DEF LookForSub
  <2>4. CASE ~dpSub
    BY <1>3, <2>1, <2>2, <2>4 DEF LookForSub
  <2>5. QED BY <2>3, <2>4
<1>4. ASSUME NEW c \in Clients, MakeSub(c) PROVE Wired'
  BY <1>4 DEF MakeSub
<1>5. ASSUME NEW c \in Clients, WireSub(c) PROVE Wired'
  BY <1>5 DEF WireSub
<1>6. ASSUME NEW c \in Clients, LockPanel(c) PROVE Wired'
  BY <1>6 DEF LockPanel
<1>7. ASSUME NEW c \in Clients, Send(c) PROVE Wired'
  BY <1>7 DEF Send
<1>8. ASSUME NEW c \in Clients, SendFails(c) PROVE Wired'
  BY <1>8 DEF SendFails, Returns, Forgets
<1>9. ASSUME NEW c \in Clients, TakeMemory(c) PROVE Wired'
  BY <1>9 DEF TakeMemory, Returns, Forgets
<1>10. ASSUME NEW c \in Clients, TakeReminder(c) PROVE Wired'
  BY <1>10 DEF TakeReminder
<1>11. ASSUME NEW c \in Clients, TakeUser(c) PROVE Wired'
  BY <1>11 DEF TakeUser, Returns, Forgets
<1>12. ASSUME NEW c \in Clients, WriteUser(c) PROVE Wired'
  BY <1>12 DEF WriteUser, Returns, Forgets
<1>13. ASSUME NEW c \in Clients, GiveUp(c) PROVE Wired'
  BY <1>13 DEF GiveUp, Returns, Forgets
<1>14. ASSUME NEW c \in Clients, Write(c) PROVE Wired'
  BY <1>14 DEF Write, Returns, Forgets
<1>15. ASSUME NEW c \in Clients, Expire(c) PROVE Wired'
  BY <1>15 DEF Expire
<1>16. ASSUME NEW a \in air, Arrive(a) PROVE Wired'
  BY <1>16 DEF Arrive
<1>17. ASSUME NEW a \in air, Lose(a) PROVE Wired'
  BY <1>17 DEF Lose
<1>18. ASSUME NEW a \in handlers, Put(a) PROVE Wired'
  BY <1>18 DEF Put
<1>19. CASE Clear
  BY <1>19 DEF Clear
<1>20. CASE UNCHANGED vars
  BY <1>20 DEF vars
<1>21. QED BY <1>1, <1>2, <1>3, <1>4, <1>5, <1>6, <1>7, <1>8, <1>9, <1>10, <1>11, <1>12, <1>13,
              <1>14, <1>15, <1>16, <1>17, <1>18, <1>19, <1>20 DEF Next, Client

\* The first state has the invariant.
LEMMA Start ==
    Init => Locked /\ Wired /\ Flow /\ Single /\ Current /\ Kept
BY PanelAssumption DEF PanelAssumption, Init, Locked, Wired, Before, Flow, Empty, Single, Current,
   Kept

\* While nobody awaits an answer, nothing is on its way and the slots are empty.
LEMMA Quiet ==
    ASSUME Flow, \A c \in Clients : pc[c] # "await"
    PROVE  air = {} /\ handlers = {} /\ Empty
BY DEF Flow, Good, Awaited, Empty

\* Empty slots and nothing on its way leave nothing to go wrong.
LEMMA StaysQuiet ==
    ASSUME air' = {}, handlers' = {}, Empty', Current'
    PROVE  Flow' /\ Single' /\ Current'
BY DEF Flow, Single, Empty

\* Where a client is makes no difference to the answers.
Same(d) ==
    /\ pc[d] = "await" <=> pc'[d] = "await"
    /\ pc[d] = "await" => about'[d] = about[d] /\ (d \in cleared => d \in cleared')
    /\ pc'[d] = "write" => pc[d] = "write" /\ current'[d] = current[d]

\* What a step that is not about a client leaves of it.
LEMMA Steady ==
    ASSUME Flow, Single, Current, air' \subseteq air,
           (owner => owner') \/ \A d \in Clients : pc[d] = "await" => d \in cleared',
           UNCHANGED <<memory, memoryUnset, reminders, user, handlers, reminder, want>>,
           \A d \in Clients : Same(d)
    PROVE  Flow' /\ Single' /\ Current'
<1>1. \A d \in Clients : pc'[d] = "await" =>
        pc[d] = "await" /\ about'[d] = about[d] /\ (d \in cleared => d \in cleared')
  BY DEF Same
<1>2. \A d \in Clients : pc[d] = "await" => pc'[d] = "await" /\ about'[d] = about[d]
  BY DEF Same
<1>3. Flow'
  BY <1>1, <1>2 DEF Flow, Good, Awaited, True, Number, Updates, Owns
<1>4. Single'
  BY DEF Single, Empty
<1>5. Current'
  BY DEF Current, Same
<1>6. QED BY <1>3, <1>4, <1>5

\* The answers.
LEMMA FlowStep == 
    Typed /\ Typed' /\ Locked /\ Locked' /\ Wired /\ Flow /\ Single /\ Current /\ patient' /\ [Next]_vars
      => Flow' /\ Single' /\ Current'
<1> SUFFICES ASSUME Typed, Typed', Locked, Locked', Wired, Flow, Single, Current, patient'
             PROVE [Next]_vars => Flow' /\ Single' /\ Current'
  OBVIOUS
<1> USE DEF Goes, Updates, Owns, Number, desk, subs, locks, slots, clients, bounds, past
<1>1. ASSUME NEW c \in Clients, NEW what \in Positions \cup Settings \cup {Ownership}, Ask(c, what)
      PROVE Flow' /\ Single' /\ Current'
  <2>1. /\ UNCHANGED <<memory, memoryUnset, reminders, user, air, handlers, reminder, want>>
        /\ owner => owner'
    BY <1>1 DEF Ask
  <2>2. \A d \in Clients : Same(d)
    BY <1>1 DEF Ask, Same
  <2>3. QED BY <2>1, <2>2, Steady
<1>2. ASSUME NEW c \in Clients, LockReminder(c) PROVE Flow' /\ Single' /\ Current'
  <2>1. /\ UNCHANGED <<memory, memoryUnset, reminders, user, air, handlers, reminder, want>>
        /\ owner => owner'
    BY <1>2 DEF LockReminder
  <2>2. \A d \in Clients : Same(d)
    BY <1>2 DEF LockReminder, Same
  <2>3. QED BY <2>1, <2>2, Steady
<1>3. ASSUME NEW c \in Clients, LookForSub(c) PROVE Flow' /\ Single' /\ Current'
  <2>1. /\ UNCHANGED <<memory, memoryUnset, reminders, user, air, handlers, reminder, want>>
        /\ owner => owner'
    BY <1>3 DEF LookForSub
  <2>2. \A d \in Clients : Same(d)
    BY <1>3 DEF LookForSub, Same
  <2>3. QED BY <2>1, <2>2, Steady
<1>4. ASSUME NEW c \in Clients, MakeSub(c) PROVE Flow' /\ Single' /\ Current'
  <2>1. /\ UNCHANGED <<memory, memoryUnset, reminders, user, air, handlers, reminder, want>>
        /\ owner => owner'
    BY <1>4 DEF MakeSub
  <2>2. \A d \in Clients : Same(d)
    BY <1>4 DEF MakeSub, Same
  <2>3. QED BY <2>1, <2>2, Steady
<1>5. ASSUME NEW c \in Clients, WireSub(c) PROVE Flow' /\ Single' /\ Current'
  <2>1. /\ UNCHANGED <<memory, memoryUnset, reminders, user, air, handlers, reminder, want>>
        /\ owner => owner'
    BY <1>5 DEF WireSub
  <2>2. \A d \in Clients : Same(d)
    BY <1>5 DEF WireSub, Same
  <2>3. QED BY <2>1, <2>2, Steady
<1>6. ASSUME NEW c \in Clients, LockPanel(c) PROVE Flow' /\ Single' /\ Current'
  <2>1. \A d \in Clients : pc[d] # "await"
    BY <1>6 DEF LockPanel, Drain, Locked, Typed, TypeOK
  <2>2. air = {} /\ handlers = {} /\ Empty
    BY <2>1, Quiet
  <2>3. air' = {} /\ handlers' = {} /\ Empty' /\ Current'
    BY <1>6, <2>2 DEF LockPanel, Drain, Empty, Current, Typed, TypeOK
  <2>4. QED BY <2>3, StaysQuiet
<1>7. ASSUME NEW c \in Clients, Send(c) PROVE Flow' /\ Single' /\ Current'
  <2>1. /\ \A d \in Clients : pc[d] # "await"
        /\ \A d \in Clients : pc'[d] = "await" <=> d = c
    BY <1>7 DEF Send, Locked, Typed, TypeOK
  <2>2. air = {} /\ handlers = {} /\ Empty
    BY <2>1, Quiet
  <2>3. /\ air' = {Answer(c)} /\ handlers' = {} /\ Empty'
        /\ UNCHANGED <<about, reminder, owner, want, current>>
    BY <1>7, <2>2 DEF Send, Empty
  <2>4. /\ Answer(c).for = Number(c)' /\ Answer(c).says = reminder'
        /\ Answer(c).owner => owner'
    BY <2>3 DEF Answer
  <2>5. Flow'
    BY <2>1, <2>3, <2>4 DEF Flow, Good, Awaited, True, Empty
  <2>6. Single' /\ Current'
    BY <1>7, <2>3 DEF Send, Single, Current, Empty, Typed, TypeOK
  <2>7. QED BY <2>5, <2>6
<1>8. ASSUME NEW c \in Clients, SendFails(c) PROVE Flow' /\ Single' /\ Current'
  <2>1. \A d \in Clients : pc[d] # "await"
    BY <1>8 DEF SendFails, Returns, Forgets, Locked, Typed, TypeOK
  <2>2. air = {} /\ handlers = {} /\ Empty
    BY <2>1, Quiet
  <2>3. air' = {} /\ handlers' = {} /\ Empty' /\ Current'
    BY <1>8, <2>2 DEF SendFails, Returns, Forgets, Empty, Current, Typed, TypeOK
  <2>4. QED BY <2>3, StaysQuiet
<1>9. ASSUME NEW c \in Clients, TakeMemory(c) PROVE Flow' /\ Single' /\ Current'
  <2>1. air' = {} /\ handlers' = {} /\ Empty'
    BY <1>9 DEF TakeMemory, Returns, Forgets, Single, Empty
  <2>2. Current'
    BY <1>9 DEF TakeMemory, Returns, Forgets, Current, Typed, TypeOK
  <2>3. QED BY <2>1, <2>2, StaysQuiet
<1>10. ASSUME NEW c \in Clients, TakeReminder(c) PROVE Flow' /\ Single' /\ Current'
  <2>1. air' = {} /\ handlers' = {} /\ Empty'
    BY <1>10 DEF TakeReminder, Single, Empty
  <2>2. reminders.says = reminder
    BY <1>10 DEF TakeReminder, Flow, Good, True
  <2>3. Current'
    BY <1>10, <2>2 DEF TakeReminder, Current, Typed, TypeOK
  <2>4. QED BY <2>1, <2>3, StaysQuiet
<1>11. ASSUME NEW c \in Clients, TakeUser(c) PROVE Flow' /\ Single' /\ Current'
  <2>1. air' = {} /\ handlers' = {} /\ Empty'
    BY <1>11 DEF TakeUser, Returns, Forgets, Single, Empty
  <2>2. Current'
    BY <1>11 DEF TakeUser, Returns, Forgets, Current, Typed, TypeOK
  <2>3. QED BY <2>1, <2>2, StaysQuiet
<1>12. ASSUME NEW c \in Clients, WriteUser(c) PROVE Flow' /\ Single' /\ Current'
  <2>1. UNCHANGED <<memory, memoryUnset, reminders, user, air, handlers, reminder, want>>
    BY <1>12 DEF WriteUser
  <2>2. owner => owner'
    BY <1>12, Zenon DEF WriteUser
  <2>3. /\ pc[c] = "writeUser" /\ pc'[c] \in {"idle", "init"}
        /\ \A d \in Clients \ {c} : pc'[d] = pc[d] /\ about'[d] = about[d] /\ current'[d] = current[d]
        /\ \A d \in Clients \ {c} : d \in cleared => d \in cleared'
    <3>1. CASE Returns(c)
      BY <1>12, <3>1 DEF WriteUser, Returns, Forgets, Typed, TypeOK
    <3>2. CASE ~Returns(c)
      BY <1>12, <3>2 DEF WriteUser, Typed, TypeOK
    <3>3. QED BY <3>1, <3>2
  <2>4. \A d \in Clients : Same(d)
    BY <2>3 DEF Same
  <2>5. QED BY <2>1, <2>2, <2>4, Steady
<1>13. ASSUME NEW c \in Clients, GiveUp(c) PROVE Flow' /\ Single' /\ Current'
  BY <1>13 DEF GiveUp
<1>14. ASSUME NEW c \in Clients, Write(c) PROVE Flow' /\ Single' /\ Current'
  <2>1. /\ UNCHANGED <<memory, memoryUnset, reminders, user, air, handlers, owner>>
        /\ pc[c] = "write" /\ pc'[c] = "idle"
        /\ \A d \in Clients \ {c} : pc'[d] = pc[d] /\ about'[d] = about[d] /\ current'[d] = current[d]
        /\ \A d \in Clients \ {c} : d \in cleared => d \in cleared'
    BY <1>14 DEF Write, Returns, Forgets, Typed, TypeOK
  <2>2. reminderMu = c
    BY <2>1 DEF Locked
  <2>3. \A d \in Clients : pc[d] \in {"await", "write"} /\ d # c => ~Updates(d) /\ pc[d] # "write"
    BY <2>2 DEF Locked
  <2>4. reminder' = want'
    BY <1>14, <2>1 DEF Write, Current
  <2>5. \A d \in Clients : pc'[d] # "write"
    BY <2>1, <2>3
  <2>6. Current'
    BY <2>4, <2>5 DEF Current
  <2>7. \A d \in Clients : pc'[d] = "await" <=> pc[d] = "await"
    BY <2>1
  <2>8. Flow'
    BY <2>1, <2>3, <2>7 DEF Flow, Good, Awaited, True
  <2>9. Single'
    BY <2>1 DEF Single, Empty
  <2>10. QED BY <2>6, <2>8, <2>9
<1>15. ASSUME NEW c \in Clients, Expire(c) PROVE Flow' /\ Single' /\ Current'
  <2>1. /\ UNCHANGED <<memory, memoryUnset, reminders, user, air, handlers, reminder, want>>
        /\ owner => owner'
    BY <1>15 DEF Expire
  <2>2. \A d \in Clients : Same(d)
    BY <1>15 DEF Expire, Same
  <2>3. QED BY <2>1, <2>2, Steady
<1>16. ASSUME NEW a \in air, Arrive(a) PROVE Flow' /\ Single' /\ Current'
  <2>1. Good(a)
    BY DEF Flow
  <2>2. handlers = {} /\ air = {a} /\ Empty
    BY DEF Single
  <2>3. PICK c \in Clients : pc[c] = "await" /\ a.for = Number(c)
    BY <2>1 DEF Good, Awaited
  <2>4. \A b \in handlers' : b = Copied(a, 1)
    BY <1>16, <2>2 DEF Arrive, Wired
  <2>5. air' = {}
    BY <1>16, <2>2 DEF Arrive
  <2>6. UNCHANGED <<pc, about, cleared, reminder, owner, slots, want, current>>
    BY <1>16 DEF Arrive
  <2>7. \A b \in handlers' : b.for = a.for /\ b.says = a.says /\ b.owner = a.owner
    BY <2>4 DEF Copied
  <2>8. Flow'
    BY <2>1, <2>2, <2>3, <2>5, <2>6, <2>7 DEF Flow, Good, Awaited, True, Empty, slots
  <2>9. Single' /\ Current'
    BY <2>2, <2>4, <2>5, <2>6 DEF Single, Empty, Current, slots
  <2>10. QED BY <2>8, <2>9
<1>17. ASSUME NEW a \in air, Lose(a) PROVE Flow' /\ Single' /\ Current'
  <2>1. air' \subseteq air /\ UNCHANGED <<memory, memoryUnset, reminders, user, handlers, reminder, want>> /\ owner' = owner
    BY <1>17 DEF Lose
  <2>2. \A d \in Clients : Same(d)
    BY <1>17 DEF Lose, Same
  <2>3. QED BY <2>1, <2>2, Steady
<1>18. ASSUME NEW a \in handlers, Put(a) PROVE Flow' /\ Single' /\ Current'
  <2>1. Good(a)
    BY DEF Flow
  <2>2. handlers = {a} /\ air = {} /\ Empty
    BY DEF Single
  <2>3. handlers' = {} /\ air' = {}
    BY <1>18, <2>2 DEF Put
  <2>4. UNCHANGED <<pc, about, cleared, reminder, owner, want, current>>
    BY <1>18 DEF Put
  <2>5. /\ memory' \in {a, None} /\ memoryUnset' \in {a, None}
        /\ reminders' \in {a, None} /\ user' \in {a, None}
    BY <1>18, <2>2 DEF Put, Empty
  <2>6. /\ memory' # None => memoryUnset' = None /\ reminders' = None /\ user' = None
        /\ memoryUnset' # None => reminders' = None /\ user' = None
        /\ reminders' # None => user' = None
    BY <1>18, <2>2 DEF Put, Empty
  <2>7. Flow'
    BY <2>1, <2>3, <2>4, <2>5 DEF Flow, Good, Awaited, True
  <2>8. Single' /\ Current'
    BY <2>3, <2>4, <2>6 DEF Single, Current
  <2>9. QED BY <2>7, <2>8
<1>19. CASE Clear
  <2>1. /\ UNCHANGED <<memory, memoryUnset, reminders, user, air, handlers, reminder, want>>
        /\ UNCHANGED <<pc, about, current>>
    BY <1>19 DEF Clear
  <2>2. cleared' = {d \in Clients : pc[d] # "idle"}
    BY <1>19 DEF Clear
  <2>3. \A d \in Clients : Same(d)
    BY <2>1, <2>2 DEF Same
  <2>4. \A d \in Clients : pc[d] = "await" => d \in cleared'
    BY <2>2
  <2>5. QED BY <2>1, <2>3, <2>4, Steady
<1>20. CASE UNCHANGED vars
  <2>1. /\ UNCHANGED <<memory, memoryUnset, reminders, user, air, handlers, reminder, want>>
        /\ owner => owner'
    BY <1>20 DEF vars
  <2>2. \A d \in Clients : Same(d)
    BY <1>20 DEF vars, Same
  <2>3. QED BY <2>1, <2>2, Steady
<1>21. QED BY <1>1, <1>2, <1>3, <1>4, <1>5, <1>6, <1>7, <1>8, <1>9, <1>10, <1>11, <1>12, <1>13,
              <1>14, <1>15, <1>16, <1>17, <1>18, <1>19, <1>20 DEF Next, Client

\* Where a client waits on, the answer stays.
LEMMA Waits ==
    ASSUME Kept, air' = air, handlers' = handlers,
           UNCHANGED <<memory, memoryUnset, reminders, user>>,
           \A d \in Clients : pc'[d] = "await" => pc[d] = "await" /\ about'[d] = about[d]
    PROVE  Kept'
<1> SUFFICES ASSUME NEW d \in Clients, pc'[d] = "await" PROVE OnItsWay(d)' \/ There(d)'
  BY DEF Kept
<1>1. OnItsWay(d) \/ There(d)
  BY DEF Kept
<1>2. about'[d] = about[d]
  OBVIOUS
<1>3. OnItsWay(d) => OnItsWay(d)'
  BY <1>2 DEF OnItsWay, Bound, Updates, Owns, Number
<1>4. There(d) => There(d)'
  BY <1>2 DEF There, SlotsOf, Updates, Owns, Number
<1>5. QED BY <1>1, <1>3, <1>4

\* The answers that are waited for.
LEMMA KeptStep ==
    Typed /\ Locked /\ Locked' /\ Wired /\ Flow /\ Single /\ Kept /\ losses' = Losses /\ [Next]_vars
      => Kept'
<1> SUFFICES ASSUME Typed, Locked, Locked', Wired, Flow, Single, Kept, losses' = Losses
             PROVE [Next]_vars => Kept'
  OBVIOUS
<1> USE DEF Goes, desk, subs, locks, slots, clients, bounds, past
<1>1. ASSUME NEW c \in Clients, NEW what \in Positions \cup Settings \cup {Ownership}, Ask(c, what)
      PROVE Kept'
  BY <1>1, Waits DEF Ask, Typed, TypeOK
<1>2. ASSUME NEW c \in Clients, LockReminder(c) PROVE Kept'
  BY <1>2, Waits DEF LockReminder, Typed, TypeOK
<1>3. ASSUME NEW c \in Clients, LookForSub(c) PROVE Kept'
  BY <1>3, Waits DEF LookForSub, Typed, TypeOK
<1>4. ASSUME NEW c \in Clients, MakeSub(c) PROVE Kept'
  BY <1>4, Waits DEF MakeSub, Typed, TypeOK
<1>5. ASSUME NEW c \in Clients, WireSub(c) PROVE Kept'
  BY <1>5, Waits DEF WireSub, Typed, TypeOK
<1>6. ASSUME NEW c \in Clients, LockPanel(c) PROVE Kept'
  <2>1. \A d \in Clients : pc'[d] # "await"
    BY <1>6, PanelAssumption DEF LockPanel, Locked, Typed, TypeOK
  <2>2. QED BY <2>1 DEF Kept
<1>7. ASSUME NEW c \in Clients, Send(c) PROVE Kept'
  <2>1. \A d \in Clients : pc'[d] = "await" => d = c
    BY <1>7 DEF Send, Locked, Typed, TypeOK
  <2>2. Answer(c) \in air' /\ about' = about
    BY <1>7 DEF Send
  <2>3. Answer(c).for = Number(c) /\ Answer(c).slot \in Bound(c)
    BY DEF Answer, Bound
  <2>4. Number(c)' = Number(c) /\ Bound(c)' = Bound(c)
    BY <2>2 DEF Number, Bound, Updates, Owns
  <2>5. OnItsWay(c)'
    BY <2>2, <2>3, <2>4 DEF OnItsWay
  <2>6. QED BY <2>1, <2>5 DEF Kept
<1>8. ASSUME NEW c \in Clients, SendFails(c) PROVE Kept'
  <2>1. \A d \in Clients : pc'[d] # "await"
    BY <1>8 DEF SendFails, Returns, Forgets, Locked, Typed, TypeOK
  <2>2. QED BY <2>1 DEF Kept
<1>9. ASSUME NEW c \in Clients, TakeMemory(c) PROVE Kept'
  <2>1. \A d \in Clients : pc'[d] # "await"
    BY <1>9 DEF TakeMemory, Returns, Forgets, Locked, Typed, TypeOK
  <2>2. QED BY <2>1 DEF Kept
<1>10. ASSUME NEW c \in Clients, TakeReminder(c) PROVE Kept'
  <2>1. \A d \in Clients : pc'[d] # "await"
    BY <1>10 DEF TakeReminder, Locked, Typed, TypeOK
  <2>2. QED BY <2>1 DEF Kept
<1>11. ASSUME NEW c \in Clients, TakeUser(c) PROVE Kept'
  <2>1. \A d \in Clients : pc'[d] # "await"
    BY <1>11 DEF TakeUser, Returns, Forgets, Locked, Typed, TypeOK
  <2>2. QED BY <2>1 DEF Kept
<1>13. ASSUME NEW c \in Clients, GiveUp(c) PROVE Kept'
  <2>1. \A d \in Clients : pc'[d] # "await"
    BY <1>13 DEF GiveUp, Returns, Forgets, Locked, Typed, TypeOK
  <2>2. QED BY <2>1 DEF Kept
<1>12. ASSUME NEW c \in Clients, WriteUser(c) PROVE Kept'
  <2>1. CASE Returns(c)
    BY <1>12, <2>1, Waits DEF WriteUser, Returns, Forgets, Typed, TypeOK
  <2>2. CASE ~Returns(c)
    BY <1>12, <2>2, Waits DEF WriteUser, Typed, TypeOK
  <2>3. QED BY <2>1, <2>2
<1>14. ASSUME NEW c \in Clients, Write(c) PROVE Kept'
  BY <1>14, Waits DEF Write, Returns, Forgets, Typed, TypeOK
<1>15. ASSUME NEW c \in Clients, Expire(c) PROVE Kept'
  BY <1>15, Waits DEF Expire
<1>16. ASSUME NEW a \in air, Arrive(a) PROVE Kept'
  <2> SUFFICES ASSUME NEW d \in Clients, pc'[d] = "await" PROVE OnItsWay(d)'
    BY DEF Kept
  <2>1. pc[d] = "await" /\ about' = about
    BY <1>16 DEF Arrive
  <2>2. wired = 1
    BY <2>1 DEF Wired, Before
  <2>3. Copied(a, 1) \in handlers'
    BY <1>16, <2>2 DEF Arrive
  <2>4. handlers = {} /\ air = {a} /\ Empty
    BY DEF Single
  <2>5. ~There(d)
    BY <2>4 DEF There, SlotsOf, Empty
  <2>6. a.for = Number(d) /\ a.slot \in Bound(d)
    BY <2>1, <2>4, <2>5 DEF Kept, OnItsWay
  <2>7. Number(d)' = Number(d) /\ Bound(d)' = Bound(d)
    BY <2>1 DEF Number, Bound, Updates, Owns
  <2>8. QED BY <2>3, <2>6, <2>7 DEF OnItsWay, Copied
<1>17. ASSUME NEW a \in air, Lose(a) PROVE Kept'
  BY <1>17, PanelAssumption DEF Lose, Typed, TypeOK
<1>18. ASSUME NEW a \in handlers, Put(a) PROVE Kept'
  <2> SUFFICES ASSUME NEW d \in Clients, pc'[d] = "await" PROVE There(d)'
    BY DEF Kept
  <2>1. pc[d] = "await" /\ about' = about
    BY <1>18 DEF Put
  <2>2. handlers = {a} /\ air = {} /\ Empty
    BY DEF Single
  <2>3. ~There(d)
    BY <2>2 DEF There, SlotsOf, Empty
  <2>4. a.for = Number(d) /\ a.slot \in Bound(d)
    BY <2>1, <2>2, <2>3 DEF Kept, OnItsWay
  <2>5. Number(d)' = Number(d) /\ (Updates(d)' <=> Updates(d)) /\ (Owns(d)' <=> Owns(d))
    BY <2>1 DEF Number, Updates, Owns
  <2>6. a # None
    BY NoneAssumption DEF Typed, TypeOK
  <2>7. a \in SlotsOf(d)'
    BY <1>18, <2>4, <2>5 DEF Put, Bound, SlotsOf
  <2>8. QED BY <2>4, <2>5, <2>6, <2>7 DEF There
<1>19. CASE Clear
  BY <1>19, Waits DEF Clear
<1>20. CASE UNCHANGED vars
  BY <1>20, Waits DEF vars
<1>21. QED BY <1>1, <1>2, <1>3, <1>4, <1>5, <1>6, <1>7, <1>8, <1>9, <1>10, <1>11, <1>12, <1>13,
              <1>14, <1>15, <1>16, <1>17, <1>18, <1>19, <1>20 DEF Next, Client

\* What nobody gets back.
LEMMA OnlyFalls == [Next]_vars => (inTurn' => inTurn) /\ (patient' => patient)
<1> SUFFICES ASSUME inTurn' \/ patient' PROVE [Next]_vars => (inTurn' => inTurn) /\ (patient' => patient)
  OBVIOUS
<1> USE DEF subs, past
<1>1. ASSUME NEW c \in Clients, NEW what \in Positions \cup Settings \cup {Ownership}, Ask(c, what)
      PROVE (inTurn' => inTurn) /\ (patient' => patient)
  BY <1>1 DEF Ask
<1>2. ASSUME NEW c \in Clients, LockReminder(c) PROVE (inTurn' => inTurn) /\ (patient' => patient)
  BY <1>2 DEF LockReminder
<1>3. ASSUME NEW c \in Clients, LookForSub(c) PROVE (inTurn' => inTurn) /\ (patient' => patient)
  BY <1>3 DEF LookForSub
<1>4. ASSUME NEW c \in Clients, MakeSub(c) PROVE (inTurn' => inTurn) /\ (patient' => patient)
  BY <1>4 DEF MakeSub
<1>5. ASSUME NEW c \in Clients, WireSub(c) PROVE (inTurn' => inTurn) /\ (patient' => patient)
  BY <1>5 DEF WireSub
<1>6. ASSUME NEW c \in Clients, LockPanel(c) PROVE (inTurn' => inTurn) /\ (patient' => patient)
  BY <1>6 DEF LockPanel
<1>7. ASSUME NEW c \in Clients, Send(c) PROVE (inTurn' => inTurn) /\ (patient' => patient)
  BY <1>7 DEF Send
<1>8. ASSUME NEW c \in Clients, SendFails(c) PROVE (inTurn' => inTurn) /\ (patient' => patient)
  BY <1>8 DEF SendFails, Returns, Forgets
<1>9. ASSUME NEW c \in Clients, TakeMemory(c) PROVE (inTurn' => inTurn) /\ (patient' => patient)
  BY <1>9 DEF TakeMemory, Returns, Forgets
<1>10. ASSUME NEW c \in Clients, TakeReminder(c) PROVE (inTurn' => inTurn) /\ (patient' => patient)
  BY <1>10 DEF TakeReminder
<1>11. ASSUME NEW c \in Clients, TakeUser(c) PROVE (inTurn' => inTurn) /\ (patient' => patient)
  BY <1>11 DEF TakeUser, Returns, Forgets
<1>12. ASSUME NEW c \in Clients, WriteUser(c) PROVE (inTurn' => inTurn) /\ (patient' => patient)
  BY <1>12 DEF WriteUser, Returns, Forgets
<1>13. ASSUME NEW c \in Clients, GiveUp(c) PROVE (inTurn' => inTurn) /\ (patient' => patient)
  BY <1>13 DEF GiveUp, Returns, Forgets
<1>14. ASSUME NEW c \in Clients, Write(c) PROVE (inTurn' => inTurn) /\ (patient' => patient)
  BY <1>14 DEF Write, Returns, Forgets
<1>15. ASSUME NEW c \in Clients, Expire(c) PROVE (inTurn' => inTurn) /\ (patient' => patient)
  BY <1>15 DEF Expire
<1>16. ASSUME NEW a \in air, Arrive(a) PROVE (inTurn' => inTurn) /\ (patient' => patient)
  BY <1>16 DEF Arrive
<1>17. ASSUME NEW a \in air, Lose(a) PROVE (inTurn' => inTurn) /\ (patient' => patient)
  BY <1>17 DEF Lose
<1>18. ASSUME NEW a \in handlers, Put(a) PROVE (inTurn' => inTurn) /\ (patient' => patient)
  BY <1>18 DEF Put
<1>19. CASE Clear
  BY <1>19 DEF Clear
<1>20. CASE UNCHANGED vars
  BY <1>20 DEF vars
<1>21. QED BY <1>1, <1>2, <1>3, <1>4, <1>5, <1>6, <1>7, <1>8, <1>9, <1>10, <1>11, <1>12, <1>13,
              <1>14, <1>15, <1>16, <1>17, <1>18, <1>19, <1>20 DEF Next, Client

\* Nor is an answer once lost ever given back.
LEMMA LossesFall == Typed /\ [Next]_vars /\ losses' = Losses => losses = Losses
<1> SUFFICES ASSUME Typed, losses # Losses PROVE [Next]_vars => losses' # Losses
  OBVIOUS
<1> USE DEF bounds
<1>0. losses \in 0..Losses /\ Losses \in Nat
  BY PanelAssumption DEF Typed, TypeOK
<1>1. ASSUME NEW c \in Clients, NEW what \in Positions \cup Settings \cup {Ownership}, Ask(c, what)
      PROVE losses' # Losses
  BY <1>1 DEF Ask
<1>2. ASSUME NEW c \in Clients, LockReminder(c) PROVE losses' # Losses
  BY <1>2 DEF LockReminder
<1>3. ASSUME NEW c \in Clients, LookForSub(c) PROVE losses' # Losses
  BY <1>3 DEF LookForSub
<1>4. ASSUME NEW c \in Clients, MakeSub(c) PROVE losses' # Losses
  BY <1>4 DEF MakeSub
<1>5. ASSUME NEW c \in Clients, WireSub(c) PROVE losses' # Losses
  BY <1>5 DEF WireSub
<1>6. ASSUME NEW c \in Clients, LockPanel(c) PROVE losses' # Losses
  BY <1>6 DEF LockPanel
<1>7. ASSUME NEW c \in Clients, Send(c) PROVE losses' # Losses
  BY <1>7 DEF Send
<1>8. ASSUME NEW c \in Clients, SendFails(c) PROVE losses' # Losses
  BY <1>8 DEF SendFails
<1>9. ASSUME NEW c \in Clients, TakeMemory(c) PROVE losses' # Losses
  BY <1>9 DEF TakeMemory
<1>10. ASSUME NEW c \in Clients, TakeReminder(c) PROVE losses' # Losses
  BY <1>10 DEF TakeReminder
<1>11. ASSUME NEW c \in Clients, TakeUser(c) PROVE losses' # Losses
  BY <1>11 DEF TakeUser
<1>12. ASSUME NEW c \in Clients, WriteUser(c) PROVE losses' # Losses
  BY <1>12 DEF WriteUser
<1>13. ASSUME NEW c \in Clients, GiveUp(c) PROVE losses' # Losses
  BY <1>13 DEF GiveUp
<1>14. ASSUME NEW c \in Clients, Write(c) PROVE losses' # Losses
  BY <1>14 DEF Write
<1>15. ASSUME NEW c \in Clients, Expire(c) PROVE losses' # Losses
  BY <1>15 DEF Expire
<1>16. ASSUME NEW a \in air, Arrive(a) PROVE losses' # Losses
  BY <1>16 DEF Arrive
<1>17. ASSUME NEW a \in air, Lose(a) PROVE losses' # Losses
  BY <1>0, <1>17 DEF Lose
<1>18. ASSUME NEW a \in handlers, Put(a) PROVE losses' # Losses
  BY <1>18 DEF Put
<1>19. CASE Clear
  BY <1>19 DEF Clear
<1>20. CASE UNCHANGED vars
  BY <1>20 DEF vars
<1>21. QED BY <1>1, <1>2, <1>3, <1>4, <1>5, <1>6, <1>7, <1>8, <1>9, <1>10, <1>11, <1>12, <1>13,
              <1>14, <1>15, <1>16, <1>17, <1>18, <1>19, <1>20 DEF Next, Client

-----------------------------------------------------------------------------

\* Everything above is kept by every step of every client, every answer and
\* the desk.
THEOREM Inductive == Spec => []IInv
<1>1. Init => IInv
  BY TypedInit, Start DEF IInv
<1>2. IInv /\ [Next]_vars => IInv'
  <2> SUFFICES ASSUME IInv, [Next]_vars PROVE IInv'
    OBVIOUS
  <2>1. Typed /\ Typed' /\ Locked /\ Locked'
    BY TypedStep, LockedStep DEF IInv
  <2>2. inTurn' => Wired'
    BY <2>1, WiredStep DEF IInv
  <2>3. ASSUME Orderly' PROVE Flow' /\ Single' /\ Current'
    <3>1. Orderly /\ patient'
      BY <2>3, OnlyFalls DEF Orderly
    <3>2. Wired /\ Flow /\ Single /\ Current
      BY <3>1 DEF IInv, Orderly
    <3>3. QED BY <2>1, <3>1, <3>2, FlowStep
  <2>4. ASSUME Orderly', losses' = Losses PROVE Kept'
    <3>1. Orderly
      BY <2>4, OnlyFalls DEF Orderly
    <3>2. losses = Losses
      BY <2>1, <2>4, LossesFall
    <3>3. Wired /\ Flow /\ Single /\ Kept
      BY <3>1, <3>2 DEF IInv, Orderly
    <3>4. QED BY <2>1, <2>4, <3>3, KeptStep
  <2>5. QED BY <2>1, <2>2, <2>3, <2>4 DEF IInv
<1>3. QED BY <1>1, <1>2, PTL DEF Spec

\* query.go:113-115.  The callbacks are registered once and before any
\* question goes out, as long as two first calls do not overlap.
THEOREM RegisteredOnce == Spec => []WiredInTurn
<1>1. IInv => WiredInTurn
  BY DEF IInv, Wired, Before, WiredInTurn
<1>2. QED BY <1>1, Inductive, PTL

\* desk.go:343-347.  Under reminderMu, what updateReminder writes back is what
\* the desk has, but for the setting it changes.
THEOREM UpdatesKept == Spec => []NoLostUpdate
<1>1. IInv => NoLostUpdate
  BY DEF IInv, Current, NoLostUpdate
<1>2. QED BY <1>1, Inductive, PTL

\* One client waits at a time, so what it finds in a slot is for it.
LEMMA OneWaits ==
    ASSUME IInv, Orderly, NEW c \in Clients, pc[c] = "await"
    PROVE  /\ memory # None => memory.for = Number(c)
           /\ memoryUnset # None => memoryUnset.for = Number(c)
           /\ reminders # None => reminders.for = Number(c)
           /\ user # None => user.for = Number(c) /\ True(user)
<1>1. \A d \in Clients : pc[d] = "await" => d = c
  BY DEF IInv, Locked
<1>2. QED BY <1>1 DEF IInv, Flow, Good, Awaited

\* query.go:100-105.  The answer taken under deskPanelMu is the answer to the
\* question asked under it.
THEOREM AnswersBelong == Spec => AnswerBelongsInTurn
<1> DEFINE Right ==
      \A c \in Clients : Orderly =>
        /\ TakeMemory(c) =>
             Belongs(memory, memory', c) /\ Belongs(memoryUnset, memoryUnset', c)
        /\ TakeReminder(c) => Belongs(reminders, reminders', c)
        /\ TakeUser(c) => Belongs(user, user', c)
<1>1. IInv => Right
  <2> SUFFICES ASSUME IInv, NEW c \in Clients, Orderly
               PROVE  /\ TakeMemory(c) => Belongs(memory, memory', c) /\ Belongs(memoryUnset, memoryUnset', c)
                      /\ TakeReminder(c) => Belongs(reminders, reminders', c)
                      /\ TakeUser(c) => Belongs(user, user', c)
    OBVIOUS
  <2>1. pc[c] = "await" =>
          /\ Belongs(memory, memory', c) /\ Belongs(memoryUnset, memoryUnset', c)
          /\ Belongs(reminders, reminders', c) /\ Belongs(user, user', c)
    BY OneWaits DEF Belongs
  <2>2. TakeMemory(c) \/ TakeReminder(c) \/ TakeUser(c) => pc[c] = "await"
    BY DEF TakeMemory, TakeReminder, TakeUser
  <2>3. QED BY <2>1, <2>2
<1>2. IInv /\ [Next]_vars => [Right]_vars
  BY <1>1
<1>3. Spec => [][Right]_vars
  BY <1>2, Inductive, PTL DEF Spec
<1>4. QED BY <1>3 DEF AnswerBelongsInTurn

\* desk.go:515-517.  TakeOwnership without an error: the bit is set, unless the
\* desk has cleared it since the last question.
THEOREM OwnershipHolds == Spec => OwnedInTurn
<1> DEFINE Holds ==
      \A c \in Clients : Orderly /\ c \notin cleared /\ TakeUser(c) /\ user.owner => owner
<1>1. IInv => Holds
  <2> SUFFICES ASSUME IInv, NEW c \in Clients, Orderly, c \notin cleared, TakeUser(c), user.owner
               PROVE  owner
    OBVIOUS
  <2>1. pc[c] = "await" /\ Owns(c) /\ user # None
    BY DEF TakeUser
  <2>2. QED BY <2>1, OneWaits DEF True
<1>2. IInv /\ [Next]_vars => [Holds]_vars
  BY <1>1
<1>3. Spec => [][Holds]_vars
  BY <1>2, Inductive, PTL DEF Spec
<1>4. QED BY <1>3 DEF OwnedInTurn

\* query.go:64-70,118-131, desk.go:473-490.  The answer a client waits for is on
\* its way or in a slot it reads, as long as the link loses nothing.
THEOREM AnswersAreKept == Spec => []AnswerKept
<1>1. ASSUME IInv, Orderly, losses = Losses, NEW c \in Clients, pc[c] = "await"
      PROVE  \E a \in air \cup handlers \cup (SlotsOf(c) \ {None}) : a.for = Number(c)
  BY <1>1 DEF IInv, Kept, OnItsWay, There
<1>2. IInv => AnswerKept
  BY <1>1 DEF AnswerKept
<1>3. QED BY <1>2, Inductive, PTL
=============================================================================
