----------------------------- MODULE PanelQuery -----------------------------
(***************************************************************************)
(* Questions to the desk over the DeskPanel characteristic: query,         *)
(* MemoryPosition, updateReminder and TakeOwnership (desk/query.go,        *)
(* desk/desk.go), from several goroutines, with deskPanelMu and            *)
(* reminderMu, contexts that expire, the subscription made on first use,   *)
(* and answers that name no request and reach their slot through a         *)
(* goroutine each.                                                         *)
(*                                                                         *)
(* A question is the reading of one memory position, which either of two   *)
(* slots may answer, of the reminder settings, before one of them is       *)
(* changed, or of the user, before its owner bit is set and after.  The    *)
(* other questions are like these.                                         *)
(* A put is one step here; Slot takes it apart.                            *)
(***************************************************************************)
EXTENDS Naturals

CONSTANTS
    Clients,        \* goroutines that ask
    Positions,      \* memory positions
    Settings,       \* reminder settings: the active option, each preset
    Ownership,      \* the question TakeOwnership asks
    Asks,           \* bound: calls begun
    Expiries,       \* bound: contexts that expire
    Losses,         \* bound: answers lost on the way
    Clears,         \* bound: times the desk clears the owner bit by itself
    None

ASSUME PanelAssumption ==
    /\ {Asks, Expiries, Losses, Clears} \subseteq Nat
    /\ None \notin Clients
    /\ Positions \cap Settings = {} /\ Ownership \notin Positions \cup Settings

VARIABLES
    stored,         \* the desk: positions with a height in them
    reminder,       \* the desk: the settings, a number for each value written
    owner,          \* the desk: the owner bit of its user
    dpSub, wired,   \* d.dpSub is not nil; times its callbacks are registered
    deskPanelMu, reminderMu,
    memory, memoryUnset, reminders, user, \* the slots
    pc, about, expired,             \* each client: where, which question, ctx
    current,        \* each client: the settings it read
    air,            \* answers on their way
    handlers,       \* goroutines about to put an answer
    asks, expiries, losses, clears,
    want,           \* history: the settings as written, each by its own update
    inTurn,         \* history: nobody has looked for the subscription while
                    \* another was making it
    patient,        \* history: every question the desk got was waited for
    cleared         \* history: the bit was cleared since the client asked

slots   == <<memory, memoryUnset, reminders, user>>
locks   == <<deskPanelMu, reminderMu>>
desk    == <<stored, reminder, owner>>
clients == <<pc, about, expired, current>>
bounds  == <<asks, expiries, losses, clears>>
subs    == <<dpSub, wired, inTurn>>
past    == <<want, patient, cleared>>
vars    == <<desk, subs, locks, slots, clients, air, handlers, bounds, past>>

\* A call is known by its number, and a question by that and its turn in the
\* call.  An answer carries what it says, and which slot it is for; "for" is
\* history.
Numbers == (1..Asks) \X {1, 2}
Answers == [slot : {"memory", "unset", "reminder", "user"}, says : [Settings -> 0..Asks],
            owner : BOOLEAN, for : Numbers, copy : Nat]

ASSUME NoneAssumption == None \notin Answers

Goes(c, to) == pc' = [pc EXCEPT ![c] = to]

Nothing == [what |-> None, number |-> 0, turn |-> 1]
Unwritten == [s \in Settings |-> 0]

Init ==
    /\ stored \in SUBSET Positions
    /\ reminder = Unwritten /\ want = reminder
    /\ owner \in BOOLEAN
    /\ dpSub = FALSE /\ wired = 0 /\ inTurn = TRUE
    /\ deskPanelMu = None /\ reminderMu = None
    /\ memory = None /\ memoryUnset = None /\ reminders = None /\ user = None
    /\ pc = [c \in Clients |-> "idle"]
    /\ about = [c \in Clients |-> Nothing]
    /\ expired = [c \in Clients |-> FALSE]
    /\ current = [c \in Clients |-> Unwritten]
    /\ air = {} /\ handlers = {}
    /\ asks = 0 /\ expiries = Expiries /\ losses = Losses /\ clears = Clears
    /\ patient = TRUE /\ cleared = {}

-----------------------------------------------------------------------------
(* A question *)

Updates(c) == about[c].what \in Settings
Owns(c) == about[c].what = Ownership
Number(c) == <<about[c].number, about[c].turn>>

\* MemoryPosition, WriteReminderPreset, WriteActiveReminder, TakeOwnership.
Ask(c, what) ==
    /\ pc[c] = "idle" /\ asks < Asks
    /\ asks' = asks + 1
    /\ about' = [about EXCEPT ![c] = [what |-> what, number |-> asks + 1, turn |-> 1]]
    /\ Goes(c, IF what \in Settings THEN "reminderMu" ELSE "init")
    /\ UNCHANGED <<desk, subs, locks, slots, expired, current, air, handlers, expiries, losses, clears, past>>

\* The context may expire at any time, and only the wait for an answer minds.
Expire(c) ==
    /\ pc[c] # "idle" /\ ~expired[c] /\ expiries > 0
    /\ expiries' = expiries - 1
    /\ expired' = [expired EXCEPT ![c] = TRUE]
    /\ UNCHANGED <<desk, subs, locks, slots, pc, about, current, air, handlers,
                   asks, losses, clears, past>>

\* A variant goes on without the lock.
NoLockReminder(c) ==
    /\ pc[c] = "reminderMu"
    /\ Goes(c, "init")
    /\ UNCHANGED <<desk, subs, locks, slots, about, expired, current, air, handlers,
                   bounds, past>>

LockReminder(c) ==
    /\ pc[c] = "reminderMu"
    /\ reminderMu = None
    /\ reminderMu' = c
    /\ Goes(c, "init")
    /\ UNCHANGED <<desk, subs, deskPanelMu, slots, about, expired, current, air, handlers,
                   bounds, past>>

\* InitDeskPanelSubscription: a look at d.dpSub, then the subscription is
\* made, then the callbacks are registered.  A variant does not look.
MakeAnyway(c) ==
    /\ pc[c] = "init"
    /\ Goes(c, "make")
    /\ UNCHANGED <<desk, subs, locks, slots, about, expired, current, air, handlers,
                   bounds, past>>

LookForSub(c) ==
    /\ pc[c] = "init"
    /\ Goes(c, IF dpSub THEN "deskPanelMu" ELSE "make")
    /\ inTurn' = (inTurn /\ \A o \in Clients : pc[o] \notin {"make", "wire"})
    /\ UNCHANGED <<desk, dpSub, wired, locks, slots, about, expired, current, air, handlers,
                   bounds, past>>

MakeSub(c) ==
    /\ pc[c] = "make"
    /\ dpSub' = TRUE
    /\ Goes(c, "wire")
    /\ UNCHANGED <<desk, wired, inTurn, locks, slots, about, expired, current, air, handlers,
                   bounds, past>>

WireSub(c) ==
    /\ pc[c] = "wire"
    /\ wired' = wired + 1
    /\ Goes(c, "deskPanelMu")
    /\ UNCHANGED <<desk, dpSub, inTurn, locks, slots, about, expired, current, air, handlers,
                   bounds, past>>

\* deskPanelMu, and the slots this question may be answered in are drained.
Drain(c) ==
    IF Updates(c) THEN reminders' = None /\ UNCHANGED <<memory, memoryUnset, user>>
    ELSE IF Owns(c) THEN user' = None /\ UNCHANGED <<memory, memoryUnset, reminders>>
    ELSE memory' = None /\ memoryUnset' = None /\ UNCHANGED <<reminders, user>>

\* A variant asks without the lock.
AskUnlocked(c) ==
    /\ pc[c] = "deskPanelMu"
    /\ Drain(c)
    /\ Goes(c, "send")
    /\ UNCHANGED <<desk, subs, locks, about, expired, current, air, handlers, bounds, past>>

LockPanel(c) ==
    /\ pc[c] = "deskPanelMu"
    /\ deskPanelMu = None
    /\ deskPanelMu' = c
    /\ Drain(c)
    /\ Goes(c, "send")
    /\ UNCHANGED <<desk, subs, reminderMu, about, expired, current, air, handlers,
                   bounds, past>>

\* The desk gets the question and answers it.
Answer(c) ==
    [slot  |-> IF Updates(c) THEN "reminder" ELSE IF Owns(c) THEN "user"
               ELSE IF about[c].what \in stored THEN "memory" ELSE "unset",
     says  |-> reminder,
     owner |-> Owns(c) /\ owner,
     for   |-> Number(c),
     copy  |-> 0]

Send(c) ==
    /\ pc[c] = "send"
    /\ air' = air \cup {Answer(c)}
    /\ cleared' = cleared \ {c}
    /\ Goes(c, "await")
    /\ UNCHANGED <<desk, subs, locks, slots, about, expired, current, handlers, bounds, want,
                   patient>>

\* A return: what the call knew goes, and both locks, whichever are held.
Forgets(c) ==
    /\ Goes(c, "idle")
    /\ about' = [about EXCEPT ![c] = Nothing]
    /\ expired' = [expired EXCEPT ![c] = FALSE]
    /\ current' = [current EXCEPT ![c] = Unwritten]
    /\ cleared' = cleared \ {c}

Returns(c) ==
    /\ Forgets(c)
    /\ deskPanelMu' = IF deskPanelMu = c THEN None ELSE deskPanelMu
    /\ reminderMu' = IF reminderMu = c THEN None ELSE reminderMu

\* The characteristic is not there, or the write to it fails; the desk may
\* have got the question all the same.
SendFails(c) ==
    /\ pc[c] = "send"
    /\ \/ UNCHANGED <<air, patient>>
       \/ air' = air \cup {Answer(c)} /\ patient' = FALSE
    /\ Returns(c)
    /\ UNCHANGED <<desk, subs, slots, handlers, bounds, want>>

\* The answer: a memory position is returned, the settings are gone on with.
TakeMemory(c) ==
    /\ pc[c] = "await" /\ ~Updates(c) /\ ~Owns(c)
    /\ \/ memory # None /\ memory' = None /\ UNCHANGED memoryUnset
       \/ memoryUnset # None /\ memoryUnset' = None /\ UNCHANGED memory
    /\ Returns(c)
    /\ UNCHANGED <<desk, subs, reminders, user, air, handlers, bounds, want, patient>>

TakeReminder(c) ==
    /\ pc[c] = "await" /\ Updates(c)
    /\ reminders # None
    /\ reminders' = None
    /\ current' = [current EXCEPT ![c] = reminders.says]
    /\ deskPanelMu' = None
    /\ Goes(c, "write")
    /\ UNCHANGED <<desk, subs, reminderMu, memory, memoryUnset, user, about, expired, air,
                   handlers, bounds, past>>

\* The user: the owner already, to be made the owner, or, the second time,
\* confirmed or not.
TakeUser(c) ==
    /\ pc[c] = "await" /\ Owns(c)
    /\ user # None
    /\ user' = None
    /\ IF ~user.owner /\ about[c].turn = 1
       THEN Goes(c, "writeUser") /\ deskPanelMu' = None
            /\ UNCHANGED <<reminderMu, about, expired, current, cleared>>
       ELSE Returns(c)
    /\ UNCHANGED <<desk, subs, memory, memoryUnset, reminders, air, handlers, bounds, want,
                   patient>>

\* WriteUser: it fails, or the desk takes it, or not.
WriteUser(c) ==
    /\ pc[c] = "writeUser"
    /\ owner' \in {owner, TRUE}
    /\ \/ Returns(c)
       \/ /\ Goes(c, "init")
          /\ about' = [about EXCEPT ![c] = [what |-> Ownership, number |-> about[c].number,
                                            turn |-> 2]]
          /\ UNCHANGED <<locks, expired, current, cleared>>
    /\ UNCHANGED <<stored, reminder, subs, slots, air, handlers, bounds, want, patient>>

\* ctx.Done().  A variant forgets the deferred unlocks.
GiveUpLocked(c) ==
    /\ pc[c] = "await" /\ expired[c]
    /\ Forgets(c)
    /\ UNCHANGED <<desk, subs, locks, slots, air, handlers, bounds, want, patient>>

GiveUp(c) ==
    /\ pc[c] = "await" /\ expired[c]
    /\ patient' = FALSE
    /\ Returns(c)
    /\ UNCHANGED <<desk, subs, slots, air, handlers, bounds, want>>

\* WriteReminder: all the settings, one of them changed; it may fail, or the
\* desk may ignore it for want of the owner bit.
Write(c) ==
    /\ pc[c] = "write"
    /\ \/ /\ owner
          /\ reminder' = [current[c] EXCEPT ![about[c].what] = about[c].number]
          /\ want' = [want EXCEPT ![about[c].what] = about[c].number]
       \/ UNCHANGED <<reminder, want>>
    /\ Returns(c)
    /\ UNCHANGED <<stored, owner, subs, slots, air, handlers, bounds, patient>>

-----------------------------------------------------------------------------
(* An answer on its way *)

Copied(a, i) == [slot |-> a.slot, says |-> a.says, owner |-> a.owner, for |-> a.for, copy |-> i]

\* It reaches every registered callback, in a goroutine each.
Arrive(a) ==
    /\ a \in air
    /\ air' = air \ {a}
    /\ handlers' = handlers \cup {Copied(a, i) : i \in 1..wired}
    /\ UNCHANGED <<desk, subs, locks, slots, clients, bounds, past>>

Lose(a) ==
    /\ a \in air /\ losses > 0
    /\ losses' = losses - 1
    /\ air' = air \ {a}
    /\ UNCHANGED <<desk, subs, locks, slots, clients, handlers, asks, expiries, clears, past>>

Put(a) ==
    /\ a \in handlers
    /\ handlers' = handlers \ {a}
    /\ memory' = IF a.slot = "memory" THEN a ELSE memory
    /\ memoryUnset' = IF a.slot = "unset" THEN a ELSE memoryUnset
    /\ reminders' = IF a.slot = "reminder" THEN a ELSE reminders
    /\ user' = IF a.slot = "user" THEN a ELSE user
    /\ UNCHANGED <<desk, subs, locks, clients, air, bounds, past>>

\* The desk clears the owner bit by itself.
Clear ==
    /\ owner /\ clears > 0
    /\ clears' = clears - 1
    /\ owner' = FALSE
    /\ cleared' = {c \in Clients : pc[c] # "idle"}
    /\ UNCHANGED <<stored, reminder, subs, locks, slots, clients, air, handlers, asks, expiries,
                   losses, want, patient>>

Client(c) ==
    \/ LockReminder(c) \/ LookForSub(c) \/ MakeSub(c) \/ WireSub(c) \/ LockPanel(c)
    \/ Send(c) \/ SendFails(c)
    \/ TakeMemory(c) \/ TakeReminder(c) \/ TakeUser(c) \/ WriteUser(c) \/ GiveUp(c) \/ Write(c)

Next ==
    \/ \E c \in Clients :
         \/ \E what \in Positions \cup Settings \cup {Ownership} : Ask(c, what)
         \/ Client(c) \/ Expire(c)
    \/ \E a \in air : Arrive(a) \/ Lose(a)
    \/ \E a \in handlers : Put(a)
    \/ Clear

Spec == Init /\ [][Next]_vars

\* Goroutines are scheduled, a mutex is granted in the end, and a context
\* with a deadline (withTimeout sees to one) expires.
FairSpec ==
    /\ Spec
    /\ \A c \in Clients :
         /\ WF_vars(Client(c)) /\ WF_vars(Expire(c))
         /\ SF_vars(LockPanel(c) \/ LockReminder(c))

-----------------------------------------------------------------------------
(* Properties *)

TypeOK ==
    /\ stored \subseteq Positions
    /\ {reminder, want} \subseteq [Settings -> 0..Asks]
    /\ dpSub \in BOOLEAN /\ wired \in Nat
    /\ {deskPanelMu, reminderMu} \subseteq Clients \cup {None}
    /\ {memory, memoryUnset, reminders, user} \subseteq Answers \cup {None}
    /\ pc \in [Clients -> {"idle", "reminderMu", "init", "make", "wire", "deskPanelMu",
                           "send", "await", "write", "writeUser"}]
    /\ about \in [Clients -> [what : Positions \cup Settings \cup {Ownership, None},
                           number : 0..Asks, turn : {1, 2}]]
    /\ expired \in [Clients -> BOOLEAN]
    /\ current \in [Clients -> [Settings -> 0..Asks]]
    /\ air \subseteq Answers /\ handlers \subseteq Answers
    /\ owner \in BOOLEAN /\ inTurn \in BOOLEAN /\ patient \in BOOLEAN
    /\ cleared \subseteq Clients
    /\ asks \in 0..Asks /\ expiries \in 0..Expiries /\ losses \in 0..Losses /\ clears \in 0..Clears

Belongs(slot, next, c) ==
    slot # next /\ slot # None => slot.for = Number(c)

\* desk.go:451-454, query.go:100-105.  The answer a client takes, from
\* whichever slot, is the answer to its own question.
AnswerBelongs ==
    [][ \A c \in Clients :
          /\ TakeMemory(c) =>
               Belongs(memory, memory', c) /\ Belongs(memoryUnset, memoryUnset', c)
          /\ TakeReminder(c) => Belongs(reminders, reminders', c)
          /\ TakeUser(c) => Belongs(user, user', c) ]_vars

\* No question has been given up on, and one call made the subscription.
Orderly == inTurn /\ patient

\* The same as long as every answer is waited for, however long it takes.
AnswerBelongsInTurn ==
    [][ \A c \in Clients : Orderly =>
          /\ TakeMemory(c) =>
               Belongs(memory, memory', c) /\ Belongs(memoryUnset, memoryUnset', c)
          /\ TakeReminder(c) => Belongs(reminders, reminders', c)
          /\ TakeUser(c) => Belongs(user, user', c) ]_vars

\* The slots a client's question may be answered in.
SlotsOf(c) == IF Updates(c) THEN {reminders} ELSE IF Owns(c) THEN {user}
              ELSE {memory, memoryUnset}

\* query.go:64-70,118-131, desk.go:473-490.  While a client waits, the answer it
\* waits for is on its way or in a slot it reads, unless the link lost it:
\* nobody else's drain, read or first use of the subscription throws it away.
AnswerKept ==
    Orderly /\ losses = Losses =>
        \A c \in Clients : pc[c] = "await" =>
            \E a \in air \cup handlers \cup (SlotsOf(c) \ {None}) : a.for = Number(c)

\* desk.go:343-347.  No update of one setting undoes an update of another,
\* as long as every answer is waited for.
NoLostUpdate == Orderly => reminder = want

\* desk.go:515-517.  TakeOwnership that ends without an error has made sure of
\* the owner bit: it is set, unless the desk has cleared it again since the
\* last question, as long as every answer is waited for.
OwnedInTurn ==
    [][ \A c \in Clients :
          Orderly /\ c \notin cleared /\ TakeUser(c) /\ user.owner => owner ]_vars

\* query.go:133-135.  Every question comes to an end, answered or not.
QuestionEnds == \A c \in Clients : pc[c] # "idle" ~> pc[c] = "idle"

\* desk.go:97-101, query.go:113-115.  The callbacks are registered once, and
\* before any request goes out, unless two first calls overlap.
WiredInTurn ==
    inTurn => wired <= 1 /\ \A c \in Clients : pc[c] = "send" => wired = 1
=============================================================================
