------------------------------ MODULE Dispatch ------------------------------
(***************************************************************************)
(* The way of a notification from the Bluetooth client to the handlers:    *)
(* notify.go, EnableNotifications (device.go) and                          *)
(* subscription/subscription.go.  One goroutine per client takes every     *)
(* notification and calls the callbacks of its characteristic, each of     *)
(* which puts it into the channel of one Subscription; a goroutine per     *)
(* Subscription takes it from there and starts a goroutine per handler.    *)
(* Handlers are added and removed meanwhile, by goroutines of their own.   *)
(*                                                                         *)
(* The frames of the DeskPanel characteristic have types, and two bytes    *)
(* are an acknowledgement besides; those of any other have one type.       *)
(***************************************************************************)
EXTENDS Naturals, Sequences

CONSTANTS
    Handlers,       \* handlers added, by a goroutine each
    PanelSubs,      \* Subscriptions over the DeskPanel characteristic
    OtherSubs,      \* and over one other
    Types,          \* response codes
    Cap,            \* capacity of Subscription.ch: 200
    Frames,         \* bound: notifications
    Failures,       \* bound: calls of SetNotify that fail
    Nothing

Subs == PanelSubs \cup OtherSubs
Chars == {"panel", "other"}
Char(s) == IF s \in PanelSubs THEN "panel" ELSE "other"

\* The types a handler of each Subscription may be added for.
TypesOf(s) == {"write"} \cup (IF Char(s) = "panel" THEN Types ELSE {"report"})

ASSUME DispatchAssumption ==
    /\ Cap \in Nat \ {0} /\ {Frames, Failures} \subseteq Nat
    /\ PanelSubs \cap OtherSubs = {}
    /\ Nothing \notin Handlers \cup Subs \cup Nat
    /\ \A s \in Subs : \A t \in TypesOf(s) :
         Nothing # [sub |-> s, type |-> t] /\ Nothing # <<Char(s), t>>
    /\ {"write", "report", "noise"} \cap Types = {}

VARIABLES
    pc, on,         \* each handler: where AddCallback is, and what it is for
    mu, started,    \* each Subscription: its lock, and started
    loop, data,     \* where its dispatch loop is, and with which frame
    ch,             \* Subscription.ch
    notifying,      \* the characteristics that notify
    registry,       \* the client has its registry, and so its goroutine
    callbacks,      \* Subscriptions registered for a characteristic, in order
    fan,            \* the frame it is passing on, and to whom it still goes
    stream,         \* client.Notifications()
    running,        \* goroutines started for a handler, oldest first
    heard,          \* frames it was called with
    sent,           \* every notification: frames are known by number
    failures,
    failed,         \* history: Subscriptions whose start failed
    until,          \* history: frames sent when a handler was removed
    due             \* history: frames sent while a handler was there to hear

adders == <<pc, on>>
subs   == <<mu, started, loop, data, ch>>
client == <<notifying, registry, callbacks, fan, stream>>
told   == <<running, heard>>
past   == <<failed, until, due>>
vars   == <<adders, subs, client, told, sent, failures, past>>

Idle == [n |-> 0, left |-> <<>>]

Init ==
    /\ pc = [h \in Handlers |-> "out"] /\ on = [h \in Handlers |-> Nothing]
    /\ mu = [s \in Subs |-> Nothing] /\ started = [s \in Subs |-> FALSE]
    /\ loop = [s \in Subs |-> "off"] /\ data = [s \in Subs |-> 0]
    /\ ch = [s \in Subs |-> <<>>]
    /\ notifying = {} /\ registry = FALSE
    /\ callbacks = [c \in Chars |-> <<>>]
    /\ fan = Idle /\ stream = <<>>
    /\ running = [h \in Handlers |-> <<>>] /\ heard = [h \in Handlers |-> <<>>]
    /\ sent = <<>> /\ failures = Failures
    /\ failed = {} /\ until = [h \in Handlers |-> Nothing]
    /\ due = [h \in Handlers |-> {}]

Goes(h, to) == pc' = [pc EXCEPT ![h] = to]
Sub(h) == on[h].sub
Unlock(s) == mu' = [mu EXCEPT ![s] = Nothing]

\* The handlers registered for a type, from register to unregister.
HandlersFor(s, type) ==
    {h \in Handlers : pc[h] \notin {"out", "removed"} /\ on[h] = [sub |-> s, type |-> type]}

-----------------------------------------------------------------------------
(* AddCallback: register, start, EnableNotifications; and its removal *)

AddCallback(h, s, type) ==
    /\ pc[h] = "out" /\ mu[s] = Nothing
    /\ on' = [on EXCEPT ![h] = [sub |-> s, type |-> type]]
    /\ Goes(h, "start")
    /\ UNCHANGED <<subs, client, told, sent, failures, past>>

Started(h) ==
    /\ pc[h] = "start" /\ mu[Sub(h)] = Nothing
    /\ started[Sub(h)]
    /\ Goes(h, "added")
    /\ UNCHANGED <<on, subs, client, told, sent, failures, past>>

\* A variant starts without the lock.
StartUnlocked(h) ==
    /\ pc[h] = "start" /\ ~started[Sub(h)]
    /\ Goes(h, "notify")
    /\ UNCHANGED <<on, subs, client, told, sent, failures, past>>

Start(h) ==
    /\ pc[h] = "start" /\ mu[Sub(h)] = Nothing
    /\ ~started[Sub(h)]
    /\ started' = [started EXCEPT ![Sub(h)] = TRUE]
    /\ mu' = [mu EXCEPT ![Sub(h)] = h]
    /\ Goes(h, "notify")
    /\ UNCHANGED <<on, loop, data, ch, client, told, sent, failures, past>>

SetNotify(h) ==
    /\ pc[h] = "notify"
    /\ notifying' = notifying \cup {Char(Sub(h))}
    /\ Goes(h, "registry")
    /\ UNCHANGED <<on, subs, registry, callbacks, fan, stream, told, sent, failures, past>>

\* It fails, or only its answer is late; started stays, and AddCallback drops
\* the error.  A variant forgets the deferred unlock.
FailLocked(h) ==
    /\ pc[h] = "notify" /\ failures > 0
    /\ failures' = failures - 1
    /\ failed' = failed \cup {Sub(h)}
    /\ Goes(h, "added")
    /\ UNCHANGED <<on, subs, client, told, sent, until, due>>

SetNotifyFails(h) ==
    /\ pc[h] = "notify" /\ failures > 0
    /\ failures' = failures - 1
    /\ notifying' \in {notifying, notifying \cup {Char(Sub(h))}}
    /\ failed' = failed \cup {Sub(h)}
    /\ Unlock(Sub(h))
    /\ Goes(h, "added")
    /\ UNCHANGED <<on, started, loop, data, ch, registry, callbacks, fan, stream, told, sent,
                   until, due>>

notifyRegistryFor(h) ==
    /\ pc[h] = "registry"
    /\ registry' = TRUE
    /\ Goes(h, "subscribe")
    /\ UNCHANGED <<on, subs, notifying, callbacks, fan, stream, told, sent, failures, past>>

\* The callback is registered, and the dispatch loop started.
subscribe(h) ==
    /\ pc[h] = "subscribe"
    /\ callbacks' = [callbacks EXCEPT ![Char(Sub(h))] = Append(@, Sub(h))]
    /\ loop' = [loop EXCEPT ![Sub(h)] = "receive"]
    /\ Unlock(Sub(h))
    /\ Goes(h, "added")
    /\ UNCHANGED <<on, started, data, ch, notifying, registry, fan, stream, told, sent, failures,
                   past>>

unregister(h) ==
    /\ pc[h] = "added" /\ mu[Sub(h)] = Nothing
    /\ Goes(h, "removed")
    /\ until' = [until EXCEPT ![h] = Len(sent)]
    /\ due' = [due EXCEPT ![h] = {}]
    /\ UNCHANGED <<on, subs, client, told, sent, failures, failed>>

-----------------------------------------------------------------------------
(* The registry's goroutine *)

\* Where a frame belongs: one of two bytes is an acknowledgement, too.
Topics(f) ==
    IF f.char = "panel"
    THEN {<<"panel", t>> : t \in ({f.type} \cap Types) \cup (IF f.ack THEN {"write"} ELSE {})}
    ELSE {<<"other", "report">>}

Topic(h) == <<Char(Sub(h)), on[h].type>>

Frame == [char : {"panel"}, type : Types, ack : BOOLEAN]
           \cup [char : {"panel"}, type : {"noise"}, ack : {FALSE}]
           \cup [char : {"other"}, type : {"report"}, ack : {TRUE}]

\* The desk sends one.
Notify(f) ==
    /\ f.char \in notifying /\ Len(sent) < Frames
    /\ sent' = Append(sent, f)
    /\ stream' = Append(stream, Len(sent) + 1)
    /\ due' = [h \in Handlers |->
                IF pc[h] = "added" /\ Sub(h) \notin failed /\ Topic(h) \in Topics(f)
                THEN due[h] \cup {Len(sent) + 1} ELSE due[h]]
    /\ UNCHANGED <<adders, subs, notifying, registry, callbacks, fan, told, failures, failed,
                   until>>

Fan ==
    /\ registry /\ fan.left = <<>> /\ stream # <<>>
    /\ fan' = [n |-> Head(stream), left |-> callbacks[sent[Head(stream)].char]]
    /\ stream' = Tail(stream)
    /\ UNCHANGED <<adders, subs, notifying, registry, callbacks, told, sent, failures, past>>

\* s.ch <- buf.  One variant knows no limit, and one drops the frame when the
\* channel is full.
ForwardUnbounded ==
    /\ fan.left # <<>>
    /\ fan' = [n |-> fan.n, left |-> Tail(fan.left)]
    /\ ch' = [ch EXCEPT ![Head(fan.left)] = Append(@, fan.n)]
    /\ UNCHANGED <<adders, mu, started, loop, data, notifying, registry, callbacks, stream,
                   told, sent, failures, past>>

ForwardOrDrop ==
    /\ fan.left # <<>>
    /\ fan' = [n |-> fan.n, left |-> Tail(fan.left)]
    /\ ch' = IF Len(ch[Head(fan.left)]) < Cap
             THEN [ch EXCEPT ![Head(fan.left)] = Append(@, fan.n)] ELSE ch
    /\ UNCHANGED <<adders, mu, started, loop, data, notifying, registry, callbacks, stream,
                   told, sent, failures, past>>

Forward ==
    /\ fan.left # <<>> /\ Len(ch[Head(fan.left)]) < Cap
    /\ fan' = [n |-> fan.n, left |-> Tail(fan.left)]
    /\ ch' = [ch EXCEPT ![Head(fan.left)] = Append(@, fan.n)]
    /\ UNCHANGED <<adders, mu, started, loop, data, notifying, registry, callbacks, stream,
                   told, sent, failures, past>>

-----------------------------------------------------------------------------
(* The dispatch loop of a Subscription *)

\* What is not a DeskPanel frame is dropped on that characteristic alone.
Receive(s) ==
    /\ loop[s] = "receive" /\ ch[s] # <<>>
    /\ data' = [data EXCEPT ![s] = Head(ch[s])]
    /\ ch' = [ch EXCEPT ![s] = Tail(@)]
    /\ loop' = IF sent[Head(ch[s])].type = "noise" THEN loop ELSE [loop EXCEPT ![s] = "handlers"]
    /\ UNCHANGED <<adders, mu, started, client, told, sent, failures, past>>

Starts(hs, n) ==
    running' = [h \in Handlers |-> IF h \in hs THEN Append(running[h], n) ELSE running[h]]

\* handlersFor, which takes the lock, and a goroutine for each.
\* A variant takes two bytes for an acknowledgement wherever they come from.
AnyTwoBytes(s) == sent[data[s]].ack

IsAck(s) == sent[data[s]].ack /\ Char(s) = "panel"

StartHandlers(s) ==
    /\ loop[s] = "handlers" /\ mu[s] = Nothing
    /\ Starts(HandlersFor(s, sent[data[s]].type), data[s])
    /\ loop' = [loop EXCEPT ![s] = IF IsAck(s) THEN "acks" ELSE "receive"]
    /\ UNCHANGED <<adders, mu, started, data, ch, client, heard, sent, failures, past>>

StartWriteHandlers(s) ==
    /\ loop[s] = "acks" /\ mu[s] = Nothing
    /\ Starts(HandlersFor(s, "write"), data[s])
    /\ loop' = [loop EXCEPT ![s] = "receive"]
    /\ UNCHANGED <<adders, mu, started, data, ch, client, heard, sent, failures, past>>

\* The goroutines run in any order.
Without(q, i) == SubSeq(q, 1, i - 1) \o SubSeq(q, i + 1, Len(q))

Call(h) ==
    /\ \E i \in DOMAIN running[h] :
         /\ heard' = [heard EXCEPT ![h] = Append(@, running[h][i])]
         /\ running' = [running EXCEPT ![h] = Without(@, i)]
    /\ UNCHANGED <<adders, subs, client, sent, failures, past>>

Adding(h) ==
    \/ Started(h) \/ Start(h) \/ SetNotify(h) \/ SetNotifyFails(h)
    \/ notifyRegistryFor(h) \/ subscribe(h)

Loop(s) == Receive(s) \/ StartHandlers(s) \/ StartWriteHandlers(s)

Next ==
    \/ \E h \in Handlers :
         \/ \E s \in Subs : \E type \in TypesOf(s) : AddCallback(h, s, type)
         \/ Adding(h) \/ unregister(h) \/ Call(h)
    \/ \E f \in Frame : Notify(f)
    \/ Fan \/ Forward
    \/ \E s \in Subs : Loop(s)

Spec == Init /\ [][Next]_vars

\* Goroutines are scheduled, and SetNotify ends in its time limit.
FairSpec ==
    /\ Spec
    /\ \A h \in Handlers : WF_vars(Adding(h)) /\ WF_vars(Call(h))
    /\ WF_vars(Fan \/ Forward)
    /\ \A s \in Subs : WF_vars(Loop(s))

-----------------------------------------------------------------------------
(* Properties *)

Numbers == 1..Len(sent)

DispatchTypeOK ==
    /\ pc \in [Handlers -> {"out", "start", "notify", "registry", "subscribe",
                            "added", "removed"}]
    /\ \A h \in Handlers : on[h] # Nothing => Sub(h) \in Subs /\ on[h].type \in TypesOf(Sub(h))
    /\ mu \in [Subs -> Handlers \cup {Nothing}] /\ started \in [Subs -> BOOLEAN]
    /\ loop \in [Subs -> {"off", "receive", "handlers", "acks"}]
    /\ data \in [Subs -> {0} \cup Numbers]
    /\ \A s \in Subs : ch[s] \in Seq(Numbers) /\ Len(ch[s]) <= Cap
    /\ notifying \subseteq Chars /\ registry \in BOOLEAN
    /\ \A c \in Chars : callbacks[c] \in Seq(Subs)
    /\ fan.left \in Seq(Subs) /\ stream \in Seq(Numbers)
    /\ \A h \in Handlers : running[h] \in Seq(Numbers) /\ heard[h] \in Seq(Numbers)
    /\ sent \in Seq(Frame) /\ failures \in 0..Failures /\ failed \subseteq Subs

Joined == [h \in Handlers |-> IF on[h] = Nothing THEN Nothing ELSE <<Char(on[h].sub), on[h].type>>]
Published == [n \in Numbers |-> Topics(sent[n])]

View == INSTANCE Broadcast WITH topic <- Joined, sent <- Published

\* subscription.go:80-135, notify.go:46-66.  Whatever goroutines add and
\* remove meanwhile, a handler is called with the frames of its own
\* characteristic and type, each once, and with none sent after its removal.
ImplementsBroadcast == View!Spec

\* subscription.go:152-183.  The loop hands a handler its frames in the order
\* in which the desk sent them; only the goroutines it starts may overtake.
InOrder ==
    [][ \A h \in Handlers : Len(running'[h]) > Len(running[h]) =>
          LET n == running'[h][Len(running'[h])] IN
          /\ \A i \in DOMAIN running[h] : running[h][i] < n
          /\ \A i \in DOMAIN heard[h] : heard[h][i] < n ]_vars

\* notify.go:58-64, subscription.go:146-154.  A frame sent after AddCallback
\* returned reaches the handler in the end, however slow the others are,
\* unless notifications could not be enabled.
HeardInTheEnd ==
    \A h \in Handlers : \A n \in 1..Frames :
        n \in due[h] ~> (n \notin due[h] \/ \E i \in DOMAIN heard[h] : heard[h][i] = n)

\* subscription.go:80-88, 137-150.  AddCallback returns, whoever else is
\* starting, and when enabling notifications fails.
AddReturns ==
    \A h \in Handlers : pc[h] = "start" ~> pc[h] = "added"
=============================================================================
