----------------------------- MODULE Broadcast -----------------------------
(***************************************************************************)
(* What a subscription promises: a handler is called with the frames of    *)
(* its own topic, each once, and with none that was sent after it left.    *)
(* It promises no order, and nothing of frames sent while it was joining.  *)
(***************************************************************************)
EXTENDS Naturals, Sequences

CONSTANTS
    Handlers,
    Nothing         \* the topic of a handler that has not joined

VARIABLES
    topic,          \* of each handler
    sent,           \* the topics of each frame, oldest first
    until,          \* frames sent when a handler left; all, while it has not
    heard           \* the numbers of the frames each handler was called with

vars == <<topic, sent, until, heard>>

Called(h) == {heard[h][i] : i \in DOMAIN heard[h]}
Stays(h) == until[h] = Nothing

Init ==
    /\ topic = [h \in Handlers |-> Nothing]
    /\ sent = <<>>
    /\ until = [h \in Handlers |-> Nothing]
    /\ heard = [h \in Handlers |-> <<>>]

Join(h, t) ==
    /\ topic[h] = Nothing /\ t # Nothing
    /\ topic' = [topic EXCEPT ![h] = t]
    /\ UNCHANGED <<sent, until, heard>>

Leave(h) ==
    /\ topic[h] # Nothing /\ Stays(h)
    /\ until' = [until EXCEPT ![h] = Len(sent)]
    /\ UNCHANGED <<topic, sent, heard>>

Publish(topics) ==
    /\ sent' = Append(sent, topics)
    /\ UNCHANGED <<topic, until, heard>>

Hear(h, n) ==
    /\ n \in 1..Len(sent) /\ topic[h] \in sent[n]
    /\ Stays(h) \/ n <= until[h]
    /\ n \notin Called(h)
    /\ heard' = [heard EXCEPT ![h] = Append(heard[h], n)]
    /\ UNCHANGED <<topic, sent, until>>

Next ==
    \/ \E h \in Handlers :
         \/ Join(h, topic'[h]) \/ Leave(h)
         \/ \E n \in 1..Len(sent) : Hear(h, n)
    \/ Len(sent') = Len(sent) + 1 /\ Publish(sent'[Len(sent')])

Spec == Init /\ [][Next]_vars
=============================================================================
