----------------------------- MODULE PanelStore -----------------------------
(***************************************************************************)
(* What the operations of a Desk promise about the desk's settings and its *)
(* reports, with no bytes in it: a value written is kept as written, or    *)
(* not at all; an answer is the value that was kept when the desk gave it; *)
(* a report says where the desk is.                                        *)
(***************************************************************************)
EXTENDS Integers

CONSTANTS
    Nothing,
    Things,         \* what the desk keeps
    Heighted,       \* the things that are heights, or nothing
    Reported        \* the things it reports unasked

VARIABLES
    kept,           \* the value of each thing
    writing,        \* a value on its way to the desk
    asked,          \* the thing the program waits to be told of
    saying,         \* what the desk has said and the program has not heard
    told            \* what the program was told last

vars == <<kept, writing, asked, saying, told>>

\* A height beyond 16 bits is kept as some height.
Words == 0..65535
Kept(thing, written, value) ==
    IF thing \in Heighted /\ written # Nothing /\ written \notin Words
    THEN value \in Words ELSE value = written

Said(thing, value) == [thing |-> thing, value |-> value]

Write(thing, value) ==
    /\ writing = Nothing
    /\ writing' = Said(thing, value)
    /\ UNCHANGED <<kept, asked, saying, told>>

Keep(value) ==
    /\ writing # Nothing
    /\ Kept(writing.thing, writing.value, value)
    /\ kept' = [kept EXCEPT ![writing.thing] = value]
    /\ writing' = Nothing
    /\ UNCHANGED <<asked, saying, told>>

\* Refused by the desk, or lost.
Drop ==
    /\ writing' = Nothing
    /\ UNCHANGED <<kept, asked, saying, told>>

Ask(thing) ==
    /\ asked = Nothing
    /\ asked' = thing
    /\ told' = Nothing
    /\ UNCHANGED <<kept, writing, saying>>

Say ==
    /\ asked # Nothing
    /\ saying' = Said(asked, kept[asked])
    /\ UNCHANGED <<kept, writing, asked, told>>

\* The answer, or the report, is lost.
Unsay ==
    /\ saying' = Nothing
    /\ UNCHANGED <<kept, writing, asked, told>>

Hear ==
    /\ saying # Nothing
    /\ told' = saying
    /\ saying' = Nothing
    /\ asked' = IF saying.thing \in Reported THEN asked ELSE Nothing
    /\ UNCHANGED <<kept, writing>>

GiveUp ==
    /\ asked' = Nothing
    /\ UNCHANGED <<kept, writing, saying, told>>

\* At its panel, somebody changes a setting.
Press(thing, value) ==
    /\ thing \notin Reported
    /\ kept' = [kept EXCEPT ![thing] = value]
    /\ UNCHANGED <<writing, asked, saying, told>>

\* The desk moves, or raises or clears an alarm, and says so.
Report(thing, value) ==
    /\ thing \in Reported
    /\ kept' = [kept EXCEPT ![thing] = value]
    /\ saying' = Said(thing, value)
    /\ UNCHANGED <<writing, asked, told>>

Init ==
    /\ DOMAIN kept = Things
    /\ writing = Nothing /\ asked = Nothing /\ saying = Nothing /\ told = Nothing

Next ==
    \/ Drop \/ Say \/ Unsay \/ Hear \/ GiveUp
    \/ \E thing \in Things :
         \/ Ask(thing)
         \/ writing' # Nothing /\ Write(thing, writing'.value)
         \/ Press(thing, kept'[thing]) \/ Report(thing, kept'[thing])
    \/ writing # Nothing /\ Keep(kept'[writing.thing])

Spec == Init /\ [][Next]_vars
=============================================================================
