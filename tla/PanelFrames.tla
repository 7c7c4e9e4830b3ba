---------------------------- MODULE PanelFrames ----------------------------
(***************************************************************************)
(* The operations of a Desk that read and write its settings, down to the  *)
(* bytes: the envelope each one sends (desk/desk.go), the frame the desk   *)
(* answers with or reports unasked, and the parser that takes it.  One     *)
(* question is outstanding at a time: that is PanelQuery's subject.        *)
(*                                                                         *)
(* The desk, which is not in the code, keeps values, and has its own idea  *)
(* of the bytes: the one the README and the comments tell of.              *)
(***************************************************************************)
EXTENDS Frames, FiniteSets

CONSTANTS
    Heights,        \* heights written, of any size
    Minutes,        \* intervals written, of any size
    Options,        \* active options written, known to the desk or not
    Positions,      \* memory positions read and written
    MemSize,        \* memory positions the desk has
    Speeds,         \* speeds reported, either way
    Flags,          \* capabilities, one of which the desk has
    Events          \* bound: writes, presses at the panel, short frames, reports

\* A speed leaves the low four bits of its word to the flags.
ASSUME FramesAssumption ==
    /\ Heights \subseteq Int /\ Minutes \subseteq Int /\ Options \subseteq Int
    /\ Positions \subseteq Int /\ MemSize \in 1..4
    /\ Speeds \subseteq {16 * n : n \in 0..2047}
    /\ Events \in Nat

ReferenceOutput == 1
ControlError    == 254

MemoryPositions == MemoryPosition1..MemoryPosition1 + 3
Settings == {ProductInfo, GetCapabilities, BaseOffset, UserID, ReminderSetting}
              \cup MemoryPositions
Reported == {ReferenceOutput, ControlError}
Things == Settings \cup Reported

Words == 0..65535
Bytes == 0..255

\* Values of a thing, in the program and in the desk: numbers for heights and
\* alarms, bytes for a user, and records.
IntervalsOf == [Sitting : Bytes, Standing : Bytes]
Reminders   == [ActiveOption : ReminderOptions, Option : [Presets -> IntervalsOf]]
Products    == [ProductCode : Words, HardwareVersion : Bytes, SoftwareVersion : Bytes]
Abilities   == [MemSize : 0..7, AutoUp : BOOLEAN, AutoDown : BOOLEAN, BleAllow : BOOLEAN,
                HasDisplay : BOOLEAN, HasLight : BOOLEAN]
Readings    == [Extension : Words, Speed : Int, Flags : 0..15]
Value == Int \cup Seq(Bytes) \cup Reminders \cup Products \cup Abilities \cup Readings

\* nil is no value, a panic is not nil.
ASSUME NothingAssumption ==
    /\ Nothing # Panic
    /\ \A none \in {Nothing, Panic} :
         /\ none \notin Value /\ none # TRUE
         /\ none \notin [thing : Things, value : Value \cup {Nothing}]
         /\ none \notin [thing : Things, value : Value \cup {Nothing}, part : 0..4]
         /\ none \notin [thing : Things, data : Seq(Bytes)]

VARIABLES
    kept,           \* the desk: the value of each thing
    sent,           \* the envelope on its way
    meant,          \* history: what it was packed from, and for which update
    asked,          \* the question outstanding
    frame,          \* the frame on its way, of one characteristic
    told,           \* the last value a caller was given
    panicked,       \* the process is gone
    whole,          \* history: no answer to this question came in short
    fresh,          \* history: the desk has not changed since the last question
    events

vars == <<kept, sent, meant, asked, frame, told, panicked, whole, fresh, events>>

Intervals(sitting, standing) == [Sitting |-> sitting, Standing |-> standing]
Defaults == <<Intervals(55, 5), Intervals(50, 10), Intervals(45, 15)>>

Init ==
    /\ \E f \in Flags, owner \in {0, 1} :
         kept = [t \in Things |->
            CASE t = ProductInfo -> [ProductCode |-> 2073, HardwareVersion |-> 20,
                                     SoftwareVersion |-> 132]
              [] t = GetCapabilities ->
                   [MemSize |-> MemSize, AutoUp |-> f = AutoUp, AutoDown |-> f = AutoDown,
                    BleAllow |-> f = BleAllow, HasDisplay |-> f = Display,
                    HasLight |-> f = Light]
              [] t = UserID -> <<owner, 51, 251>>
              [] t = ReminderSetting -> [ActiveOption |-> ReminderOff, Option |-> Defaults]
              [] t = BaseOffset -> 6200
              [] OTHER -> Nothing]
    /\ sent = Nothing /\ meant = Nothing
    /\ asked = Nothing /\ frame = Nothing /\ told = Nothing
    /\ panicked = FALSE /\ whole = TRUE /\ fresh = TRUE
    /\ events = 0

-----------------------------------------------------------------------------
(* Writing *)

Happens == events < Events /\ events' = events + 1

\* Which part of a thing an update changes: all of it, a preset, or this.
All    == 0
Active == 4

Write(thing, value, part, envelope) ==
    /\ ~panicked /\ sent = Nothing /\ asked = Nothing
    /\ Happens
    /\ sent' = envelope
    /\ meant' = [thing |-> thing, value |-> value, part |-> part]
    /\ UNCHANGED <<kept, asked, frame, told, panicked, whole, fresh>>

WriteBaseOffset(mmx10) ==
    Write(BaseOffset, mmx10, All, EnvelopeWithPayload(BaseOffset, PutUint16(mmx10)))

WriteMemoryPosition(m) ==
    /\ MemoryIsValid(m)
    /\ Write(MemoryPosition1 + m.Position - 1, m.Extension, All, MemoryEnvelope(m))

UnsetMemoryPosition(position) ==
    WriteMemoryPosition([Position |-> position, Extension |-> Nothing])

WriteReminder(r, part) ==
    /\ ReminderIsValid(r)
    /\ Write(ReminderSetting, r, part,
             EnvelopeWithPayload(ReminderSetting, ReminderBytes(r)))

WriteUser(user) == Write(UserID, user, All, EnvelopeWithPayload(UserID, user))

\* The updates that begin with a question: the rest of WriteReminderPreset,
\* WriteActiveReminder and TakeOwnership, once they were told.
Told(thing) == told # Nothing /\ told.thing = thing

WriteReminderPreset(preset, intervals) ==
    /\ preset \in Presets /\ Told(ReminderSetting)
    /\ WriteReminder(applyPreset(told.value, preset, intervals), preset)

WriteActiveReminder(option) ==
    /\ option \in ReminderOptions /\ Told(ReminderSetting)
    /\ WriteReminder([told.value EXCEPT !.ActiveOption = option], Active)

TakeOwnership ==
    /\ Told(UserID) /\ ~Owner(told.value)
    /\ WriteUser(SetOwner(told.value, TRUE))

\* The characteristic is not there, or the write to it fails.
WriteFails ==
    /\ ~panicked /\ sent # Nothing
    /\ sent' = Nothing /\ meant' = Nothing /\ asked' = Nothing
    /\ UNCHANGED <<kept, frame, told, panicked, whole, fresh, events>>

-----------------------------------------------------------------------------
(* Asking *)

Ask(thing, envelope) ==
    /\ ~panicked /\ asked = Nothing /\ sent = Nothing /\ frame = Nothing
    /\ sent' = envelope
    /\ asked' = thing
    /\ told' = Nothing
    /\ whole' = TRUE /\ fresh' = TRUE
    /\ UNCHANGED <<kept, meant, frame, panicked, events>>

requestBaseOffset == Ask(BaseOffset, Envelope(BaseOffset))
requestReminder   == Ask(ReminderSetting, Envelope(ReminderSetting))
requestUser       == Ask(UserID, Envelope(UserID))
Capabilities      == Ask(GetCapabilities, Envelope(GetCapabilities))
AskProductInfo    == Ask(ProductInfo, Envelope(ProductInfo))

AskMemoryPosition(position) ==
    LET m == [Position |-> position, Extension |-> Nothing] IN
    /\ MemoryIsValid(m)
    /\ Ask(MemoryPosition1 + position - 1, Envelope(MemoryCommand(m)))

-----------------------------------------------------------------------------
(* The desk *)

Word(n) == <<n % 256, n \div 256>>
Nth(data, i) == IF i \in 1..Len(data) THEN data[i] ELSE 0
Height(data, i) == Nth(data, i) + 256 * Nth(data, i + 1)
Counter == <<93, 23, 246, 5>>
Unset   == <<255, 255, 255, 255>>

\* The payload of an envelope: after the marker, and for a height after the
\* byte that says whether there is one.
TakesHeight == {BaseOffset} \cup MemoryPositions
Payload(envelope) ==
    LET n == IF envelope[2] \in TakesHeight THEN 4 ELSE 3
    IN  [i \in 1..Len(envelope) - n |-> envelope[i + n]]

Stored(envelope) ==
    LET data == Payload(envelope) IN
    CASE envelope[2] \in TakesHeight -> IF envelope[4] = 0 THEN Nothing ELSE Height(data, 1)
      [] envelope[2] = ReminderSetting ->
           [ActiveOption |-> Nth(data, 1),
            Option |-> [p \in Presets |-> Intervals(Nth(data, 2 * p), Nth(data, 2 * p + 1))]]
      [] OTHER -> data

\* It ignores what comes from a user who is not the owner, except the user.
Accepts(thing) ==
    /\ thing # UserID => kept[UserID][1] = 1
    /\ thing \in MemoryPositions => thing - MemoryPosition1 < MemSize

Store ==
    /\ ~panicked /\ sent # Nothing /\ asked = Nothing
    /\ kept' = IF Accepts(sent[2]) THEN [kept EXCEPT ![sent[2]] = Stored(sent)] ELSE kept
    /\ sent' = Nothing /\ meant' = Nothing
    /\ fresh' = FALSE
    /\ UNCHANGED <<asked, frame, told, panicked, whole, events>>

FlagByte(flag, set) == IF set THEN flag ELSE 0

Answer(thing) ==
    LET v == kept[thing] IN
    CASE thing = BaseOffset -> <<1, 3, 1>> \o Word(v)
      [] thing \in MemoryPositions ->
           IF v = Nothing THEN <<1, 5, 0>> \o Unset ELSE <<1, 7, 1>> \o Word(v) \o Counter
      [] thing = ReminderSetting ->
           <<1, 11, v.ActiveOption,
             v.Option[1].Sitting, v.Option[1].Standing, v.Option[2].Sitting,
             v.Option[2].Standing, v.Option[3].Sitting, v.Option[3].Standing>> \o Counter
      [] thing = UserID -> <<1, 17>> \o v
      [] thing = ProductInfo ->
           <<1, 6, 32>> \o Word(v.ProductCode) \o <<v.HardwareVersion, v.SoftwareVersion, 13>>
      [] thing = GetCapabilities ->
           <<1, 2, v.MemSize + FlagByte(8, v.AutoUp) + FlagByte(16, v.AutoDown)
                    + FlagByte(32, v.BleAllow) + FlagByte(64, v.HasDisplay)
                    + FlagByte(128, v.HasLight), 0>>

Reply ==
    /\ ~panicked /\ sent # Nothing /\ asked # Nothing /\ frame = Nothing
    /\ frame' = [thing |-> asked, data |-> Answer(sent[2])]
    /\ sent' = Nothing
    /\ UNCHANGED <<kept, meant, asked, told, panicked, whole, fresh, events>>

\* A frame of this kind is shorter than those seen; a user has no length.
Cut(n) ==
    /\ ~panicked /\ frame # Nothing /\ n < Len(frame.data)
    /\ frame.thing \in Settings \ {UserID}
    /\ Happens
    /\ frame' = [frame EXCEPT !.data = [i \in 1..n |-> frame.data[i]]]
    /\ whole' = FALSE
    /\ UNCHANGED <<kept, sent, meant, asked, told, panicked, fresh>>

Press(thing, value) ==
    /\ ~panicked /\ Happens
    /\ kept' = [kept EXCEPT ![thing] = value]
    /\ fresh' = FALSE
    /\ UNCHANGED <<sent, meant, asked, frame, told, panicked, whole>>

Say(thing, value, data) ==
    /\ ~panicked /\ frame = Nothing /\ asked = Nothing
    /\ Happens
    /\ kept' = [kept EXCEPT ![thing] = value]
    /\ frame' = [thing |-> thing, data |-> data]
    /\ UNCHANGED <<sent, meant, asked, told, panicked, whole, fresh>>

\* Where it is and how fast, a negative speed going down, both in 16 bits.
ReportPosition(height, speed, flags) ==
    Say(ReferenceOutput, [Extension |-> height, Speed |-> speed, Flags |-> flags],
        Word(height) \o Word((IF speed < 0 THEN speed + 65536 ELSE speed) + flags))

Alarm(code) == Say(ControlError, code, IF code = 0 THEN <<>> ELSE <<1, 0, code>>)

-----------------------------------------------------------------------------
(* Taking an answer, or a report *)

ReadAlarm(data) == IF Cleared(data) THEN 0 ELSE Code(data)

\* The parser the frame goes to: by its characteristic and its second byte.
Parsed(thing, data) ==
    IF thing = ReferenceOutput THEN ParseReading(data)
    ELSE IF thing = ControlError THEN ReadAlarm(data)
    ELSE IF Len(data) < 2 THEN Nothing
    ELSE
    CASE data[2] = ResponseCapabilities -> ReadCapabilities(data)
      [] data[2] = ResponseBaseOffset -> ReadBaseOffset(data)
      [] data[2] = ResponseMemoryUnset -> ReadMemoryUnset(data)
      [] data[2] = ResponseMemoryPosition -> ReadMemoryPosition(data)
      [] data[2] = ResponseReminderSetting -> parseReminder(data)
      [] data[2] = ResponseProductInfo -> ReadProductInfo(data)
      [] data[2] = ResponseUserID -> ReadUserID(data)

\* What a caller makes of it: TRUE says a position holds nothing.
Heard(thing, data) ==
    LET read == Parsed(thing, data) IN
    IF read \in {Nothing, Panic} THEN Nothing
    ELSE [thing |-> thing,
          value |-> IF thing \in MemoryPositions /\ data[2] = ResponseMemoryUnset
                    THEN Nothing ELSE read]

\* What the parser does not take reaches nobody.
Takes(heard) ==
    /\ ~panicked /\ frame # Nothing
    /\ told' = IF heard # Nothing THEN heard ELSE told
    /\ panicked' = (Parsed(frame.thing, frame.data) = Panic)
    /\ frame' = Nothing
    /\ UNCHANGED <<kept, sent, meant, whole, fresh, events>>

TakeAnswer ==
    LET heard == Heard(frame.thing, frame.data) IN
    /\ Takes(heard)
    /\ frame.thing \in Settings
    /\ asked' = IF heard # Nothing THEN Nothing ELSE asked

TakeReport ==
    /\ Takes(Heard(frame.thing, frame.data))
    /\ frame.thing \in Reported
    /\ UNCHANGED asked

\* The context expires.
GiveUp ==
    /\ ~panicked /\ asked # Nothing /\ sent = Nothing /\ frame = Nothing
    /\ asked' = Nothing
    /\ UNCHANGED <<kept, sent, meant, frame, told, panicked, whole, fresh, events>>

Next ==
    \/ \E h \in Heights \cup {-1} :
         \/ WriteBaseOffset(h)
         \/ \E p \in Positions : WriteMemoryPosition([Position |-> p, Extension |-> h])
    \/ \E p \in Positions : UnsetMemoryPosition(p) \/ AskMemoryPosition(p)
    \/ \E i, j \in Minutes :
         \/ \E p \in Presets : WriteReminderPreset(p, Intervals(i, j))
         \/ \E o \in Options :
              WriteReminder([ActiveOption |-> o, Option |-> [p \in Presets |-> Intervals(i, j)]],
                            All)
    \/ \E o \in Options : WriteActiveReminder(o)
    \/ TakeOwnership \/ WriteFails
    \/ requestBaseOffset \/ requestReminder \/ requestUser \/ Capabilities \/ AskProductInfo
    \/ Store \/ Reply \/ TakeAnswer \/ TakeReport \/ GiveUp
    \/ \E n \in 0..12 : Cut(n)
    \/ \E h \in Heights \cap Words : Press(MemoryPosition1, h)
    \/ \E o \in ReminderOptions :
         Press(ReminderSetting, [kept[ReminderSetting] EXCEPT !.ActiveOption = o])
    \/ \E h \in Heights \cap Words, s \in Speeds, f \in {0, FlagCollisionRecovery} :
         ReportPosition(h, s, f) \/ ReportPosition(h, -s, f)
    \/ \E c \in {0, CodeInterrupted, CodeCollision} : Alarm(c)

Spec == Init /\ [][Next]_vars

-----------------------------------------------------------------------------
(* Properties *)

TypeOK ==
    /\ DOMAIN kept = Things
    /\ kept[BaseOffset] \in Words
    /\ \A t \in MemoryPositions : kept[t] # Nothing => kept[t] \in Words
    /\ kept[ReminderSetting] \in Reminders
    /\ \A i \in DOMAIN kept[UserID] : kept[UserID][i] \in Bytes
    /\ sent # Nothing => \A i \in 1..Len(sent) : sent[i] \in Bytes
    /\ frame # Nothing => \A i \in 1..Len(frame.data) : frame.data[i] \in Bytes
    /\ asked # Nothing => asked \in Settings
    /\ {panicked, whole, fresh} \subseteq BOOLEAN
    /\ events \in 0..Events

\* types.go, deskpanel.go, referenceoutput.go.  What is written through the
\* bytes is what the desk keeps, and what the desk says through the bytes is
\* what a caller is told.
StoreView == INSTANCE PanelStore WITH
    Heighted <- TakesHeight,
    writing  <- IF meant = Nothing THEN Nothing
                ELSE [thing |-> meant.thing, value |-> meant.value],
    saying   <- IF frame = Nothing THEN Nothing ELSE Heard(frame.thing, frame.data)

ImplementsStore == StoreView!Spec

\* deskpanel.go:43-175.  A question whose answer came in whole is answered:
\* no parser drops a frame the desk really sends.
WholeAnswerTaken == [][GiveUp => ~whole]_vars

\* deskpanel.go:77-80,154-161.  The two guards that are shorter than what
\* is read after them are all a short frame can do harm with.
TwoGuardsShort ==
    [][ ~panicked /\ panicked' =>
          \/ frame.thing \in MemoryPositions /\ Len(frame.data) = 4
          \/ frame.thing = ProductInfo /\ Len(frame.data) = 6 ]_vars

\* desk.go:290-299,323-328.  An update of the reminders leaves the other
\* presets, and the choice between them, as they are, unless somebody has
\* changed them since they were read.
UpdateKeepsRest ==
    [][ Store /\ fresh /\ meant.part # All =>
          LET was == kept[ReminderSetting]  is == kept'[ReminderSetting] IN
          /\ meant.part # Active => is.ActiveOption = was.ActiveOption
          /\ \A p \in Presets \ {meant.part} : is.Option[p] = was.Option[p] ]_vars
=============================================================================
