------------------------------- MODULE Frames -------------------------------
(***************************************************************************)
(* The bytes of the DeskPanel, ReferenceOutput and Control characteristics:*)
(* what the program packs (types.go, constants.go) and how it reads what   *)
(* the desk sends (subscription/deskpanel, referenceoutput, controlerror). *)
(* A frame is a sequence of bytes; an index into it is the code's, from 0. *)
(***************************************************************************)
EXTENDS Integers, Sequences

CONSTANTS
    Nothing,        \* nil, and what a parser makes of a frame it does not take
    Panic           \* an index beyond the frame

At(data, i) == data[i + 1]

\* binary.LittleEndian: PutUint16 of uint16(n), whatever the int, and Uint16.
PutUint16(n) == <<n % 256, (n \div 256) % 256>>
Uint16(data, i) == At(data, i) + 256 * At(data, i + 1)
Int16(n) == IF n < 32768 THEN n ELSE n - 65536

\* byte(n)
Byte(n) == n % 256

HasFlag(b, flag) == (b \div flag) % 2 = 1

-----------------------------------------------------------------------------
(* Packing *)

ProductInfo     == 8
GetCapabilities == 128
BaseOffset      == 129
UserID          == 134
ReminderSetting == 136
MemoryPosition1 == 137

EnvelopePrefix     == 127
EnvelopeDataMarker == 128

extensionNoValue      == 0
extensionValuePresent == 1

Envelope(cmd) == <<EnvelopePrefix, cmd, 0>>

\* A height is preceded by a byte that says whether there is one.  A variant
\* forgets the memory positions.
OffsetAlone(cmd) == cmd = BaseOffset

NeedsExtensionByte(cmd) == cmd = BaseOffset \/ cmd \in MemoryPosition1..MemoryPosition1 + 3

envelopeWithExtensionByte(cmd, extensionByte, payload) ==
    <<EnvelopePrefix, cmd, EnvelopeDataMarker>>
      \o (IF NeedsExtensionByte(cmd) THEN <<extensionByte>> ELSE <<>>)
      \o payload

EnvelopeWithPayload(cmd, payload) ==
    envelopeWithExtensionByte(cmd, extensionValuePresent, payload)

\* MemoryPosition: a position, and a height or none.
MemoryIsValid(m) ==
    /\ m.Position \in 1..4
    /\ m.Extension # Nothing => m.Extension >= 0

MemoryCommand(m) ==
    IF m.Position \in 2..4 THEN MemoryPosition1 + m.Position - 1 ELSE MemoryPosition1

MemoryExtensionByte(m) ==
    IF m.Extension = Nothing THEN extensionNoValue ELSE extensionValuePresent

MemoryBytes(m) ==
    IF m.Extension = Nothing THEN <<255, 255, 255, 255, 0, 0>>
                             ELSE PutUint16(m.Extension) \o <<0, 0, 0, 0>>

MemoryEnvelope(m) ==
    envelopeWithExtensionByte(MemoryCommand(m), MemoryExtensionByte(m), MemoryBytes(m))

\* Reminder: the active option, and three pairs of intervals.
ReminderOff == 56
ReminderOptions == ReminderOff..ReminderOff + 3
Presets == 1..3

\* A variant takes any option.
AnyOption(r) == \A p \in Presets : {r.Option[p].Sitting, r.Option[p].Standing} \subseteq 0..255

ReminderIsValid(r) ==
    /\ r.ActiveOption \in ReminderOptions
    /\ \A p \in Presets : {r.Option[p].Sitting, r.Option[p].Standing} \subseteq 0..255

\* A variant has the pair the other way round.
StandingFirst(r) ==
    <<r.ActiveOption,
      Byte(r.Option[1].Standing), Byte(r.Option[1].Sitting),
      Byte(r.Option[2].Standing), Byte(r.Option[2].Sitting),
      Byte(r.Option[3].Standing), Byte(r.Option[3].Sitting), 0, 0, 0, 0>>

ReminderBytes(r) ==
    <<r.ActiveOption,
      Byte(r.Option[1].Sitting), Byte(r.Option[1].Standing),
      Byte(r.Option[2].Sitting), Byte(r.Option[2].Standing),
      Byte(r.Option[3].Sitting), Byte(r.Option[3].Standing), 0, 0, 0, 0>>

applyPreset(r, preset, intervals) == [r EXCEPT !.Option[preset] = intervals]

Owner(user) == Len(user) > 0 /\ user[1] = 1
SetOwner(user, isOwner) ==
    IF user = <<>> THEN user ELSE [user EXCEPT ![1] = IF isOwner THEN 1 ELSE 0]

-----------------------------------------------------------------------------
(* Reading *)

ResponseCapabilities    == 2
ResponseBaseOffset      == 3
ResponseMemoryUnset     == 5
ResponseProductInfo     == 6
ResponseMemoryPosition  == 7
ResponseReminderSetting == 11
ResponseUserID          == 17

\* A parser looks at the length, and then reads so many bytes of the frame.
Taken(data, guard, reads, value) ==
    IF Len(data) < guard THEN Nothing ELSE IF Len(data) < reads THEN Panic ELSE value

AutoUp   == 8
AutoDown == 16
BleAllow == 32
Display  == 64
Light    == 128

ReadCapabilities(data) == Taken(data, 4, 3,
    [MemSize    |-> At(data, 2) % 8,
     AutoUp     |-> HasFlag(At(data, 2), AutoUp),
     AutoDown   |-> HasFlag(At(data, 2), AutoDown),
     BleAllow   |-> HasFlag(At(data, 2), BleAllow),
     HasDisplay |-> HasFlag(At(data, 2), Display),
     HasLight   |-> HasFlag(At(data, 2), Light)])

\* A variant has a guard as short as that of a memory position, next.
OffsetOfFour(data) == Taken(data, 4, 5, Uint16(data, 3))

ReadBaseOffset(data) == Taken(data, 5, 5, Uint16(data, 3))

ReadMemoryPosition(data) == Taken(data, 4, 5, Uint16(data, 3))

\* A variant asks for more bytes than the desk sends.
LongUnset(data) == Taken(data, 8, 3, IF At(data, 2) = 0 THEN TRUE ELSE Nothing)

\* TRUE: the position holds nothing.
ReadMemoryUnset(data) == Taken(data, 3, 3, IF At(data, 2) = 0 THEN TRUE ELSE Nothing)

parseReminder(data) == Taken(data, 9, 9,
    [ActiveOption |-> At(data, 2),
     Option |-> [p \in Presets |-> [Sitting  |-> At(data, 2 * p + 1),
                                    Standing |-> At(data, 2 * p + 2)]]])

ReadProductInfo(data) == Taken(data, 6, 7,
    [ProductCode     |-> Uint16(data, 3),
     HardwareVersion |-> At(data, 5),
     SoftwareVersion |-> At(data, 6)])

ReadUserID(data) == Taken(data, 3, 3, [i \in 1..Len(data) - 2 |-> At(data, i + 1)])

\* ReferenceOutput: the low four bits of the speed word are flags.
FlagCollisionRecovery == 2

ParseReading(data) == Taken(data, 4, 4,
    [Extension |-> Uint16(data, 0),
     Speed     |-> Int16(Uint16(data, 2) - (Uint16(data, 2) % 16)),
     Flags     |-> Uint16(data, 2) % 16])

Recovering(reading) == HasFlag(reading.Flags, FlagCollisionRecovery)

\* controlerror: the third byte, if there is one; an empty frame clears.
CodeInterrupted == 16
CodeCollision   == 59
Code(data) == Taken(data, 3, 3, At(data, 2))
Cleared(data) == Len(data) = 0
=============================================================================
