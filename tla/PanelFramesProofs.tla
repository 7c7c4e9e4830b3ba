------------------------- MODULE PanelFramesProofs --------------------------
(***************************************************************************)
(* What the bytes of PanelFrames do, for every value and at every step:    *)
(* what is packed is bytes, reading what was packed gives it back, and     *)
(* reading it cut short gives the same, nothing or a panic; an invariant   *)
(* of the steps, and from it the checked invariants, the update of one     *)
(* part of the reminders, and the store without bytes behind it all.       *)
(***************************************************************************)
EXTENDS PanelFrames, SequenceTheorems, TLAPS

Memories    == {m \in [Position : 1..4, Extension : Words \cup {Nothing}] : MemoryIsValid(m)}

\* The two bytes of an int are its low sixteen bits.
LEMMA LowBits ==
    ASSUME NEW n \in Int
    PROVE  /\ (n % 256) \in Bytes /\ ((n \div 256) % 256) \in Bytes
           /\ (n % 256) + 256 * ((n \div 256) % 256) = (n % 65536)
BY DEF Bytes

\* One sequence of bytes behind another.
LEMMA Behind ==
    ASSUME NEW s \in Seq(Bytes), NEW t \in Seq(Bytes)
    PROVE  /\ s \o t \in Seq(Bytes) /\ Len(s \o t) = Len(s) + Len(t)
           /\ \A i \in 1..(Len(s) + Len(t)) :
                (s \o t)[i] = IF i <= Len(s) THEN s[i] ELSE t[i - Len(s)]
BY ConcatProperties, LenProperties

\* A word is all of it.
LEMMA Whole ==
    ASSUME NEW n \in Int, 0 <= n, n < 65536 PROVE (n % 65536) = n
OBVIOUS

\* Two bytes put back together.
LEMMA Words16 ==
    ASSUME NEW n \in Words PROVE n \in Int /\ (n % 65536) = n
<1>1. n \in Int /\ 0 <= n /\ n < 65536
  BY DEF Words
<1>2. QED BY <1>1, Whole

\* types.go, desk.go.  A height is packed into sixteen bits and read back as
\* what is left of it there: itself, if it fits.
THEOREM HeightComesBack ==
    ASSUME NEW n \in Int
    PROVE  /\ PutUint16(n) \in Seq(Bytes) /\ Len(PutUint16(n)) = 2
           /\ Uint16(PutUint16(n), 0) = (n % 65536)
           /\ n \in Words => Uint16(PutUint16(n), 0) = n
BY LowBits, Words16 DEF PutUint16, Uint16, At

\* types.go:189-212, deskpanel.go:74-83.  The bytes of a memory position, sent
\* back by the desk, are read as the height that was packed.
THEOREM MemoryComesBack ==
    ASSUME NEW m \in Memories, m.Extension # Nothing
    PROVE  ReadMemoryPosition(<<1, ResponseMemoryPosition, 1>> \o MemoryBytes(m)) = m.Extension
<1> DEFINE n == m.Extension
           data == <<1, ResponseMemoryPosition, 1>> \o MemoryBytes(m)
<1>1. n \in Words
  BY DEF Memories
<1>2. data = <<1, 7, 1>> \o (<<n % 256, (n \div 256) % 256>> \o <<0, 0, 0, 0>>)
  BY DEF MemoryBytes, PutUint16, ResponseMemoryPosition
<1> HIDE DEF n
<1>3. Len(data) = 9 /\ data[4] = (n % 256) /\ data[5] = ((n \div 256) % 256)
  BY <1>2
<1> HIDE DEF data
<1>4. Uint16(data, 3) = n
  BY <1>1, <1>3, Words16, LowBits DEF Uint16, At
<1>5. ReadMemoryPosition(data) = n
  BY <1>3, <1>4 DEF ReadMemoryPosition, Taken
<1>6. QED BY <1>5 DEF data, n

\* types.go:169-187.  An envelope of a memory position is ten bytes, and its
\* fourth one tells the desk whether there is a height in it.
THEOREM MemoryEnvelopeTells ==
    ASSUME NEW m \in Memories
    PROVE  /\ MemoryEnvelope(m) \in Seq(Bytes) /\ Len(MemoryEnvelope(m)) = 10
           /\ MemoryEnvelope(m)[2] = MemoryPosition1 + m.Position - 1
           /\ MemoryEnvelope(m)[4] = extensionNoValue <=> m.Extension = Nothing
<1> DEFINE cmd == MemoryCommand(m)
           byte == MemoryExtensionByte(m)
           data == MemoryBytes(m)
<1>1. m.Position \in 1..4 /\ m.Extension \in Words \cup {Nothing}
  BY DEF Memories
<1>2. cmd = MemoryPosition1 + m.Position - 1 /\ cmd \in 137..140
  BY <1>1 DEF MemoryCommand, MemoryPosition1
<1>3. byte \in {0, 1} /\ (byte = extensionNoValue <=> m.Extension = Nothing)
  BY DEF MemoryExtensionByte, extensionNoValue, extensionValuePresent
<1>4. data \in Seq(Bytes) /\ Len(data) = 6
  <2>1. CASE m.Extension = Nothing
    BY <2>1 DEF MemoryBytes, Bytes
  <2>2. CASE m.Extension # Nothing
    <3> DEFINE word == PutUint16(m.Extension)
               rest == <<0, 0, 0, 0>>
    <3>1. m.Extension \in Int
      BY <1>1, <2>2, Words16
    <3>2. word \in Seq(Bytes) /\ Len(word) = 2
      BY <3>1, HeightComesBack
    <3>3. rest \in Seq(Bytes) /\ Len(rest) = 4
      BY DEF Bytes
    <3>4. data = word \o rest
      BY <2>2 DEF MemoryBytes
    <3> HIDE DEF word, rest, data
    <3>5. word \o rest \in Seq(Bytes) /\ Len(word \o rest) = Len(word) + Len(rest)
      BY <3>2, <3>3, Behind
    <3>6. QED BY <3>2, <3>3, <3>4, <3>5
  <2>3. QED BY <2>1, <2>2
<1>5. MemoryEnvelope(m) = <<127, cmd, 128>> \o <<byte>> \o data
  BY <1>2 DEF MemoryEnvelope, envelopeWithExtensionByte, NeedsExtensionByte, MemoryPosition1,
     BaseOffset, EnvelopePrefix, EnvelopeDataMarker
<1> DEFINE head == <<127, cmd, 128>>
           tell == <<byte>>
<1>6. /\ head \in Seq(Bytes) /\ Len(head) = 3 /\ head[2] = cmd
      /\ tell \in Seq(Bytes) /\ Len(tell) = 1 /\ tell[1] = byte
  BY <1>2, <1>3 DEF Bytes
<1> HIDE DEF cmd, byte, data, head, tell
<1> DEFINE top == head \o tell
<1>7. top \in Seq(Bytes) /\ Len(top) = 4 /\ top[2] = cmd /\ top[4] = byte
  <2>1. /\ top \in Seq(Bytes) /\ Len(top) = Len(head) + Len(tell)
        /\ \A i \in 1..(Len(head) + Len(tell)) :
             top[i] = IF i <= Len(head) THEN head[i] ELSE tell[i - Len(head)]
    BY <1>6, Behind
  <2> HIDE DEF top
  <2>2. QED BY <1>6, <2>1
<1>8. MemoryEnvelope(m) = top \o data
  BY <1>5 DEF head, tell
<1> HIDE DEF top
<1> DEFINE all == top \o data
<1>9. all \in Seq(Bytes) /\ Len(all) = 10 /\ all[2] = cmd /\ all[4] = byte
  <2>1. /\ all \in Seq(Bytes) /\ Len(all) = Len(top) + Len(data)
        /\ \A i \in 1..(Len(top) + Len(data)) :
             all[i] = IF i <= Len(top) THEN top[i] ELSE data[i - Len(top)]
    BY <1>4, <1>7, Behind
  <2> HIDE DEF all
  <2>2. QED BY <1>4, <1>7, <2>1
<1>10. QED BY <1>2, <1>3, <1>8, <1>9

\* types.go:237-261, deskpanel.go:102-140.  The bytes of a reminder, sent back
\* by the desk, are read as the reminder that was packed: every option with
\* its own two intervals.
THEOREM ReminderComesBack ==
    ASSUME NEW r \in Reminders
    PROVE  /\ ReminderBytes(r) \in Seq(Bytes)
           /\ parseReminder(<<1, ResponseReminderSetting>> \o ReminderBytes(r)) = r
<1> DEFINE data == <<1, ResponseReminderSetting>> \o ReminderBytes(r)
<1>1. /\ r.ActiveOption \in 56..59 /\ r.Option \in [1..3 -> IntervalsOf]
      /\ r = [ActiveOption |-> r.ActiveOption, Option |-> r.Option]
  BY DEF Reminders, ReminderOptions, ReminderOff, Presets
<1>2. \A p \in 1..3 : /\ r.Option[p].Sitting \in Bytes /\ r.Option[p].Standing \in Bytes
                      /\ Byte(r.Option[p].Sitting) = r.Option[p].Sitting
                      /\ Byte(r.Option[p].Standing) = r.Option[p].Standing
                      /\ r.Option[p] = [Sitting |-> r.Option[p].Sitting,
                                         Standing |-> r.Option[p].Standing]
  BY <1>1 DEF IntervalsOf, Bytes, Byte
<1>3. ReminderBytes(r) =
        <<r.ActiveOption, r.Option[1].Sitting, r.Option[1].Standing, r.Option[2].Sitting,
          r.Option[2].Standing, r.Option[3].Sitting, r.Option[3].Standing, 0, 0, 0, 0>>
  BY <1>2 DEF ReminderBytes
<1>4. ReminderBytes(r) \in Seq(Bytes)
  <2>1. r.ActiveOption \in Bytes /\ 0 \in Bytes
    BY <1>1 DEF Bytes
  <2>2. /\ r.Option[1].Sitting \in Bytes /\ r.Option[1].Standing \in Bytes
        /\ r.Option[2].Sitting \in Bytes /\ r.Option[2].Standing \in Bytes
        /\ r.Option[3].Sitting \in Bytes /\ r.Option[3].Standing \in Bytes
    BY <1>2
  <2>3. QED BY <1>3, <2>1, <2>2
<1>5. /\ Len(data) = 13 /\ data[3] = r.ActiveOption
      /\ \A p \in 1..3 : data[2 * p + 2] = r.Option[p].Sitting /\ data[2 * p + 3] = r.Option[p].Standing
  BY <1>3
<1> HIDE DEF data
<1>6. parseReminder(data) =
        [ActiveOption |-> At(data, 2),
         Option |-> [p \in 1..3 |-> [Sitting  |-> At(data, 2 * p + 1),
                                     Standing |-> At(data, 2 * p + 2)]]]
  BY <1>5 DEF parseReminder, Taken, Presets
<1>7. \A p \in 1..3 : At(data, 2 * p + 1) = data[2 * p + 2] /\ At(data, 2 * p + 2) = data[2 * p + 3]
  BY DEF At
<1>8. [p \in 1..3 |-> [Sitting |-> At(data, 2 * p + 1), Standing |-> At(data, 2 * p + 2)]] = r.Option
  BY <1>1, <1>2, <1>5, <1>7
<1>9. At(data, 2) = r.ActiveOption
  BY <1>5 DEF At
<1>10. parseReminder(data) = r
  BY <1>1, <1>6, <1>8, <1>9
<1>11. QED BY <1>4, <1>10 DEF data

\* Two words, one behind the other.
LEMMA TwoWords ==
    ASSUME NEW v \in Words, NEW w \in Words
    PROVE  LET data == PutUint16(v) \o PutUint16(w) IN
           Len(data) = 4 /\ Uint16(data, 0) = v /\ Uint16(data, 2) = w
<1> DEFINE a == PutUint16(v)
           b == PutUint16(w)
           data == a \o b
<1>1. /\ a \in Seq(Bytes) /\ Len(a) = 2 /\ Uint16(a, 0) = v
      /\ b \in Seq(Bytes) /\ Len(b) = 2 /\ Uint16(b, 0) = w
  BY Words16, HeightComesBack
<1> HIDE DEF a, b
<1>2. /\ data \in Seq(Bytes) /\ Len(data) = Len(a) + Len(b)
      /\ \A i \in 1..(Len(a) + Len(b)) :
           data[i] = IF i <= Len(a) THEN a[i] ELSE b[i - Len(a)]
  BY <1>1, Behind
<1> HIDE DEF data
<1>3. Len(data) = 4 /\ data[1] = a[1] /\ data[2] = a[2] /\ data[3] = b[1] /\ data[4] = b[2]
  BY <1>1, <1>2
<1>4. Uint16(data, 0) = v /\ Uint16(data, 2) = w
  BY <1>1, <1>3 DEF Uint16, At
<1>5. QED BY <1>3, <1>4 DEF data, a, b

\* A report: a height, and a speed, in sixteenths, above its flags.
ReportBytes(height, word) == PutUint16(height) \o PutUint16(word)
SpeedWord(s, flags) == (IF s < 0 THEN 16 * s + 65536 ELSE 16 * s) + flags

\* referenceoutput.go.  A report is read as the desk packs it: sixteen bits
\* of height, and a word with a signed speed, in sixteenths, above four flags.
THEOREM ReadingComesBack ==
    ASSUME NEW height \in Words, NEW s \in Int, -2048 <= s, s <= 2047, NEW flags \in 0..15,
           SpeedWord(s, flags) \in Words
    PROVE  ParseReading(ReportBytes(height, SpeedWord(s, flags))) =
             [Extension |-> height, Speed |-> 16 * s, Flags |-> flags]
<1> DEFINE word == SpeedWord(s, flags)
           data == PutUint16(height) \o PutUint16(word)
<1>1. Len(data) = 4 /\ Uint16(data, 0) = height /\ Uint16(data, 2) = word
  BY TwoWords
<1>0. word = (IF s < 0 THEN 16 * s + 65536 ELSE 16 * s) + flags
  BY DEF SpeedWord
<1> HIDE DEF data, word
<1>2. (word % 16) = flags
  <2>1. PICK k \in Int : word = 16 * k + flags
    <3>1. CASE s < 0
      BY <1>0, <3>1
    <3>2. CASE ~(s < 0)
      BY <1>0, <3>2
    <3>3. QED BY <3>1, <3>2
  <2>2. QED BY <2>1
<1>3. Int16(word - flags) = 16 * s
  BY <1>0 DEF Int16
<1>4. ParseReading(data) = [Extension |-> height, Speed |-> 16 * s, Flags |-> flags]
  BY <1>1, <1>2, <1>3 DEF ParseReading, Taken
<1>5. QED BY <1>4 DEF data, word, ReportBytes

\* types.go:284-300.  Taking ownership sets the first byte of a user and
\* leaves the rest of it; of an empty user nothing can be set.
THEOREM OwnerIsSet ==
    ASSUME NEW user \in Seq(Bytes)
    PROVE  LET owned == SetOwner(user, TRUE) IN
           /\ owned \in Seq(Bytes) /\ Len(owned) = Len(user)
           /\ Owner(owned) <=> user # <<>>
           /\ \A i \in 2..Len(user) : owned[i] = user[i]
<1>1. CASE user = <<>>
  BY <1>1 DEF SetOwner, Owner
<1>2. CASE user # <<>>
  <2>1. Len(user) \in Nat \ {0} /\ user \in [1..Len(user) -> Bytes]
    BY <1>2, EmptySeq, LenProperties
  <2> DEFINE owned == [user EXCEPT ![1] = 1]
  <2>2. owned \in [1..Len(user) -> Bytes] /\ owned[1] = 1 /\ \A i \in 2..Len(user) : owned[i] = user[i]
    BY <2>1 DEF Bytes
  <2> HIDE DEF owned
  <2>3. owned \in Seq(Bytes) /\ Len(owned) = Len(user)
    BY <2>1, <2>2, LenProperties, SeqDef
  <2>4. SetOwner(user, TRUE) = owned
    BY <1>2 DEF SetOwner, owned
  <2>5. Owner(owned)
    BY <2>1, <2>2, <2>3 DEF Owner
  <2>6. QED BY <1>2, <2>2, <2>3, <2>4, <2>5
<1>3. QED BY <1>1, <1>2

-----------------------------------------------------------------------------
(* The invariant *)

\* What the desk keeps can be put into an answer.
KeptOK ==
    /\ DOMAIN kept = Things
    /\ kept[BaseOffset] \in Words
    /\ \A t \in MemoryPositions : kept[t] \in Words \cup {Nothing}
    /\ kept[ReminderSetting] \in Reminders
    /\ kept[UserID] \in Seq(Bytes) /\ kept[UserID] # <<>>
    /\ kept[ProductInfo] \in Products
    /\ kept[GetCapabilities] \in Abilities

\* What may be written.
Writable == TakesHeight \cup {ReminderSetting, UserID}

\* What an envelope is packed from, and that the desk makes of it what was
\* meant, or some height if that goes beyond sixteen bits.
Packed(thing, value, part, envelope) ==
    /\ thing \in Writable /\ part \in 0..4
    /\ thing = BaseOffset => value \in Int
    /\ thing \in MemoryPositions => value \in Int \cup {Nothing}
    /\ thing = ReminderSetting => value \in Reminders
    /\ thing = UserID => value \in Seq(Bytes) /\ value # <<>>
    /\ part # All => thing = ReminderSetting
    /\ envelope \in Seq(Bytes) /\ envelope[2] = thing
    /\ StoreView!Kept(thing, value, Stored(envelope))

\* An envelope on its way is a question, or packed from what is meant.
SentOK ==
    /\ asked \in Settings \cup {Nothing}
    /\ sent = Nothing => meant = Nothing
    /\ sent # Nothing => sent \in Seq(Bytes)
    /\ sent # Nothing /\ asked # Nothing =>
         meant = Nothing /\ frame = Nothing /\ sent[2] = asked
    /\ sent # Nothing /\ asked = Nothing =>
         /\ meant = [thing |-> meant.thing, value |-> meant.value, part |-> meant.part]
         /\ Packed(meant.thing, meant.value, meant.part, sent)

\* The second byte of a frame says how to read it.
Codes(thing) ==
    CASE thing = BaseOffset -> {ResponseBaseOffset}
      [] thing \in MemoryPositions -> {ResponseMemoryUnset, ResponseMemoryPosition}
      [] thing = ReminderSetting -> {ResponseReminderSetting}
      [] thing = UserID -> {ResponseUserID}
      [] thing = ProductInfo -> {ResponseProductInfo}
      [] thing = GetCapabilities -> {ResponseCapabilities}

\* A frame of a thing looks so, whole or cut.
Frame(thing, data) ==
    /\ data \in Seq(Bytes)
    /\ thing \in Settings /\ Len(data) >= 2 => data[2] \in Codes(thing)
    /\ thing = ReminderSetting /\ Len(data) >= 3 => data[3] \in ReminderOptions
    /\ thing = UserID => Len(data) >= 3

FrameOK ==
    frame # Nothing =>
      /\ frame = [thing |-> frame.thing, data |-> frame.data]
      /\ frame.thing \in Things /\ Frame(frame.thing, frame.data)
      /\ asked # Nothing => frame.thing = asked

ToldOK ==
    told # Nothing =>
      /\ told.thing = ReminderSetting => told.value \in Reminders
      /\ told.thing = UserID => told.value \in Seq(Bytes) /\ told.value # <<>>

\* The answer to a question that came in whole is one its parser takes.
WholeOK ==
    asked # Nothing /\ sent = Nothing /\ whole =>
      frame # Nothing /\ Heard(frame.thing, frame.data) # Nothing

\* As long as nothing at the desk has changed since the question, the answer,
\* what the caller makes of it and the rest of its update agree with the desk.
Rest(value, part) ==
    LET now == kept[ReminderSetting] IN
    /\ part # Active => value.ActiveOption = now.ActiveOption
    /\ \A p \in Presets \ {part} : value.Option[p] = now.Option[p]

FreshOK ==
    fresh =>
      /\ frame # Nothing /\ frame.thing = ReminderSetting =>
           Heard(frame.thing, frame.data) \in
             {Nothing, [thing |-> ReminderSetting, value |-> kept[ReminderSetting]]}
      /\ told # Nothing /\ told.thing = ReminderSetting => told.value = kept[ReminderSetting]
      /\ meant # Nothing /\ meant.part # All => Rest(meant.value, meant.part)

FlagsOK == {panicked, whole, fresh} \subseteq BOOLEAN /\ events \in 0..Events

IInv == KeptOK /\ SentOK /\ FrameOK /\ ToldOK /\ WholeOK /\ FreshOK /\ FlagsOK

-----------------------------------------------------------------------------
(* What the desk makes of an envelope *)

\* nil is none of the values, and no record of one.
LEMMA NoValue ==
    \A none \in {Nothing, Panic} :
      /\ none \notin Int /\ none \notin Seq(Bytes) /\ none \notin Reminders
      /\ none \notin Products /\ none \notin Abilities /\ none \notin Readings
BY NothingAssumption DEF Value

\* A function from the first n numbers is a sequence of that length.
LEMMA IsSequence ==
    ASSUME NEW S, NEW n \in Nat, NEW f \in [1..n -> S]
    PROVE  f \in Seq(S) /\ Len(f) = n
BY LenProperties, SeqDef

\* The payload is what is behind the marker, or behind the byte that says
\* whether there is a height.
LEMMA PayloadIs ==
    ASSUME NEW e \in Seq(Bytes), Len(e) >= 4
    PROVE  LET n == IF e[2] \in TakesHeight THEN 4 ELSE 3 IN
           /\ Payload(e) \in Seq(Bytes) /\ Len(Payload(e)) = Len(e) - n
           /\ \A i \in 1..Len(e) - n : Payload(e)[i] = e[i + n]
<1> DEFINE n == IF e[2] \in TakesHeight THEN 4 ELSE 3
           k == Len(e) - n
           f == [i \in 1..k |-> e[i + n]]
<1>0. n \in {3, 4} /\ Len(e) \in Nat
  BY LenProperties
<1>4. Payload(e) = f
  BY DEF Payload
<1> HIDE DEF n
<1>1. k \in Nat /\ \A i \in 1..k : i + n \in 1..Len(e)
  BY <1>0
<1>2. \A i \in 1..Len(e) : e[i] \in Bytes
  BY ElementOfSeq
<1>3. f \in [1..k -> Bytes]
  BY <1>1, <1>2
<1>5. f \in Seq(Bytes) /\ Len(f) = k
  BY <1>1, <1>3, IsSequence
<1>6. QED BY <1>1, <1>4, <1>5 DEF n

\* An envelope with a height, or none, is kept as the word of two of its bytes.
LEMMA HeightStored ==
    ASSUME NEW e \in Seq(Bytes), Len(e) >= 6, e[2] \in TakesHeight
    PROVE  Stored(e) = IF e[4] = 0 THEN Nothing ELSE e[5] + 256 * e[6]
<1>1. /\ Payload(e) \in Seq(Bytes) /\ Len(Payload(e)) = Len(e) - 4
      /\ \A i \in 1..Len(e) - 4 : Payload(e)[i] = e[i + 4]
  <2>1. Len(e) >= 4
    BY LenProperties
  <2>2. LET n == IF e[2] \in TakesHeight THEN 4 ELSE 3 IN
        /\ Payload(e) \in Seq(Bytes) /\ Len(Payload(e)) = Len(e) - n
        /\ \A i \in 1..Len(e) - n : Payload(e)[i] = e[i + n]
    BY <2>1, PayloadIs
  <2>3. QED BY <2>2
<1> DEFINE data == Payload(e)
<1>2. Len(data) >= 2 /\ data[1] = e[5] /\ data[2] = e[6]
  BY <1>1, LenProperties
<1>4. Stored(e) = IF e[4] = 0 THEN Nothing ELSE Height(data, 1)
  BY DEF Stored, TakesHeight, MemoryPositions, BaseOffset, ReminderSetting, MemoryPosition1
<1>5. Len(data) \in Nat
  BY <1>1, LenProperties
<1> HIDE DEF data
<1>3. Height(data, 1) = e[5] + 256 * e[6]
  <2>1. Nth(data, 1) = e[5] /\ Nth(data, 1 + 1) = e[6]
    BY <1>2, <1>5 DEF Nth
  <2>2. QED BY <2>1 DEF Height
<1>6. QED BY <1>3, <1>4

\* What is left of a height in sixteen bits is what PanelStore lets it be.
LEMMA KeptHeight ==
    ASSUME NEW thing \in TakesHeight, NEW n \in Int
    PROVE  (n % 65536) \in Words /\ StoreView!Kept(thing, n, (n % 65536))
<1> DEFINE low == n % 65536
<1>1. low \in Words
  BY DEF Words
<1>2. n \in Words => low = n
  BY Words16
<1>0. n # Nothing
  BY NoValue
<1>3. StoreView!Words = Words
  BY DEF StoreView!Words, Words
<1> HIDE DEF low
<1>4. StoreView!Kept(thing, n, low)
  BY <1>0, <1>1, <1>2, <1>3 DEF StoreView!Kept
<1>5. QED BY <1>1, <1>4 DEF low

\* desk.go:215-232.  A base offset reaches the desk.
LEMMA OffsetStored ==
    ASSUME NEW n \in Int
    PROVE  LET e == EnvelopeWithPayload(BaseOffset, PutUint16(n)) IN
           /\ e \in Seq(Bytes) /\ e[2] = BaseOffset
           /\ StoreView!Kept(BaseOffset, n, Stored(e))
<1> DEFINE lo == n % 256
           hi == (n \div 256) % 256
           e == EnvelopeWithPayload(BaseOffset, PutUint16(n))
<1>1. lo \in Bytes /\ hi \in Bytes /\ {127, 128, 129, 1} \subseteq Bytes
  BY LowBits DEF Bytes
<1>2. PutUint16(n) = <<lo, hi>>
  BY DEF PutUint16
<1> HIDE DEF lo, hi
<1>3. e = <<127, 129, 128>> \o <<1>> \o <<lo, hi>>
  BY <1>2 DEF EnvelopeWithPayload, envelopeWithExtensionByte, NeedsExtensionByte, BaseOffset,
     EnvelopePrefix, EnvelopeDataMarker, extensionValuePresent
<1> HIDE DEF e
<1>4. Len(e) = 6 /\ e[2] = 129 /\ e[4] = 1 /\ e[5] = lo /\ e[6] = hi
  BY <1>3
<1>5. e \in Seq(Bytes)
  BY <1>1, <1>3
<1>6. Stored(e) = (n % 65536)
  <2>1. e[2] \in TakesHeight /\ Len(e) >= 6
    BY <1>4 DEF TakesHeight, BaseOffset
  <2>2. Stored(e) = IF e[4] = 0 THEN Nothing ELSE e[5] + 256 * e[6]
    BY <1>5, <2>1, HeightStored
  <2>3. lo + 256 * hi = (n % 65536)
    BY LowBits DEF lo, hi
  <2>4. QED BY <1>4, <2>2, <2>3
<1>7. StoreView!Kept(BaseOffset, n, (n % 65536))
  BY KeptHeight DEF TakesHeight
<1>8. QED BY <1>4, <1>5, <1>6, <1>7 DEF e, BaseOffset

\* desk.go:562-587.  A memory position reaches the desk, and so does none.
LEMMA MemoryStored ==
    ASSUME NEW position \in 1..4, NEW value \in Int \cup {Nothing}
    PROVE  LET e == MemoryEnvelope([Position |-> position, Extension |-> value])
               thing == MemoryPosition1 + position - 1 IN
           /\ e \in Seq(Bytes) /\ e[2] = thing /\ thing \in MemoryPositions
           /\ StoreView!Kept(thing, value, Stored(e))
<1> DEFINE m == [Position |-> position, Extension |-> value]
           e == MemoryEnvelope(m)
           thing == MemoryPosition1 + position - 1
<1>1. thing \in 137..140 /\ thing \in MemoryPositions /\ thing \in TakesHeight
  BY DEF MemoryPosition1, MemoryPositions, TakesHeight
<1>2. MemoryCommand(m) = thing
  BY DEF MemoryCommand, MemoryPosition1
<1>3. {127, 128, 0, 1, 255, thing} \subseteq Bytes
  BY <1>1 DEF Bytes
<1>4. e = <<127, thing, 128>> \o <<MemoryExtensionByte(m)>> \o MemoryBytes(m)
  BY <1>1, <1>2 DEF MemoryEnvelope, envelopeWithExtensionByte, NeedsExtensionByte, MemoryPosition1,
     BaseOffset, EnvelopePrefix, EnvelopeDataMarker
<1> HIDE DEF thing, e
<1>5. ASSUME value = Nothing
      PROVE  /\ e \in Seq(Bytes) /\ e[2] = thing /\ StoreView!Kept(thing, value, Stored(e))
  <2>1. e = <<127, thing, 128>> \o <<0>> \o <<255, 255, 255, 255, 0, 0>>
    BY <1>4, <1>5 DEF MemoryExtensionByte, MemoryBytes, extensionNoValue
  <2>2. Len(e) = 10 /\ e[2] = thing /\ e[4] = 0
    BY <2>1
  <2>3. e \in Seq(Bytes)
    BY <1>3, <2>1
  <2>4. Stored(e) = Nothing
    BY <1>1, <2>2 DEF Stored, TakesHeight, MemoryPositions, BaseOffset, ReminderSetting,
       MemoryPosition1
  <2>5. QED BY <1>1, <1>5, <2>2, <2>3, <2>4 DEF StoreView!Kept
<1>6. ASSUME NEW n \in Int, value = n
      PROVE  /\ e \in Seq(Bytes) /\ e[2] = thing /\ StoreView!Kept(thing, value, Stored(e))
  <2> DEFINE lo == n % 256
             hi == (n \div 256) % 256
  <2>0. n # Nothing
    BY NoValue
  <2>1. lo \in Bytes /\ hi \in Bytes
    BY LowBits
  <2>2. MemoryExtensionByte(m) = 1 /\ MemoryBytes(m) = <<lo, hi>> \o <<0, 0, 0, 0>>
    BY <1>6, <2>0 DEF MemoryExtensionByte, MemoryBytes, extensionValuePresent, PutUint16
  <2> HIDE DEF lo, hi
  <2>3. e = <<127, thing, 128>> \o <<1>> \o (<<lo, hi>> \o <<0, 0, 0, 0>>)
    BY <1>4, <2>2
  <2>4. Len(e) = 10 /\ e[2] = thing /\ e[4] = 1 /\ e[5] = lo /\ e[6] = hi
    BY <2>3
  <2>5. e \in Seq(Bytes)
    BY <1>3, <2>1, <2>3
  <2>6. Stored(e) = (n % 65536)
    <3>1. e[2] \in TakesHeight /\ Len(e) >= 6
      BY <1>1, <2>4
    <3>2. Stored(e) = IF e[4] = 0 THEN Nothing ELSE e[5] + 256 * e[6]
      BY <2>5, <3>1, HeightStored
    <3>3. lo + 256 * hi = (n % 65536)
      BY LowBits DEF lo, hi
    <3>4. QED BY <2>4, <3>2, <3>3
  <2>7. StoreView!Kept(thing, n, (n % 65536))
    BY <1>1, KeptHeight
  <2>8. QED BY <1>6, <2>4, <2>5, <2>6, <2>7
<1>7. QED BY <1>1, <1>5, <1>6 DEF e, thing

\* desk.go:268-288.  So does a reminder that passes for one, with every option
\* and each of its intervals in its place.
LEMMA ReminderStored ==
    ASSUME NEW r \in Reminders
    PROVE  LET e == EnvelopeWithPayload(ReminderSetting, ReminderBytes(r)) IN
           e \in Seq(Bytes) /\ e[2] = ReminderSetting /\ Stored(e) = r
<1> DEFINE e == EnvelopeWithPayload(ReminderSetting, ReminderBytes(r))
           data == Payload(e)
<1>1. /\ r.ActiveOption \in 56..59 /\ r.Option \in [1..3 -> IntervalsOf]
      /\ r = [ActiveOption |-> r.ActiveOption, Option |-> r.Option]
  BY DEF Reminders, ReminderOptions, ReminderOff, Presets
<1>2. \A p \in 1..3 : /\ r.Option[p].Sitting \in Bytes /\ r.Option[p].Standing \in Bytes
                      /\ Byte(r.Option[p].Sitting) = r.Option[p].Sitting
                      /\ Byte(r.Option[p].Standing) = r.Option[p].Standing
                      /\ r.Option[p] = Intervals(r.Option[p].Sitting, r.Option[p].Standing)
  BY <1>1 DEF IntervalsOf, Bytes, Byte, Intervals
<1>3. ReminderBytes(r) =
        <<r.ActiveOption, r.Option[1].Sitting, r.Option[1].Standing, r.Option[2].Sitting,
          r.Option[2].Standing, r.Option[3].Sitting, r.Option[3].Standing, 0, 0, 0, 0>>
  BY <1>2 DEF ReminderBytes
<1>4. e = <<127, 136, 128>> \o ReminderBytes(r)
  BY DEF EnvelopeWithPayload, envelopeWithExtensionByte, NeedsExtensionByte, MemoryPosition1,
     BaseOffset, ReminderSetting, EnvelopePrefix, EnvelopeDataMarker
<1> HIDE DEF e
<1>5. /\ Len(e) = 14 /\ e[2] = 136 /\ e[4] = r.ActiveOption
      /\ \A p \in 1..3 : e[2 * p + 3] = r.Option[p].Sitting /\ e[2 * p + 4] = r.Option[p].Standing
  BY <1>3, <1>4
<1>6. e \in Seq(Bytes)
  <2>1. <<127, 136, 128>> \in Seq(Bytes)
    BY DEF Bytes
  <2>2. QED BY <1>4, <2>1, ReminderComesBack
<1>7. e[2] \notin TakesHeight
  BY <1>5 DEF TakesHeight, MemoryPositions, BaseOffset, MemoryPosition1
<1>8. /\ data \in Seq(Bytes) /\ Len(data) = 11
      /\ \A i \in 1..11 : data[i] = e[i + 3]
  <2>1. /\ data \in Seq(Bytes) /\ Len(data) = Len(e) - 3
        /\ \A i \in 1..Len(e) - 3 : data[i] = e[i + 3]
    <3>1. Len(e) >= 4
      BY <1>5
    <3>2. QED BY <1>6, <1>7, <3>1, PayloadIs
  <2> HIDE DEF data
  <2>2. QED BY <1>5, <2>1
<1> HIDE DEF data
<1>9. \A i \in 1..11 : Nth(data, i) = e[i + 3]
  BY <1>8 DEF Nth
<1>10. Stored(e) = [ActiveOption |-> Nth(data, 1),
                    Option |-> [p \in 1..3 |-> Intervals(Nth(data, 2 * p), Nth(data, 2 * p + 1))]]
  BY <1>5, <1>7 DEF Stored, data, ReminderSetting, Presets
<1>11. \A p \in 1..3 : /\ Nth(data, 2 * p) = r.Option[p].Sitting
                       /\ Nth(data, 2 * p + 1) = r.Option[p].Standing
  <2> TAKE p \in 1..3
  <2>1. 2 * p \in 1..11 /\ 2 * p + 1 \in 1..11 /\ (2 * p + 1) + 3 = 2 * p + 4
    OBVIOUS
  <2>2. QED BY <1>5, <1>9, <2>1
<1>12. [p \in 1..3 |-> Intervals(Nth(data, 2 * p), Nth(data, 2 * p + 1))] = r.Option
  BY <1>1, <1>2, <1>11
<1>13. Nth(data, 1) = r.ActiveOption
  BY <1>5, <1>9
<1>14. Stored(e) = r
  BY <1>1, <1>10, <1>12, <1>13
<1>15. QED BY <1>5, <1>6, <1>14 DEF e, ReminderSetting

\* desk.go:544-560.  And a user, byte by byte.
LEMMA UserStored ==
    ASSUME NEW user \in Seq(Bytes), user # <<>>
    PROVE  LET e == EnvelopeWithPayload(UserID, user) IN
           e \in Seq(Bytes) /\ e[2] = UserID /\ Stored(e) = user
<1> DEFINE e == EnvelopeWithPayload(UserID, user)
           head == <<127, 134, 128>>
           data == Payload(e)
<1>1. e = head \o user
  BY DEF EnvelopeWithPayload, envelopeWithExtensionByte, NeedsExtensionByte, MemoryPosition1,
     BaseOffset, UserID, EnvelopePrefix, EnvelopeDataMarker
<1>2. head \in Seq(Bytes) /\ Len(head) = 3 /\ head[2] = 134
  BY DEF Bytes
<1> HIDE DEF e, head
<1>3. /\ e \in Seq(Bytes) /\ Len(e) = 3 + Len(user) /\ Len(user) \in Nat
      /\ \A i \in 1..(3 + Len(user)) : e[i] = IF i <= 3 THEN head[i] ELSE user[i - 3]
  <2>1. Len(user) \in Nat
    BY LenProperties
  <2>2. /\ head \o user \in Seq(Bytes) /\ Len(head \o user) = Len(head) + Len(user)
        /\ \A i \in 1..(Len(head) + Len(user)) :
             (head \o user)[i] = IF i <= Len(head) THEN head[i] ELSE user[i - Len(head)]
    BY <1>2, Behind
  <2>3. QED BY <1>1, <1>2, <2>1, <2>2
<1>4. e[2] = 134
  BY <1>2, <1>3
<1>5. e[2] \notin TakesHeight /\ e[2] # ReminderSetting
  BY <1>4 DEF TakesHeight, MemoryPositions, BaseOffset, MemoryPosition1, ReminderSetting
<1>6. /\ data \in Seq(Bytes) /\ Len(data) = Len(e) - 3
      /\ \A i \in 1..Len(e) - 3 : data[i] = e[i + 3]
  <2>1. Len(e) >= 4
    BY <1>3, EmptySeq
  <2>2. QED BY <1>3, <1>5, <2>1, PayloadIs
<1> HIDE DEF data
<1>7. Len(data) = Len(user) /\ \A i \in 1..Len(user) : data[i] = user[i]
  BY <1>3, <1>6
<1>8. data = user
  BY <1>6, <1>7, SeqEqual
<1>9. Stored(e) = data
  BY <1>5 DEF Stored, data
<1>10. QED BY <1>3, <1>4, <1>8, <1>9 DEF e, UserID

-----------------------------------------------------------------------------
(* What the program makes of a frame *)

\* The two bytes of a word.
LEMMA WordIs ==
    ASSUME NEW v \in Words
    PROVE  \E lo, hi \in Bytes : Word(v) = <<lo, hi>> /\ lo + 256 * hi = v
<1> DEFINE lo == v % 256
           hi == v \div 256
<1>1. v \in Int /\ 0 <= v /\ v < 65536
  BY DEF Words
<1>2. lo \in Bytes /\ hi \in Bytes /\ lo + 256 * hi = v
  BY <1>1 DEF Bytes
<1>3. QED BY <1>2 DEF Word

\* The second byte of an answer names the parser.
LEMMA ParsedIs ==
    ASSUME NEW thing \in Settings, NEW data \in Seq(Bytes), Len(data) >= 2
    PROVE  /\ data[2] = 2 => Parsed(thing, data) = ReadCapabilities(data)
           /\ data[2] = 3 => Parsed(thing, data) = ReadBaseOffset(data)
           /\ data[2] = 5 => Parsed(thing, data) = ReadMemoryUnset(data)
           /\ data[2] = 6 => Parsed(thing, data) = ReadProductInfo(data)
           /\ data[2] = 7 => Parsed(thing, data) = ReadMemoryPosition(data)
           /\ data[2] = 11 => Parsed(thing, data) = parseReminder(data)
           /\ data[2] = 17 => Parsed(thing, data) = ReadUserID(data)
<1>1. thing # ReferenceOutput /\ thing # ControlError /\ ~(Len(data) < 2)
  BY LenProperties DEF Settings, MemoryPositions, ReferenceOutput, ControlError, ProductInfo,
     GetCapabilities, BaseOffset, UserID, ReminderSetting, MemoryPosition1
<1> DEFINE c == data[2]
<1>2. Parsed(thing, data) =
        CASE c = 2 -> ReadCapabilities(data)
          [] c = 3 -> ReadBaseOffset(data)
          [] c = 5 -> ReadMemoryUnset(data)
          [] c = 7 -> ReadMemoryPosition(data)
          [] c = 11 -> parseReminder(data)
          [] c = 6 -> ReadProductInfo(data)
          [] c = 17 -> ReadUserID(data)
  BY <1>1 DEF Parsed, ResponseCapabilities, ResponseBaseOffset, ResponseMemoryUnset,
     ResponseProductInfo, ResponseMemoryPosition, ResponseReminderSetting, ResponseUserID
<1> HIDE DEF c
<1>3. /\ c = 2 => Parsed(thing, data) = ReadCapabilities(data)
      /\ c = 3 => Parsed(thing, data) = ReadBaseOffset(data)
      /\ c = 5 => Parsed(thing, data) = ReadMemoryUnset(data)
      /\ c = 6 => Parsed(thing, data) = ReadProductInfo(data)
      /\ c = 7 => Parsed(thing, data) = ReadMemoryPosition(data)
      /\ c = 11 => Parsed(thing, data) = parseReminder(data)
      /\ c = 17 => Parsed(thing, data) = ReadUserID(data)
  BY <1>2
<1>4. QED BY <1>3 DEF c

\* So does what is asked for, of the bytes of the answer.
LEMMA AnswerIs ==
    ASSUME NEW t
    PROVE  LET v == kept[t] IN
      /\ t = BaseOffset =>
           Codes(t) = {3} /\ Answer(t) = <<1, 3, 1>> \o Word(v)
      /\ t \in MemoryPositions =>
           /\ Codes(t) = {5, 7}
           /\ Answer(t) = IF v = Nothing THEN <<1, 5, 0>> \o <<255, 255, 255, 255>>
                          ELSE <<1, 7, 1>> \o Word(v) \o <<93, 23, 246, 5>>
      /\ t = ReminderSetting =>
           /\ Codes(t) = {11}
           /\ Answer(t) = <<1, 11, v.ActiveOption,
                v.Option[1].Sitting, v.Option[1].Standing, v.Option[2].Sitting,
                v.Option[2].Standing, v.Option[3].Sitting, v.Option[3].Standing>>
                \o <<93, 23, 246, 5>>
      /\ t = UserID =>
           Codes(t) = {17} /\ Answer(t) = <<1, 17>> \o v
      /\ t = ProductInfo =>
           /\ Codes(t) = {6}
           /\ Answer(t) = <<1, 6, 32>> \o Word(v.ProductCode)
                            \o <<v.HardwareVersion, v.SoftwareVersion, 13>>
      /\ t = GetCapabilities =>
           /\ Codes(t) = {2}
           /\ Answer(t) = <<1, 2, v.MemSize + FlagByte(8, v.AutoUp) + FlagByte(16, v.AutoDown)
                    + FlagByte(32, v.BleAllow) + FlagByte(64, v.HasDisplay)
                    + FlagByte(128, v.HasLight), 0>>
<1>0. MemoryPositions = 137..140
  BY DEF MemoryPositions, MemoryPosition1
<1>1. CASE t = BaseOffset
  BY <1>0, <1>1 DEF Answer, Codes, BaseOffset, ReminderSetting, UserID, ProductInfo,
     GetCapabilities, ResponseBaseOffset
<1>2. CASE t \in MemoryPositions
  <2>1. t \notin {BaseOffset, ReminderSetting, UserID, ProductInfo, GetCapabilities}
    BY <1>0, <1>2 DEF BaseOffset, ReminderSetting, UserID, ProductInfo, GetCapabilities
  <2>2. Codes(t) = {5, 7}
    BY <1>2, <2>1 DEF Codes, ResponseMemoryUnset, ResponseMemoryPosition
  <2>3. Answer(t) = IF kept[t] = Nothing THEN <<1, 5, 0>> \o Unset
                                         ELSE <<1, 7, 1>> \o Word(kept[t]) \o Counter
    BY <1>2, <2>1 DEF Answer
  <2>4. QED BY <1>2, <2>1, <2>2, <2>3 DEF Unset, Counter
<1>3. CASE t = ReminderSetting
  BY <1>0, <1>3 DEF Answer, Codes, BaseOffset, ReminderSetting, UserID, ProductInfo,
     GetCapabilities, ResponseReminderSetting, Counter
<1>4. CASE t = UserID
  BY <1>0, <1>4 DEF Answer, Codes, BaseOffset, ReminderSetting, UserID, ProductInfo,
     GetCapabilities, ResponseUserID
<1>5. CASE t = ProductInfo
  BY <1>0, <1>5 DEF Answer, Codes, BaseOffset, ReminderSetting, UserID, ProductInfo,
     GetCapabilities, ResponseProductInfo
<1>6. CASE t = GetCapabilities
  BY <1>0, <1>6 DEF Answer, Codes, BaseOffset, ReminderSetting, UserID, ProductInfo,
     GetCapabilities, ResponseCapabilities
<1>7. QED BY <1>1, <1>2, <1>3, <1>4, <1>5, <1>6

\* The answers, byte by byte.
Answers(thing) ==
    LET a == Answer(thing) IN
    /\ a \in Seq(Bytes) /\ Len(a) >= 3 /\ a[2] \in Codes(thing)
    /\ thing = ReminderSetting => a[3] \in ReminderOptions
    /\ Heard(thing, a) = [thing |-> thing, value |-> kept[thing]]

\* The base offset comes back as it is kept.
LEMMA AnswerOffset == ASSUME KeptOK PROVE Answers(BaseOffset)
<1> DEFINE v == kept[BaseOffset]
           a == Answer(BaseOffset)
<1>1. v \in Words
  BY DEF KeptOK
<1>2. PICK lo \in Bytes, hi \in Bytes : Word(v) = <<lo, hi>> /\ lo + 256 * hi = v
  BY <1>1, WordIs
<1>3. a = <<1, 3, 1>> \o <<lo, hi>> /\ Codes(BaseOffset) = {3}
  BY <1>2, AnswerIs
<1> HIDE DEF v, a
<1>4. Len(a) = 5 /\ a[2] = 3 /\ a[4] = lo /\ a[5] = hi
  BY <1>3
<1>5. a \in Seq(Bytes)
  BY <1>3 DEF Bytes
<1>6. Parsed(BaseOffset, a) = ReadBaseOffset(a)
  <2>1. Len(a) >= 2 /\ a[2] = 3
    BY <1>4
  <2>2. QED BY <1>5, <2>1, ParsedIs DEF Settings
<1>7. ReadBaseOffset(a) = v
  BY <1>2, <1>4 DEF ReadBaseOffset, Taken, Uint16, At
<1>8. v # Nothing /\ v # Panic
  BY <1>1, NoValue DEF Words
<1>9. Heard(BaseOffset, a) = [thing |-> BaseOffset, value |-> v]
  BY <1>6, <1>7, <1>8 DEF Heard, MemoryPositions, BaseOffset, MemoryPosition1
<1>10. QED BY <1>3, <1>4, <1>5, <1>9 DEF Answers, a, v, BaseOffset, ReminderSetting

\* So does a memory position, stored or not,
LEMMA AnswerMemory == ASSUME KeptOK, NEW t \in MemoryPositions PROVE Answers(t)
<1> DEFINE v == kept[t]
           a == Answer(t)
<1>1. v \in Words \cup {Nothing}
  BY DEF KeptOK
<1>2. t \in 137..140 /\ t \in Settings /\ t # BaseOffset /\ t # ReminderSetting
  BY DEF MemoryPositions, MemoryPosition1, Settings, BaseOffset, ReminderSetting
<1>3. Codes(t) = {5, 7}
  BY AnswerIs
<1>4. a = IF v = Nothing THEN <<1, 5, 0>> \o <<255, 255, 255, 255>>
          ELSE <<1, 7, 1>> \o Word(v) \o <<93, 23, 246, 5>>
  BY AnswerIs
<1> HIDE DEF v, a
<1>5. CASE v = Nothing
  <2>1. a = <<1, 5, 0>> \o <<255, 255, 255, 255>>
    BY <1>4, <1>5
  <2>2. Len(a) = 7 /\ a[2] = 5 /\ a[3] = 0
    BY <2>1
  <2>3. a \in Seq(Bytes)
    BY <2>1 DEF Bytes
  <2>4. Parsed(t, a) = ReadMemoryUnset(a)
    <3>1. Len(a) >= 2 /\ a[2] = 5
      BY <2>2
    <3>2. QED BY <1>2, <2>3, <3>1, ParsedIs
  <2>5. ReadMemoryUnset(a) = TRUE
    BY <2>2 DEF ReadMemoryUnset, Taken, At
  <2>6. TRUE # Nothing /\ TRUE # Panic
    BY NothingAssumption
  <2>7. Heard(t, a) = [thing |-> t, value |-> v]
    BY <1>5, <2>2, <2>4, <2>5, <2>6 DEF Heard, ResponseMemoryUnset
  <2>8. QED BY <1>2, <1>3, <2>2, <2>3, <2>7 DEF Answers, a, v
<1>6. CASE v # Nothing
  <2>0. v \in Words
    BY <1>1, <1>6
  <2>1. PICK lo \in Bytes, hi \in Bytes : Word(v) = <<lo, hi>> /\ lo + 256 * hi = v
    BY <2>0, WordIs
  <2>2. a = <<1, 7, 1>> \o <<lo, hi>> \o <<93, 23, 246, 5>>
    BY <1>4, <1>6, <2>1
  <2>3. Len(a) = 9 /\ a[2] = 7 /\ a[4] = lo /\ a[5] = hi
    BY <2>2
  <2>4. a \in Seq(Bytes)
    BY <2>2 DEF Bytes
  <2>5. Parsed(t, a) = ReadMemoryPosition(a)
    <3>1. Len(a) >= 2 /\ a[2] = 7
      BY <2>3
    <3>2. QED BY <1>2, <2>4, <3>1, ParsedIs
  <2>6. ReadMemoryPosition(a) = v
    BY <2>1, <2>3 DEF ReadMemoryPosition, Taken, Uint16, At
  <2>7. v # Nothing /\ v # Panic
    BY <2>0, NoValue DEF Words
  <2>8. Heard(t, a) = [thing |-> t, value |-> v]
    BY <2>3, <2>5, <2>6, <2>7 DEF Heard, ResponseMemoryUnset
  <2>9. QED BY <1>2, <1>3, <2>3, <2>4, <2>8 DEF Answers, a, v
<1>7. QED BY <1>5, <1>6

\* the reminders,
LEMMA AnswerReminder == ASSUME KeptOK PROVE Answers(ReminderSetting)
<1> DEFINE t == ReminderSetting
           v == kept[t]
           a == Answer(t)
<1>1. /\ v \in Reminders /\ v.ActiveOption \in 56..59 /\ v.Option \in [1..3 -> IntervalsOf]
      /\ v = [ActiveOption |-> v.ActiveOption, Option |-> v.Option]
  BY DEF KeptOK, Reminders, ReminderOptions, ReminderOff, Presets
<1>2. Codes(t) = {11} /\
      a = <<1, 11, v.ActiveOption,
            v.Option[1].Sitting, v.Option[1].Standing, v.Option[2].Sitting,
            v.Option[2].Standing, v.Option[3].Sitting, v.Option[3].Standing>>
            \o <<93, 23, 246, 5>>
  BY AnswerIs
<1>3. \A p \in 1..3 : /\ v.Option[p].Sitting \in Bytes /\ v.Option[p].Standing \in Bytes
                      /\ v.Option[p] = [Sitting |-> v.Option[p].Sitting,
                                        Standing |-> v.Option[p].Standing]
  BY <1>1 DEF IntervalsOf
<1>0. t = 136 /\ t \in Settings /\ t \notin MemoryPositions
  BY DEF ReminderSetting, Settings, MemoryPositions, MemoryPosition1
<1> HIDE DEF t, v, a
<1>4. /\ Len(a) = 13 /\ a[2] = 11 /\ a[3] = v.ActiveOption
      /\ \A p \in 1..3 : /\ a[2 * p + 2] = v.Option[p].Sitting
                         /\ a[2 * p + 3] = v.Option[p].Standing
  BY <1>2
<1>5. a \in Seq(Bytes)
  <2>1. v.ActiveOption \in Bytes /\ {1, 11, 93, 23, 246, 5} \subseteq Bytes
    BY <1>1 DEF Bytes
  <2>2. QED BY <1>2, <1>3, <2>1
<1>6. Parsed(t, a) = parseReminder(a)
  <2>1. Len(a) >= 2 /\ a[2] = 11
    BY <1>4
  <2>2. QED BY <1>0, <1>5, <2>1, ParsedIs
<1>7. parseReminder(a) = v
  <2>1. \A p \in 1..3 : [Sitting |-> At(a, 2 * p + 1), Standing |-> At(a, 2 * p + 2)] = v.Option[p]
    <3> TAKE p \in 1..3
    <3>1. (2 * p + 1) + 1 = 2 * p + 2 /\ (2 * p + 2) + 1 = 2 * p + 3
      OBVIOUS
    <3>2. QED BY <1>3, <1>4, <3>1 DEF At
  <2>2. [p \in 1..3 |-> [Sitting |-> At(a, 2 * p + 1), Standing |-> At(a, 2 * p + 2)]] = v.Option
    BY <1>1, <2>1
  <2>3. At(a, 2) = v.ActiveOption
    BY <1>4 DEF At
  <2>4. ~(Len(a) < 9)
    BY <1>4
  <2>5. QED BY <1>1, <2>2, <2>3, <2>4 DEF parseReminder, Taken, Presets
<1>8. v # Nothing /\ v # Panic
  BY <1>1, NoValue
<1>9. Heard(t, a) = [thing |-> t, value |-> v]
  BY <1>0, <1>6, <1>7, <1>8 DEF Heard
<1>10. a[2] \in Codes(t) /\ a[3] \in ReminderOptions /\ Len(a) >= 3
  BY <1>1, <1>2, <1>4 DEF ReminderOptions, ReminderOff
<1>11. QED BY <1>5, <1>9, <1>10 DEF Answers, a, v, t

\* the user's bytes,
LEMMA AnswerUser == ASSUME KeptOK PROVE Answers(UserID)
<1> DEFINE t == UserID
           v == kept[t]
           a == Answer(t)
           head == <<1, 17>>
<1>1. v \in Seq(Bytes) /\ v # <<>>
  BY DEF KeptOK
<1>2. Codes(t) = {17} /\ a = head \o v
  BY AnswerIs
<1>0. t = 134 /\ t \in Settings /\ t \notin MemoryPositions /\ t # ReminderSetting
  BY DEF ReminderSetting, UserID, Settings, MemoryPositions, MemoryPosition1
<1>3. head \in Seq(Bytes) /\ Len(head) = 2 /\ head[2] = 17
  BY DEF Bytes
<1> HIDE DEF t, v, a, head
<1>4. Len(v) \in Nat /\ Len(v) >= 1
  BY <1>1, LenProperties, EmptySeq
<1>5. /\ a \in Seq(Bytes) /\ Len(a) = 2 + Len(v)
      /\ \A i \in 1..(2 + Len(v)) : a[i] = IF i <= 2 THEN head[i] ELSE v[i - 2]
  <2>1. /\ head \o v \in Seq(Bytes) /\ Len(head \o v) = Len(head) + Len(v)
        /\ \A i \in 1..(Len(head) + Len(v)) :
             (head \o v)[i] = IF i <= Len(head) THEN head[i] ELSE v[i - Len(head)]
    BY <1>1, <1>3, Behind
  <2>2. QED BY <1>2, <1>3, <2>1
<1>6. Len(a) >= 3 /\ a[2] = 17
  BY <1>3, <1>4, <1>5
<1>7. Parsed(t, a) = ReadUserID(a)
  <2>1. Len(a) >= 2 /\ a[2] = 17
    BY <1>6, LenProperties
  <2>2. QED BY <1>0, <1>5, <2>1, ParsedIs
<1>8. ReadUserID(a) = [i \in 1..Len(a) - 2 |-> At(a, i + 1)]
  BY <1>4, <1>5 DEF ReadUserID, Taken
<1>9. [i \in 1..Len(a) - 2 |-> At(a, i + 1)] = v
  <2> DEFINE f == [i \in 1..Len(v) |-> At(a, i + 1)]
  <2>1. \A i \in 1..Len(v) : At(a, i + 1) = v[i]
    BY <1>4, <1>5 DEF At
  <2>2. \A i \in 1..Len(v) : v[i] \in Bytes
    BY <1>1, ElementOfSeq
  <2>3. f \in [1..Len(v) -> Bytes]
    BY <2>1, <2>2
  <2>4. f \in Seq(Bytes) /\ Len(f) = Len(v)
    BY <1>4, <2>3, IsSequence
  <2>5. \A i \in 1..Len(v) : f[i] = v[i]
    BY <2>1
  <2> HIDE DEF f
  <2>6. f = v
    BY <1>1, <2>4, <2>5, SeqEqual
  <2>7. Len(a) - 2 = Len(v)
    BY <1>4, <1>5
  <2>8. QED BY <2>6, <2>7 DEF f
<1>10. v # Nothing /\ v # Panic
  BY <1>1, NoValue
<1>11. Heard(t, a) = [thing |-> t, value |-> v]
  BY <1>0, <1>7, <1>8, <1>9, <1>10 DEF Heard
<1>12. QED BY <1>0, <1>2, <1>5, <1>6, <1>11 DEF Answers, a, v, t

\* the product,
LEMMA AnswerProduct == ASSUME KeptOK PROVE Answers(ProductInfo)
<1> DEFINE t == ProductInfo
           v == kept[t]
           a == Answer(t)
           code == v.ProductCode
           hard == v.HardwareVersion
           soft == v.SoftwareVersion
<1>1. /\ v \in Products /\ code \in Words /\ hard \in Bytes /\ soft \in Bytes
      /\ v = [ProductCode |-> code, HardwareVersion |-> hard, SoftwareVersion |-> soft]
  BY DEF KeptOK, Products
<1>2. PICK lo \in Bytes, hi \in Bytes : Word(code) = <<lo, hi>> /\ lo + 256 * hi = code
  BY <1>1, WordIs
<1>3. Codes(t) = {6} /\ a = <<1, 6, 32>> \o Word(code) \o <<hard, soft, 13>>
  BY AnswerIs
<1>0. t = 8 /\ t \in Settings /\ t \notin MemoryPositions /\ t # ReminderSetting
  BY DEF ReminderSetting, ProductInfo, Settings, MemoryPositions, MemoryPosition1
<1> HIDE DEF t, v, a, code, hard, soft
<1>4. a = <<1, 6, 32>> \o <<lo, hi>> \o <<hard, soft, 13>>
  BY <1>2, <1>3
<1>5. /\ Len(a) = 8 /\ a[2] = 6 /\ a[4] = lo /\ a[5] = hi /\ a[6] = hard /\ a[7] = soft
  BY <1>4
<1>6. a \in Seq(Bytes)
  BY <1>1, <1>4 DEF Bytes
<1>7. Parsed(t, a) = ReadProductInfo(a)
  <2>1. Len(a) >= 2 /\ a[2] = 6
    BY <1>5
  <2>2. QED BY <1>0, <1>6, <2>1, ParsedIs
<1>8. ReadProductInfo(a) = v
  BY <1>1, <1>2, <1>5 DEF ReadProductInfo, Taken, At, Uint16
<1>9. v # Nothing /\ v # Panic
  BY <1>1, NoValue
<1>10. Heard(t, a) = [thing |-> t, value |-> v]
  BY <1>0, <1>7, <1>8, <1>9 DEF Heard
<1>11. QED BY <1>0, <1>3, <1>5, <1>6, <1>10 DEF Answers, a, v, t

\* A byte of three bits of a number and five flags gives them back.
LEMMA FlagsComeBack ==
    ASSUME NEW m \in 0..7, NEW p \in 0..1, NEW q \in 0..1, NEW r \in 0..1, NEW s \in 0..1,
           NEW u \in 0..1, NEW b, b = m + 8 * p + 16 * q + 32 * r + 64 * s + 128 * u
    PROVE  /\ b \in Bytes /\ (b % 8) = m
           /\ ((b \div 8) % 2) = p /\ ((b \div 16) % 2) = q /\ ((b \div 32) % 2) = r
           /\ ((b \div 64) % 2) = s /\ ((b \div 128) % 2) = u
BY DEF Bytes

\* and what the desk can do.
LEMMA AnswerAbilities == ASSUME KeptOK PROVE Answers(GetCapabilities)
<1> DEFINE t == GetCapabilities
           v == kept[t]
           a == Answer(t)
           m == v.MemSize
           Bit(set) == IF set THEN 1 ELSE 0
           p == Bit(v.AutoUp)
           q == Bit(v.AutoDown)
           r == Bit(v.BleAllow)
           s == Bit(v.HasDisplay)
           u == Bit(v.HasLight)
           b == m + FlagByte(8, v.AutoUp) + FlagByte(16, v.AutoDown) + FlagByte(32, v.BleAllow)
                + FlagByte(64, v.HasDisplay) + FlagByte(128, v.HasLight)
<1>1. /\ v \in Abilities /\ m \in 0..7
      /\ {v.AutoUp, v.AutoDown, v.BleAllow, v.HasDisplay, v.HasLight} \subseteq BOOLEAN
      /\ v = [MemSize |-> m, AutoUp |-> v.AutoUp, AutoDown |-> v.AutoDown,
              BleAllow |-> v.BleAllow, HasDisplay |-> v.HasDisplay, HasLight |-> v.HasLight]
  BY DEF KeptOK, Abilities
<1>2. Codes(t) = {2} /\ a = <<1, 2, b, 0>>
  BY AnswerIs
<1>0. t = 128 /\ t \in Settings /\ t \notin MemoryPositions /\ t # ReminderSetting
  BY DEF ReminderSetting, GetCapabilities, Settings, MemoryPositions, MemoryPosition1
<1>3. b = m + 8 * p + 16 * q + 32 * r + 64 * s + 128 * u
  BY <1>1 DEF FlagByte
<1>4. {p, q, r, s, u} \subseteq 0..1
  OBVIOUS
<1>5. /\ (v.AutoUp <=> p = 1) /\ (v.AutoDown <=> q = 1) /\ (v.BleAllow <=> r = 1)
      /\ (v.HasDisplay <=> s = 1) /\ (v.HasLight <=> u = 1)
  OBVIOUS
<1> HIDE DEF t, v, a, m, p, q, r, s, u, b, Bit
<1>6. /\ b \in Bytes /\ (b % 8) = m
      /\ ((b \div 8) % 2) = p /\ ((b \div 16) % 2) = q /\ ((b \div 32) % 2) = r
      /\ ((b \div 64) % 2) = s /\ ((b \div 128) % 2) = u
  BY <1>1, <1>3, <1>4, FlagsComeBack
<1>7. Len(a) = 4 /\ a[2] = 2 /\ a[3] = b
  BY <1>2
<1>8. a \in Seq(Bytes)
  BY <1>2, <1>6 DEF Bytes
<1>9. Parsed(t, a) = ReadCapabilities(a)
  <2>1. Len(a) >= 2 /\ a[2] = 2
    BY <1>7
  <2>2. QED BY <1>0, <1>8, <2>1, ParsedIs
<1>10. /\ HasFlag(b, AutoUp) = v.AutoUp /\ HasFlag(b, AutoDown) = v.AutoDown
       /\ HasFlag(b, BleAllow) = v.BleAllow /\ HasFlag(b, Display) = v.HasDisplay
       /\ HasFlag(b, Light) = v.HasLight
  BY <1>1, <1>5, <1>6 DEF HasFlag, AutoUp, AutoDown, BleAllow, Display, Light
<1>11. ReadCapabilities(a) = v
  <2>1. At(a, 2) = b
    BY <1>7 DEF At
  <2>2. ~(Len(a) < 4) /\ ~(Len(a) < 3)
    BY <1>7
  <2>3. QED BY <1>1, <1>6, <1>10, <2>1, <2>2 DEF ReadCapabilities, Taken
<1>12. v # Nothing /\ v # Panic
  BY <1>1, NoValue
<1>13. Heard(t, a) = [thing |-> t, value |-> v]
  BY <1>0, <1>9, <1>11, <1>12 DEF Heard
<1>14. QED BY <1>0, <1>2, <1>7, <1>8, <1>13 DEF Answers, a, v, t

\* deskpanel.go:43-175.  Whatever the desk keeps, the parser of its answer
\* takes the answer and makes of it what the desk keeps.
THEOREM AnswerComesBack ==
    ASSUME KeptOK, NEW t \in Settings PROVE Answers(t)
BY AnswerOffset, AnswerMemory, AnswerReminder, AnswerUser, AnswerProduct, AnswerAbilities
   DEF Settings

\* Cut short, a frame is not taken, or read beyond its end, or read as a whole.
LEMMA TakenCut ==
    ASSUME NEW data, NEW cut, NEW guard \in Nat, NEW reads \in Nat, NEW v, NEW w,
           Len(data) \in Nat, Len(cut) \in Nat, Len(cut) <= Len(data), Len(cut) >= reads => v = w
    PROVE  Taken(cut, guard, reads, w) \in {Nothing, Panic, Taken(data, guard, reads, v)}
BY DEF Taken

\* The first bytes of a frame.
First(data, n) == [i \in 1..n |-> data[i]]

\* They are bytes too, and the same.
LEMMA FirstIs ==
    ASSUME NEW data \in Seq(Bytes), NEW n \in Nat, n < Len(data)
    PROVE  /\ First(data, n) \in Seq(Bytes) /\ Len(First(data, n)) = n
           /\ \A i \in 1..n : First(data, n)[i] = data[i]
<1>1. Len(data) \in Nat /\ \A i \in 1..Len(data) : data[i] \in Bytes
  BY LenProperties, ElementOfSeq
<1>2. First(data, n) \in [1..n -> Bytes]
  BY <1>1 DEF First
<1>3. First(data, n) \in Seq(Bytes) /\ Len(First(data, n)) = n
  BY <1>2, IsSequence
<1>4. QED BY <1>3 DEF First

\* Each thing has a parser, memory positions have two.
LEMMA ParserIs ==
    ASSUME NEW thing \in Settings, NEW data, Frame(thing, data), Len(data) >= 2
    PROVE  \/ thing = BaseOffset /\ data[2] = 3 /\ Parsed(thing, data) = ReadBaseOffset(data)
           \/ thing \in MemoryPositions /\ data[2] = 5
                /\ Parsed(thing, data) = ReadMemoryUnset(data)
           \/ thing \in MemoryPositions /\ data[2] = 7
                /\ Parsed(thing, data) = ReadMemoryPosition(data)
           \/ thing = ReminderSetting /\ data[2] = 11
                /\ Parsed(thing, data) = parseReminder(data)
           \/ thing = UserID /\ data[2] = 17 /\ Parsed(thing, data) = ReadUserID(data)
           \/ thing = ProductInfo /\ data[2] = 6 /\ Parsed(thing, data) = ReadProductInfo(data)
           \/ thing = GetCapabilities /\ data[2] = 2
                /\ Parsed(thing, data) = ReadCapabilities(data)
<1>1. data \in Seq(Bytes) /\ data[2] \in Codes(thing)
  BY DEF Frame
<1>2. /\ data[2] = 2 => Parsed(thing, data) = ReadCapabilities(data)
      /\ data[2] = 3 => Parsed(thing, data) = ReadBaseOffset(data)
      /\ data[2] = 5 => Parsed(thing, data) = ReadMemoryUnset(data)
      /\ data[2] = 6 => Parsed(thing, data) = ReadProductInfo(data)
      /\ data[2] = 7 => Parsed(thing, data) = ReadMemoryPosition(data)
      /\ data[2] = 11 => Parsed(thing, data) = parseReminder(data)
      /\ data[2] = 17 => Parsed(thing, data) = ReadUserID(data)
  BY <1>1, ParsedIs
<1>3. /\ thing = BaseOffset => Codes(thing) = {3}
      /\ thing \in MemoryPositions => Codes(thing) = {5, 7}
      /\ thing = ReminderSetting => Codes(thing) = {11}
      /\ thing = UserID => Codes(thing) = {17}
      /\ thing = ProductInfo => Codes(thing) = {6}
      /\ thing = GetCapabilities => Codes(thing) = {2}
  BY AnswerIs
<1>4. QED BY <1>1, <1>2, <1>3 DEF Settings

\* What an index within a frame reads.
LEMMA ByteAt ==
    ASSUME NEW data \in Seq(Bytes), NEW i \in Nat, i < Len(data)
    PROVE  At(data, i) \in Bytes
<1>1. Len(data) \in Nat /\ i + 1 \in 1..Len(data)
  BY LenProperties
<1>2. QED BY <1>1, ElementOfSeq DEF At

\* What goes into sixteen bits is a word.
LEMMA InWords ==
    ASSUME NEW u \in Int, 0 <= u, u < 65536 PROVE u \in Words
<1>1. (u % 65536) = u
  BY Whole
<1>2. (u % 65536) \in Words
  BY DEF Words
<1>3. QED BY <1>1, <1>2

\* Two bytes of a frame are a word.
LEMMA WordAt ==
    ASSUME NEW data \in Seq(Bytes), NEW i \in Nat, i + 1 < Len(data)
    PROVE  Uint16(data, i) \in Words /\ Uint16(data, i) \in Int
<1> DEFINE x == At(data, i)
           y == At(data, i + 1)
<1>1. Len(data) \in Nat
  BY LenProperties
<1>2. x \in Bytes
  BY <1>1, ByteAt
<1>3. y \in Bytes
  BY <1>1, ByteAt
<1>4. Uint16(data, i) = x + 256 * y
  BY DEF Uint16
<1> HIDE DEF x, y
<1>5. /\ x \in Int /\ 0 <= x /\ x <= 255
      /\ y \in Int /\ 0 <= y /\ y <= 255
  BY <1>2, <1>3 DEF Bytes
<1> DEFINE u == Uint16(data, i)
<1>6. u = x + 256 * y
  BY <1>4
<1> HIDE DEF u
<1>7. u \in Int /\ 0 <= u /\ u < 65536
  BY <1>5, <1>6
<1>8. u \in Words
  BY <1>7, InWords
<1>9. QED BY <1>7, <1>8 DEF u

\* What is read of a frame is never nil, and never a panic but for two lengths.
LEMMA ValueIs ==
    ASSUME NEW thing \in Settings, NEW data, Frame(thing, data), Len(data) >= 2
    PROVE  /\ Parsed(thing, data) = Panic =>
                \/ thing \in MemoryPositions /\ Len(data) = 4
                \/ thing = ProductInfo /\ Len(data) = 6
           /\ thing = ReminderSetting => Parsed(thing, data) \in Reminders \cup {Nothing}
           /\ thing = UserID =>
                Parsed(thing, data) \in Seq(Bytes) /\ Parsed(thing, data) # <<>>
<1>1. data \in Seq(Bytes) /\ Len(data) \in Nat /\ \A i \in 1..Len(data) : data[i] \in Bytes
  BY LenProperties, ElementOfSeq DEF Frame
<1>0. Len(data) \in Nat
  BY <1>1
<1>2. Nothing # Panic /\ TRUE # Panic
  BY NothingAssumption
<1>3. CASE thing = BaseOffset /\ Parsed(thing, data) = ReadBaseOffset(data)
  <2>1. Len(data) >= 5 => Uint16(data, 3) \in Int
    <3>1. SUFFICES ASSUME Len(data) >= 5 PROVE Uint16(data, 3) \in Int
      OBVIOUS
    <3>2. QED BY <1>1, <3>1, WordAt
  <2>2. Parsed(thing, data) # Panic
    BY <1>2, <1>3, <2>1, NoValue DEF ReadBaseOffset, Taken
  <2>3. QED BY <1>3, <2>2 DEF BaseOffset, ReminderSetting, UserID
<1>4. CASE thing \in MemoryPositions /\ Parsed(thing, data) = ReadMemoryUnset(data)
  <2>1. Parsed(thing, data) # Panic
    BY <1>2, <1>4 DEF ReadMemoryUnset, Taken
  <2>2. QED BY <1>4, <2>1 DEF MemoryPositions, MemoryPosition1, ReminderSetting, UserID
<1>5. CASE thing \in MemoryPositions /\ Parsed(thing, data) = ReadMemoryPosition(data)
  <2>1. Len(data) >= 5 => Uint16(data, 3) \in Int
    <3>1. SUFFICES ASSUME Len(data) >= 5 PROVE Uint16(data, 3) \in Int
      OBVIOUS
    <3>2. QED BY <1>1, <3>1, WordAt
  <2>2. Parsed(thing, data) = Panic => Len(data) = 4
    <3>1. /\ Len(data) < 4 => Parsed(thing, data) = Nothing
          /\ Len(data) >= 5 => Parsed(thing, data) = Uint16(data, 3)
      BY <1>1, <1>5 DEF ReadMemoryPosition, Taken
    <3>2. Uint16(data, 3) \in Int => Uint16(data, 3) # Panic
      BY NoValue
    <3>3. Parsed(thing, data) = Panic => ~(Len(data) < 4) /\ ~(Len(data) >= 5)
      BY <1>2, <2>1, <3>1, <3>2
    <3>4. \A n \in Nat : ~(n < 4) /\ ~(n >= 5) => n = 4
      OBVIOUS
    <3>5. QED BY <1>0, <3>3, <3>4
  <2>3. QED BY <1>5, <2>2 DEF MemoryPositions, MemoryPosition1, ReminderSetting, UserID
<1>6. CASE thing = ReminderSetting /\ Parsed(thing, data) = parseReminder(data)
  <2>1. ASSUME Len(data) >= 9 PROVE Parsed(thing, data) \in Reminders
    <3> DEFINE option == [p \in 1..3 |-> [Sitting  |-> At(data, 2 * p + 1),
                                          Standing |-> At(data, 2 * p + 2)]]
    <3>1. \A p \in 1..3 : At(data, 2 * p + 1) \in Bytes /\ At(data, 2 * p + 2) \in Bytes
      BY <1>1, <2>1 DEF At
    <3>2. option \in [1..3 -> IntervalsOf]
      BY <3>1 DEF IntervalsOf
    <3>3. At(data, 2) \in ReminderOptions
      BY <1>6, <2>1 DEF Frame, At
    <3>4. Parsed(thing, data) = [ActiveOption |-> At(data, 2), Option |-> option]
      BY <1>1, <1>6, <2>1 DEF parseReminder, Taken, Presets
    <3> HIDE DEF option
    <3>5. QED BY <3>2, <3>3, <3>4 DEF Reminders, Presets
  <2>2. Len(data) < 9 => Parsed(thing, data) = Nothing
    BY <1>6 DEF parseReminder, Taken
  <2>3. Parsed(thing, data) \in Reminders \cup {Nothing}
    BY <1>1, <2>1, <2>2
  <2>4. QED BY <1>2, <1>6, <2>3, NoValue DEF ReminderSetting, UserID
<1>7. CASE thing = UserID /\ Parsed(thing, data) = ReadUserID(data)
  <2> DEFINE k == Len(data) - 2
             f == [i \in 1..k |-> At(data, i + 1)]
  <2>1. k \in Nat /\ k >= 1 /\ Parsed(thing, data) = f
    BY <1>1, <1>7 DEF Frame, ReadUserID, Taken
  <2>2. f \in [1..k -> Bytes]
    BY <1>1 DEF At
  <2> HIDE DEF k
  <2>3. f \in Seq(Bytes) /\ Len(f) = k
    BY <2>1, <2>2, IsSequence
  <2> HIDE DEF f
  <2>4. f # <<>>
    BY <2>1, <2>3, EmptySeq
  <2>5. Parsed(thing, data) # Panic
    BY <2>1, <2>3, NoValue
  <2>6. QED BY <1>7, <2>1, <2>3, <2>4, <2>5 DEF UserID, ReminderSetting
<1>8. CASE thing = ProductInfo /\ Parsed(thing, data) = ReadProductInfo(data)
  <2> DEFINE v == [ProductCode |-> Uint16(data, 3), HardwareVersion |-> At(data, 5),
                   SoftwareVersion |-> At(data, 6)]
  <2>1. Len(data) >= 7 => v \in Products
    <3>1. SUFFICES ASSUME Len(data) >= 7 PROVE v \in Products
      OBVIOUS
    <3>2. Uint16(data, 3) \in Words
      BY <1>1, <3>1, WordAt
    <3>3. At(data, 5) \in Bytes
      BY <1>1, <3>1, ByteAt
    <3>4. At(data, 6) \in Bytes
      BY <1>1, <3>1, ByteAt
    <3>5. QED BY <3>2, <3>3, <3>4 DEF Products
  <2>2. Parsed(thing, data) = Taken(data, 6, 7, v)
    BY <1>8 DEF ReadProductInfo
  <2> HIDE DEF v
  <2>3. Parsed(thing, data) = Panic => Len(data) = 6
    <3>1. /\ Len(data) < 6 => Parsed(thing, data) = Nothing
          /\ Len(data) >= 7 => Parsed(thing, data) = v
      BY <1>1, <2>2 DEF Taken
    <3>2. v \in Products => v # Panic
      BY NoValue
    <3>3. Parsed(thing, data) = Panic => ~(Len(data) < 6) /\ ~(Len(data) >= 7)
      BY <1>2, <2>1, <3>1, <3>2
    <3>4. \A n \in Nat : ~(n < 6) /\ ~(n >= 7) => n = 6
      OBVIOUS
    <3>5. QED BY <1>0, <3>3, <3>4
  <2>4. QED BY <1>8, <2>3 DEF ProductInfo, UserID, ReminderSetting
<1>9. CASE thing = GetCapabilities /\ Parsed(thing, data) = ReadCapabilities(data)
  <2> DEFINE b == At(data, 2)
             v == [MemSize |-> b % 8, AutoUp |-> HasFlag(b, AutoUp),
                   AutoDown |-> HasFlag(b, AutoDown), BleAllow |-> HasFlag(b, BleAllow),
                   HasDisplay |-> HasFlag(b, Display), HasLight |-> HasFlag(b, Light)]
  <2>1. Len(data) >= 4 => v \in Abilities
    <3>1. SUFFICES ASSUME Len(data) >= 4 PROVE v \in Abilities
      OBVIOUS
    <3>0. b \in Bytes
      BY <1>1, <3>1, ByteAt
    <3> HIDE DEF b
    <3>2. b \in Int
      BY <3>0 DEF Bytes
    <3>3. (b % 8) \in 0..7
      BY <3>2
    <3>4. QED BY <3>3 DEF Abilities, HasFlag
  <2>2. Parsed(thing, data) = Taken(data, 4, 3, v)
    BY <1>9 DEF ReadCapabilities
  <2> HIDE DEF v
  <2>3. Parsed(thing, data) # Panic
    BY <1>1, <1>2, <2>1, <2>2, NoValue DEF Taken
  <2>4. QED BY <1>9, <2>3 DEF GetCapabilities, UserID, ReminderSetting
<1>10. QED BY <1>3, <1>4, <1>5, <1>6, <1>7, <1>8, <1>9, ParserIs

\* deskpanel.go:43-175.  A frame cut short tells nothing, or what it told whole.
LEMMA CutHeard ==
    ASSUME NEW thing \in Settings, thing # UserID, NEW data, Frame(thing, data),
           NEW n \in Nat, n < Len(data)
    PROVE  /\ Frame(thing, First(data, n))
           /\ Heard(thing, First(data, n)) \in {Nothing, Heard(thing, data)}
<1> DEFINE cut == First(data, n)
<1>1. data \in Seq(Bytes)
  BY DEF Frame
<1>2. cut \in Seq(Bytes) /\ Len(cut) = n /\ \A i \in 1..n : cut[i] = data[i]
  BY <1>1, FirstIs
<1>3. Len(data) \in Nat
  BY <1>1, LenProperties
<1> HIDE DEF cut
<1>4. n >= 2 => cut[2] = data[2]
  BY <1>2
<1>5. n >= 3 => cut[3] = data[3]
  BY <1>2
<1>6. Frame(thing, cut)
  BY <1>2, <1>3, <1>4, <1>5 DEF Frame
<1>7. CASE n < 2
  <2>1. thing # ReferenceOutput /\ thing # ControlError
    BY DEF Settings, MemoryPositions, ReferenceOutput, ControlError, ProductInfo,
       GetCapabilities, BaseOffset, UserID, ReminderSetting, MemoryPosition1
  <2>2. Parsed(thing, cut) = Nothing
    BY <1>2, <1>7, <2>1 DEF Parsed
  <2>3. QED BY <1>6, <2>2 DEF Heard, cut
<1>8. CASE n >= 2
  <2> DEFINE p == Parsed(thing, cut)
             q == Parsed(thing, data)
  <2>0. Len(cut) >= 2 /\ Len(data) >= 2
    BY <1>2, <1>3, <1>8
  <2>1. /\ data[2] = 2 => q = ReadCapabilities(data)
        /\ data[2] = 3 => q = ReadBaseOffset(data)
        /\ data[2] = 5 => q = ReadMemoryUnset(data)
        /\ data[2] = 6 => q = ReadProductInfo(data)
        /\ data[2] = 7 => q = ReadMemoryPosition(data)
        /\ data[2] = 11 => q = parseReminder(data)
    BY <1>1, <2>0, ParsedIs
  <2>2. /\ cut[2] = 2 => p = ReadCapabilities(cut)
        /\ cut[2] = 3 => p = ReadBaseOffset(cut)
        /\ cut[2] = 5 => p = ReadMemoryUnset(cut)
        /\ cut[2] = 6 => p = ReadProductInfo(cut)
        /\ cut[2] = 7 => p = ReadMemoryPosition(cut)
        /\ cut[2] = 11 => p = parseReminder(cut)
    BY <1>2, <2>0, ParsedIs
  <2>3. data[2] \in {2, 3, 5, 6, 7, 11}
    <3>1. /\ thing = BaseOffset => Codes(thing) = {3}
          /\ thing \in MemoryPositions => Codes(thing) = {5, 7}
          /\ thing = ReminderSetting => Codes(thing) = {11}
          /\ thing = ProductInfo => Codes(thing) = {6}
          /\ thing = GetCapabilities => Codes(thing) = {2}
      BY AnswerIs
    <3>2. QED BY <2>0, <3>1 DEF Frame, Settings
  <2> HIDE DEF p, q
  <2>4. p \in {Nothing, Panic, q}
    <3>0. Len(cut) \in Nat /\ Len(cut) <= Len(data)
      BY <1>2, <1>3
    <3>1. \A i \in Nat : i < Len(cut) => At(cut, i) = At(data, i)
      BY <1>2 DEF At
    <3>2. CASE data[2] = 2
      <4>1. Len(cut) >= 3 => At(cut, 2) = At(data, 2)
        BY <3>0, <3>1
      <4>2. QED BY <1>3, <1>4, <1>8, <2>1, <2>2, <3>0, <3>2, <4>1, TakenCut DEF ReadCapabilities
    <3>3. CASE data[2] = 3
      <4>1. Len(cut) >= 5 => Uint16(cut, 3) = Uint16(data, 3)
        BY <3>0, <3>1 DEF Uint16
      <4>2. QED BY <1>3, <1>4, <1>8, <2>1, <2>2, <3>0, <3>3, <4>1, TakenCut DEF ReadBaseOffset
    <3>4. CASE data[2] = 5
      <4> DEFINE Made(d) == IF At(d, 2) = 0 THEN TRUE ELSE Nothing
      <4>0. Len(cut) >= 3 => At(cut, 2) = At(data, 2)
        BY <3>0, <3>1
      <4>1. Len(cut) >= 3 => Made(cut) = Made(data)
        BY <4>0
      <4>2. ReadMemoryUnset(cut) = Taken(cut, 3, 3, Made(cut))
            /\ ReadMemoryUnset(data) = Taken(data, 3, 3, Made(data))
        BY DEF ReadMemoryUnset
      <4> HIDE DEF Made
      <4>3. QED BY <1>3, <1>4, <1>8, <2>1, <2>2, <3>0, <3>4, <4>1, <4>2, TakenCut
    <3>5. CASE data[2] = 6
      <4>1. Len(cut) >= 7 => /\ Uint16(cut, 3) = Uint16(data, 3)
                             /\ At(cut, 5) = At(data, 5) /\ At(cut, 6) = At(data, 6)
        BY <3>0, <3>1 DEF Uint16
      <4>2. QED BY <1>3, <1>4, <1>8, <2>1, <2>2, <3>0, <3>5, <4>1, TakenCut DEF ReadProductInfo
    <3>6. CASE data[2] = 7
      <4>1. Len(cut) >= 5 => Uint16(cut, 3) = Uint16(data, 3)
        BY <3>0, <3>1 DEF Uint16
      <4>2. QED
        BY <1>3, <1>4, <1>8, <2>1, <2>2, <3>0, <3>6, <4>1, TakenCut DEF ReadMemoryPosition
    <3>7. CASE data[2] = 11
      <4> DEFINE Made(d) ==
            [ActiveOption |-> At(d, 2),
             Option |-> [k \in 1..3 |-> [Sitting  |-> At(d, 2 * k + 1),
                                         Standing |-> At(d, 2 * k + 2)]]]
      <4>1. Len(cut) >= 9 => Made(cut) = Made(data)
        <5>1. SUFFICES ASSUME Len(cut) >= 9 PROVE Made(cut) = Made(data)
          OBVIOUS
        <5>2. At(cut, 2) = At(data, 2)
          BY <3>0, <3>1, <5>1
        <5>3. \A k \in 1..3 : At(cut, 2 * k + 1) = At(data, 2 * k + 1)
                               /\ At(cut, 2 * k + 2) = At(data, 2 * k + 2)
          BY <3>0, <3>1, <5>1
        <5>4. QED BY <5>2, <5>3
      <4>2. parseReminder(cut) = Taken(cut, 9, 9, Made(cut))
            /\ parseReminder(data) = Taken(data, 9, 9, Made(data))
        BY DEF parseReminder, Presets
      <4> HIDE DEF Made
      <4>3. QED BY <1>3, <1>4, <1>8, <2>1, <2>2, <3>0, <3>7, <4>1, <4>2, TakenCut
    <3>8. QED BY <2>3, <3>2, <3>3, <3>4, <3>5, <3>6, <3>7
  <2>5. Heard(thing, cut) \in {Nothing, Heard(thing, data)}
    BY <1>4, <1>8, <2>4 DEF Heard, p, q
  <2>6. QED BY <1>6, <2>5 DEF cut
<1>9. QED BY <1>7, <1>8

\* What goes out unasked is no answer, and no parser reads beyond its end.
LEMMA ReportedIs ==
    ASSUME NEW thing \in Reported, NEW data \in Seq(Bytes)
    PROVE  /\ thing \in Things /\ thing \notin Settings /\ thing \notin MemoryPositions
           /\ Frame(thing, data)
           /\ Parsed(thing, data) # Panic
<1>1. thing \in {1, 254}
  BY DEF Reported, ReferenceOutput, ControlError
<1>2. thing \in Things /\ thing \notin Settings /\ thing \notin MemoryPositions
      /\ thing # ReminderSetting /\ thing # UserID
  BY <1>1 DEF Things, Settings, MemoryPositions, ProductInfo, GetCapabilities, BaseOffset,
     UserID, ReminderSetting, MemoryPosition1
<1>3. Frame(thing, data)
  BY <1>2 DEF Frame
<1>4. Len(data) \in Nat
  BY LenProperties
<1>5. Nothing # Panic
  BY NothingAssumption
<1>6. CASE thing = ReferenceOutput
  <2> DEFINE word == Uint16(data, 2)
             low == word % 16
             speed == Int16(word - low)
             v == [Extension |-> Uint16(data, 0), Speed |-> speed, Flags |-> low]
  <2>1. Parsed(thing, data) = Taken(data, 4, 4, v)
    BY <1>6 DEF Parsed, ParseReading
  <2>2. ASSUME Len(data) >= 4 PROVE v \in Readings
    <3>1. Uint16(data, 0) \in Words
      BY <1>4, <2>2, WordAt
    <3>2. word \in Words
      BY <1>4, <2>2, WordAt
    <3> HIDE DEF word
    <3>3. word \in Int
      BY <3>2, Words16
    <3>4. low \in 0..15
      BY <3>3
    <3> HIDE DEF low
    <3>5. speed \in Int
      BY <3>3, <3>4 DEF Int16
    <3> HIDE DEF speed
    <3>6. QED BY <3>1, <3>4, <3>5 DEF Readings
  <2> HIDE DEF v
  <2>3. Parsed(thing, data) # Panic
    BY <1>4, <1>5, <2>1, <2>2, NoValue DEF Taken
  <2>4. QED BY <1>2, <1>3, <2>3
<1>7. CASE thing = ControlError
  <2>1. Parsed(thing, data) = IF Len(data) = 0 THEN 0 ELSE Taken(data, 3, 3, At(data, 2))
    BY <1>7 DEF Parsed, ReadAlarm, Cleared, Code, ReferenceOutput, ControlError
  <2>2. ASSUME Len(data) >= 3 PROVE At(data, 2) \in Int
    <3> DEFINE b == At(data, 2)
    <3>1. b \in Bytes
      BY <1>4, <2>2, ByteAt
    <3> HIDE DEF b
    <3>2. b \in Int
      BY <3>1 DEF Bytes
    <3>3. QED BY <3>2 DEF b
  <2>3. Parsed(thing, data) # Panic
    BY <1>4, <1>5, <2>1, <2>2, NoValue DEF Taken
  <2>4. QED BY <1>2, <1>3, <2>3
<1>8. QED BY <1>6, <1>7 DEF Reported

\* The desk's bytes of a word are the program's.
LEMMA WordPut ==
    ASSUME NEW n \in Words PROVE Word(n) = PutUint16(n) /\ PutUint16(n) \in Seq(Bytes)
<1>1. n \in Int /\ 0 <= n /\ n < 65536
  BY DEF Words
<1>2. n \div 256 = ((n \div 256) % 256)
  BY <1>1
<1>3. Word(n) = PutUint16(n)
  BY <1>2 DEF Word, PutUint16
<1>4. QED BY <1>1, <1>3, HeightComesBack

\* referenceoutput.go:60-84.  A report of a position and a speed that go into
\* their bits is read as it was sent.
Reading(height, speed, flags) == [Extension |-> height, Speed |-> speed, Flags |-> flags]
Report(height, speed, flags) ==
    Word(height) \o Word((IF speed < 0 THEN speed + 65536 ELSE speed) + flags)

\* A speed in sixteenths that goes into its bits.
SpeedFits(s) == -2048 <= s /\ s <= 2047

\* Such a report is bytes, and heard as it was sent.
LEMMA ReportHeard ==
    ASSUME NEW height \in Words, NEW s \in Int, SpeedFits(s), NEW flags \in 0..15
    PROVE  /\ Report(height, 16 * s, flags) \in Seq(Bytes)
           /\ Heard(ReferenceOutput, Report(height, 16 * s, flags))
                = [thing |-> ReferenceOutput, value |-> Reading(height, 16 * s, flags)]
<1> DEFINE both == SpeedWord(s, flags)
           data == Word(height) \o Word(both)
           value == [Extension |-> height, Speed |-> 16 * s, Flags |-> flags]
<1>1. /\ both = (IF 16 * s < 0 THEN 16 * s + 65536 ELSE 16 * s) + flags
      /\ both \in Int /\ 0 <= both /\ both < 65536
  BY DEF SpeedWord, SpeedFits
<1> HIDE DEF both
<1>2. both \in Words
  BY <1>1, InWords
<1>3. Word(height) = PutUint16(height) /\ PutUint16(height) \in Seq(Bytes)
  BY WordPut
<1>4. Word(both) = PutUint16(both) /\ PutUint16(both) \in Seq(Bytes)
  BY <1>2, WordPut
<1>5. data \in Seq(Bytes)
  BY <1>3, <1>4
<1>6. ParseReading(data) = value
  <2>1. SpeedWord(s, flags) \in Words
    BY <1>2 DEF both
  <2>2. ParseReading(ReportBytes(height, both)) = value
    BY <2>1, ReadingComesBack DEF both, SpeedFits
  <2>3. QED BY <1>3, <1>4, <2>2 DEF data, ReportBytes
<1>7. value \in Readings
  <2>1. 16 * s \in Int
    OBVIOUS
  <2>2. QED BY <2>1 DEF Readings
<1> HIDE DEF data, value
<1>8. Parsed(ReferenceOutput, data) = value
  BY <1>6 DEF Parsed
<1>9. value # Nothing /\ value # Panic
  BY <1>7, NoValue
<1>10. Heard(ReferenceOutput, data) = [thing |-> ReferenceOutput, value |-> value]
  BY <1>8, <1>9 DEF Heard, MemoryPositions, ReferenceOutput, MemoryPosition1
<1>11. data = Report(height, 16 * s, flags) /\ value = Reading(height, 16 * s, flags)
  BY <1>1 DEF data, value, Report, Reading
<1>12. QED BY <1>5, <1>10, <1>11

\* controlerror.go.  So is an alarm, or the end of one.
LEMMA AlarmHeard ==
    ASSUME NEW code \in {0, CodeInterrupted, CodeCollision}
    PROVE  LET data == IF code = 0 THEN <<>> ELSE <<1, 0, code>> IN
           /\ data \in Seq(Bytes)
           /\ Heard(ControlError, data) = [thing |-> ControlError, value |-> code]
<1> DEFINE data == IF code = 0 THEN <<>> ELSE <<1, 0, code>>
<1>1. code \in {0, 16, 59}
  BY DEF CodeInterrupted, CodeCollision
<1>2. data \in Seq(Bytes) /\ (code = 0 => Len(data) = 0)
      /\ (code # 0 => Len(data) = 3 /\ data[3] = code)
  <2>1. CASE code = 0
    BY <2>1
  <2>2. CASE code # 0
    BY <1>1, <2>2 DEF Bytes
  <2>3. QED BY <2>1, <2>2
<1> HIDE DEF data
<1>3. Parsed(ControlError, data) = code
  BY <1>2 DEF Parsed, ReadAlarm, Cleared, Code, Taken, At, ReferenceOutput, ControlError
<1>4. code # Nothing /\ code # Panic
  BY <1>1, NoValue
<1>5. Heard(ControlError, data) = [thing |-> ControlError, value |-> code]
  BY <1>3, <1>4 DEF Heard, MemoryPositions, ControlError, MemoryPosition1
<1>6. QED BY <1>2, <1>5 DEF data

-----------------------------------------------------------------------------
(* The steps *)

\* A question is an envelope without a payload.
LEMMA QuestionIs ==
    ASSUME NEW cmd \in Bytes
    PROVE  Envelope(cmd) \in Seq(Bytes) /\ Envelope(cmd)[2] = cmd
<1> DEFINE e == <<127, cmd, 0>>
<1>1. e \in Seq(Bytes) /\ e[2] = cmd
  BY DEF Bytes
<1>2. Envelope(cmd) = e
  BY DEF Envelope, EnvelopePrefix
<1> HIDE DEF e
<1>3. QED BY <1>1, <1>2

\* The code of a setting is a byte.
LEMMA SettingsAre == Settings \subseteq Bytes /\ MemoryPositions \subseteq Settings
BY DEF Settings, MemoryPositions, ProductInfo, GetCapabilities, BaseOffset, UserID,
   ReminderSetting, MemoryPosition1, Bytes

\* One preset, or the choice between them, replaced.
LEMMA PresetIs ==
    ASSUME NEW r \in Reminders, NEW p \in Presets, NEW x
    PROVE  applyPreset(r, p, x)
             = [ActiveOption |-> r.ActiveOption, Option |-> [r.Option EXCEPT ![p] = x]]
<1>1. r = [ActiveOption |-> r.ActiveOption, Option |-> r.Option]
  BY DEF Reminders
<1>2. QED BY <1>1 DEF applyPreset

\* The choice replaced, the presets stay.
LEMMA OptionIs ==
    ASSUME NEW r \in Reminders, NEW o
    PROVE  [r EXCEPT !.ActiveOption = o] = [ActiveOption |-> o, Option |-> r.Option]
BY DEF Reminders

\* What is valid, and made of numbers, is what a desk keeps.
LEMMA ValidReminder ==
    ASSUME NEW o, NEW f, DOMAIN f = 1..3, f = [p \in 1..3 |-> f[p]],
           \A p \in 1..3 : \E i, j \in Int : f[p] = Intervals(i, j),
           ReminderIsValid([ActiveOption |-> o, Option |-> f])
    PROVE  [ActiveOption |-> o, Option |-> f] \in Reminders
<1> DEFINE r == [ActiveOption |-> o, Option |-> f]
<1>1. r.ActiveOption = o /\ r.Option = f
  OBVIOUS
<1>2. o \in ReminderOptions /\ \A p \in 1..3 : {f[p].Sitting, f[p].Standing} \subseteq Bytes
  BY <1>1 DEF ReminderIsValid, Presets, Bytes
<1>3. \A p \in 1..3 : f[p] \in IntervalsOf
  <2> TAKE p \in 1..3
  <2>1. PICK i \in Int, j \in Int : f[p] = [Sitting |-> i, Standing |-> j]
    BY DEF Intervals
  <2>2. i \in Bytes /\ j \in Bytes
    BY <1>2, <2>1
  <2>3. QED BY <2>1, <2>2 DEF IntervalsOf
<1>4. f \in [1..3 -> IntervalsOf]
  BY <1>3
<1>5. QED BY <1>2, <1>4 DEF Reminders, Presets

\* The steps, with what can be said of their parameters.
Step ==
    \/ \E thing, value, part, envelope :
         /\ Packed(thing, value, part, envelope)
         /\ fresh /\ part # All => Rest(value, part)
         /\ Write(thing, value, part, envelope)
    \/ \E thing \in Settings, envelope \in Seq(Bytes) :
         envelope[2] = thing /\ Ask(thing, envelope)
    \/ WriteFails \/ Store \/ Reply \/ TakeAnswer \/ TakeReport \/ GiveUp
    \/ \E n \in 0..12 : Cut(n)
    \/ \E value \in Words : Press(MemoryPosition1, value)
    \/ \E value \in Reminders : Press(ReminderSetting, value)
    \/ \E value : \E thing \in Reported, data \in Seq(Bytes) :
         /\ Heard(thing, data) = [thing |-> thing, value |-> value]
         /\ Say(thing, value, data)

\* A base offset, or a memory position, is packed from any height.
LEMMA OffsetPacked ==
    ASSUME NEW h \in Int, WriteBaseOffset(h) PROVE Step
<1> DEFINE e == EnvelopeWithPayload(BaseOffset, PutUint16(h))
<1>1. e \in Seq(Bytes) /\ e[2] = BaseOffset /\ StoreView!Kept(BaseOffset, h, Stored(e))
  BY OffsetStored
<1>2. Write(BaseOffset, h, All, e)
  BY DEF WriteBaseOffset
<1> HIDE DEF e
<1>3. Packed(BaseOffset, h, All, e)
  <2>1. BaseOffset \in Writable /\ BaseOffset \notin MemoryPositions
        /\ BaseOffset # ReminderSetting /\ BaseOffset # UserID
    BY DEF Writable, TakesHeight, MemoryPositions, BaseOffset, ReminderSetting, UserID,
       MemoryPosition1
  <2>2. QED BY <1>1, <2>1 DEF Packed, All
<1>4. QED BY <1>2, <1>3 DEF Step

\* A memory position written or cleared is packed.
LEMMA MemoryPacked ==
    ASSUME NEW p \in Int, NEW h \in Int \cup {Nothing},
           WriteMemoryPosition([Position |-> p, Extension |-> h])
    PROVE  Step
<1> DEFINE m == [Position |-> p, Extension |-> h]
           e == MemoryEnvelope(m)
           thing == MemoryPosition1 + p - 1
<1>1. p \in 1..4
  BY DEF WriteMemoryPosition, MemoryIsValid
<1>2. e \in Seq(Bytes) /\ e[2] = thing /\ thing \in MemoryPositions
      /\ StoreView!Kept(thing, h, Stored(e))
  BY <1>1, MemoryStored
<1>3. Write(thing, h, All, e)
  BY DEF WriteMemoryPosition
<1> HIDE DEF e, thing
<1>4. Packed(thing, h, All, e)
  <2>1. thing \in Writable /\ thing # BaseOffset /\ thing # ReminderSetting /\ thing # UserID
    BY <1>2 DEF Writable, TakesHeight, MemoryPositions, BaseOffset, ReminderSetting, UserID,
       MemoryPosition1
  <2>2. QED BY <1>2, <2>1 DEF Packed, All
<1>5. QED BY <1>3, <1>4 DEF Step

\* So are reminders, and a user.
LEMMA ReminderPacked ==
    ASSUME NEW r \in Reminders, NEW part \in 0..4, fresh /\ part # All => Rest(r, part),
           WriteReminder(r, part)
    PROVE  Step
<1> DEFINE e == EnvelopeWithPayload(ReminderSetting, ReminderBytes(r))
<1>1. e \in Seq(Bytes) /\ e[2] = ReminderSetting /\ Stored(e) = r
  BY ReminderStored
<1>2. Write(ReminderSetting, r, part, e)
  BY DEF WriteReminder
<1> HIDE DEF e
<1>3. Packed(ReminderSetting, r, part, e)
  <2>1. ReminderSetting \in Writable /\ ReminderSetting \notin TakesHeight
        /\ ReminderSetting # UserID
    BY DEF Writable, TakesHeight, MemoryPositions, BaseOffset, ReminderSetting, UserID,
       MemoryPosition1
  <2>2. StoreView!Kept(ReminderSetting, r, Stored(e))
    BY <1>1, <2>1 DEF StoreView!Kept
  <2>3. QED BY <1>1, <2>1, <2>2 DEF Packed, TakesHeight
<1>4. QED BY <1>2, <1>3 DEF Step

\* So are the user's bytes.
LEMMA UserPacked ==
    ASSUME NEW user \in Seq(Bytes), user # <<>>, WriteUser(user) PROVE Step
<1> DEFINE e == EnvelopeWithPayload(UserID, user)
<1>1. e \in Seq(Bytes) /\ e[2] = UserID /\ Stored(e) = user
  BY UserStored
<1>2. Write(UserID, user, All, e)
  BY DEF WriteUser
<1> HIDE DEF e
<1>3. Packed(UserID, user, All, e)
  <2>1. UserID \in Writable /\ UserID \notin TakesHeight /\ UserID # ReminderSetting
    BY DEF Writable, TakesHeight, MemoryPositions, BaseOffset, ReminderSetting, UserID,
       MemoryPosition1
  <2>2. StoreView!Kept(UserID, user, Stored(e))
    BY <1>1, <2>1 DEF StoreView!Kept
  <2>3. QED BY <1>1, <2>1, <2>2 DEF Packed, TakesHeight, All
<1>4. QED BY <1>2, <1>3 DEF Step

\* desk.go:290-328.  An update of what was read changes one part of it.
LEMMA PresetPacked ==
    ASSUME IInv, NEW preset, NEW i \in Int, NEW j \in Int,
           WriteReminderPreset(preset, Intervals(i, j))
    PROVE  Step
<1> DEFINE old == told.value
           option == [old.Option EXCEPT ![preset] = Intervals(i, j)]
           r == [ActiveOption |-> old.ActiveOption, Option |-> option]
<1>1. preset \in Presets /\ Told(ReminderSetting)
      /\ WriteReminder(applyPreset(old, preset, Intervals(i, j)), preset)
  BY DEF WriteReminderPreset
<1>2. old \in Reminders /\ (fresh => old = kept[ReminderSetting])
  BY <1>1 DEF IInv, ToldOK, FreshOK, Told
<1>3. applyPreset(old, preset, Intervals(i, j)) = r
  BY <1>1, <1>2, PresetIs
<1>4. old.Option \in [1..3 -> IntervalsOf] /\ preset \in 1..3 /\ preset \in 0..4
      /\ preset # Active
  BY <1>1, <1>2 DEF Reminders, Presets, Active
<1> HIDE DEF old
<1>5. /\ DOMAIN option = 1..3 /\ option = [p \in 1..3 |-> option[p]]
      /\ option[preset] = Intervals(i, j)
      /\ \A p \in 1..3 \ {preset} : option[p] = old.Option[p]
  BY <1>4
<1> HIDE DEF option
<1>6. \A p \in 1..3 : \E a, b \in Int : option[p] = Intervals(a, b)
  <2> TAKE p \in 1..3
  <2>1. CASE p = preset
    BY <1>5, <2>1
  <2>2. CASE p # preset
    <3>1. option[p] \in IntervalsOf
      BY <1>4, <1>5, <2>2
    <3>2. PICK a \in Bytes, b \in Bytes : option[p] = [Sitting |-> a, Standing |-> b]
      BY <3>1 DEF IntervalsOf
    <3>3. a \in Int /\ b \in Int
      BY DEF Bytes
    <3>4. QED BY <3>2, <3>3 DEF Intervals
  <2>3. QED BY <2>1, <2>2
<1>7. WriteReminder(r, preset)
  BY <1>1, <1>3
<1>8. r \in Reminders
  <2>1. ReminderIsValid(r)
    BY <1>7 DEF WriteReminder
  <2>2. QED BY <1>5, <1>6, <2>1, ValidReminder
<1>9. fresh => Rest(r, preset)
  <2>1. SUFFICES ASSUME fresh PROVE Rest(r, preset)
    OBVIOUS
  <2>2. r.ActiveOption = old.ActiveOption /\ r.Option = option
    OBVIOUS
  <2>3. QED BY <1>2, <1>5, <2>1, <2>2 DEF Rest, Presets
<1> HIDE DEF r
<1>10. QED BY <1>4, <1>7, <1>8, <1>9, ReminderPacked

\* The reminders as told, with another choice between them.
LEMMA ActivePacked ==
    ASSUME IInv, NEW o, WriteActiveReminder(o) PROVE Step
<1> DEFINE old == told.value
           r == [ActiveOption |-> o, Option |-> old.Option]
<1>1. o \in ReminderOptions /\ Told(ReminderSetting)
      /\ WriteReminder([old EXCEPT !.ActiveOption = o], Active)
  BY DEF WriteActiveReminder
<1>2. old \in Reminders /\ (fresh => old = kept[ReminderSetting])
  BY <1>1 DEF IInv, ToldOK, FreshOK, Told
<1>3. [old EXCEPT !.ActiveOption = o] = r
  BY <1>2, OptionIs
<1>4. r \in Reminders
  BY <1>1, <1>2 DEF Reminders
<1>5. fresh => Rest(r, Active)
  BY <1>2 DEF Rest
<1>6. WriteReminder(r, Active)
  BY <1>1, <1>3
<1>7. Active \in 0..4
  BY DEF Active
<1> HIDE DEF r
<1>8. QED BY <1>4, <1>5, <1>6, <1>7, ReminderPacked

\* The user's bytes as told, with the owner's.
LEMMA OwnerPacked ==
    ASSUME IInv, TakeOwnership PROVE Step
<1>1. Told(UserID) /\ WriteUser(SetOwner(told.value, TRUE))
  BY DEF TakeOwnership
<1>2. told.value \in Seq(Bytes) /\ told.value # <<>>
  BY <1>1 DEF IInv, ToldOK, Told
<1> DEFINE owned == SetOwner(told.value, TRUE)
<1>3. owned \in Seq(Bytes) /\ Len(owned) = Len(told.value)
  BY <1>2, OwnerIsSet
<1> HIDE DEF owned
<1>4. owned # <<>>
  BY <1>2, <1>3, EmptySeq
<1>5. WriteUser(owned)
  BY <1>1 DEF owned
<1>6. QED BY <1>3, <1>4, <1>5, UserPacked

\* A question about a setting.
LEMMA AskIs ==
    ASSUME NEW thing \in Settings, Ask(thing, Envelope(thing)) PROVE Step
<1>1. Envelope(thing) \in Seq(Bytes) /\ Envelope(thing)[2] = thing
  BY SettingsAre, QuestionIs
<1>2. QED BY <1>1 DEF Step

\* A question about a memory position.
LEMMA AskMemoryIs ==
    ASSUME NEW p \in Int, AskMemoryPosition(p) PROVE Step
<1> DEFINE m == [Position |-> p, Extension |-> Nothing]
           thing == MemoryPosition1 + p - 1
<1>1. MemoryIsValid(m) /\ Ask(thing, Envelope(MemoryCommand(m)))
  BY DEF AskMemoryPosition
<1>2. p \in 1..4
  BY <1>1 DEF MemoryIsValid
<1>3. MemoryCommand(m) = thing /\ thing \in MemoryPositions
  BY <1>2 DEF MemoryCommand, MemoryPosition1, MemoryPositions
<1> HIDE DEF m, thing
<1>4. thing \in Settings
  BY <1>3, SettingsAre
<1>5. QED BY <1>1, <1>3, <1>4, AskIs

\* What the desk reports.
LEMMA ReportIs ==
    ASSUME NEW h \in Words, NEW s \in Int, SpeedFits(s),
           NEW f \in {0, FlagCollisionRecovery}, ReportPosition(h, 16 * s, f)
    PROVE  Step
<1> DEFINE data == Report(h, 16 * s, f)
           value == Reading(h, 16 * s, f)
<1>1. f \in 0..15
  BY DEF FlagCollisionRecovery
<1>2. /\ data \in Seq(Bytes)
      /\ Heard(ReferenceOutput, data) = [thing |-> ReferenceOutput, value |-> value]
  BY <1>1, ReportHeard
<1>3. Say(ReferenceOutput, value, data)
  BY DEF ReportPosition, Report, Reading
<1> HIDE DEF data, value
<1>4. \E v : \E thing \in Reported, d \in Seq(Bytes) :
        Heard(thing, d) = [thing |-> thing, value |-> v] /\ Say(thing, v, d)
  BY <1>2, <1>3 DEF Reported
<1>5. QED BY <1>4 DEF Step

\* An error reported at the error characteristic, or its end.
LEMMA AlarmIs ==
    ASSUME NEW code \in {0, CodeInterrupted, CodeCollision}, Alarm(code) PROVE Step
<1> DEFINE data == IF code = 0 THEN <<>> ELSE <<1, 0, code>>
<1>1. /\ data \in Seq(Bytes)
      /\ Heard(ControlError, data) = [thing |-> ControlError, value |-> code]
  BY AlarmHeard
<1>2. Say(ControlError, code, data)
  BY DEF Alarm
<1> HIDE DEF data
<1>3. \E v : \E thing \in Reported, d \in Seq(Bytes) :
        Heard(thing, d) = [thing |-> thing, value |-> v] /\ Say(thing, v, d)
  BY <1>1, <1>2 DEF Reported
<1>4. QED BY <1>3 DEF Step

\* Every action is one of the steps.
LEMMA StepIs ==
    ASSUME IInv, Next PROVE Step
<1>0. Heights \subseteq Int /\ Minutes \subseteq Int /\ Positions \subseteq Int
      /\ Speeds \subseteq {16 * n : n \in 0..2047}
  BY FramesAssumption DEF FramesAssumption
<1>1. ASSUME NEW h \in Heights \cup {-1}, WriteBaseOffset(h) PROVE Step
  <2>1. h \in Int
    BY <1>0
  <2>2. QED BY <1>1, <2>1, OffsetPacked
<1>2. ASSUME NEW h \in Heights \cup {-1}, NEW p \in Positions,
             WriteMemoryPosition([Position |-> p, Extension |-> h])
      PROVE  Step
  <2>1. h \in Int /\ p \in Int
    BY <1>0
  <2>2. QED BY <1>2, <2>1, MemoryPacked
<1>3. ASSUME NEW p \in Positions, UnsetMemoryPosition(p) PROVE Step
  <2>1. WriteMemoryPosition([Position |-> p, Extension |-> Nothing]) /\ p \in Int
    BY <1>0, <1>3 DEF UnsetMemoryPosition
  <2>2. QED BY <2>1, MemoryPacked
<1>4. ASSUME NEW p \in Positions, AskMemoryPosition(p) PROVE Step
  <2>1. p \in Int
    BY <1>0
  <2>2. QED BY <1>4, <2>1, AskMemoryIs
<1>5. ASSUME NEW i \in Minutes, NEW j \in Minutes, NEW p \in Presets,
             WriteReminderPreset(p, Intervals(i, j))
      PROVE  Step
  <2>1. i \in Int /\ j \in Int
    BY <1>0
  <2>2. QED BY <1>5, <2>1, PresetPacked
<1>6. ASSUME NEW i \in Minutes, NEW j \in Minutes, NEW o \in Options,
             WriteReminder([ActiveOption |-> o, Option |-> [p \in Presets |-> Intervals(i, j)]],
                           All)
      PROVE  Step
  <2> DEFINE option == [p \in 1..3 |-> Intervals(i, j)]
             r == [ActiveOption |-> o, Option |-> option]
  <2>1. WriteReminder(r, All)
    BY <1>6 DEF Presets
  <2>2. ReminderIsValid(r)
    BY <2>1 DEF WriteReminder
  <2>3. r \in Reminders
    <3>1. DOMAIN option = 1..3 /\ option = [p \in 1..3 |-> option[p]]
          /\ \A p \in 1..3 : option[p] = Intervals(i, j)
      OBVIOUS
    <3>0. i \in Int /\ j \in Int
      BY <1>0
    <3> HIDE DEF option
    <3>2. QED BY <2>2, <3>0, <3>1, ValidReminder
  <2> HIDE DEF r
  <2>4. QED BY <2>1, <2>3, ReminderPacked DEF All
<1>7. ASSUME NEW o \in Options, WriteActiveReminder(o) PROVE Step
  BY <1>7, ActivePacked
<1>8. CASE TakeOwnership
  BY <1>8, OwnerPacked
<1>9. CASE requestBaseOffset \/ requestReminder \/ requestUser \/ Capabilities \/ AskProductInfo
  BY <1>9, AskIs DEF requestBaseOffset, requestReminder, requestUser, Capabilities,
     AskProductInfo, Settings
<1>10. CASE WriteFails \/ Store \/ Reply \/ TakeAnswer \/ TakeReport \/ GiveUp
  BY <1>10 DEF Step
<1>11. ASSUME NEW n \in 0..12, Cut(n) PROVE Step
  BY <1>11 DEF Step
<1>12. ASSUME NEW h \in Heights \cap Words, Press(MemoryPosition1, h) PROVE Step
  BY <1>12 DEF Step
<1>13. ASSUME NEW o \in ReminderOptions,
              Press(ReminderSetting, [kept[ReminderSetting] EXCEPT !.ActiveOption = o])
       PROVE  Step
  <2> DEFINE r == [kept[ReminderSetting] EXCEPT !.ActiveOption = o]
  <2>1. kept[ReminderSetting] \in Reminders
    BY DEF IInv, KeptOK
  <2>2. r \in Reminders
    BY <2>1 DEF Reminders
  <2> HIDE DEF r
  <2>3. Press(ReminderSetting, r)
    BY <1>13 DEF r
  <2>4. QED BY <2>2, <2>3 DEF Step
<1>14. ASSUME NEW h \in Heights \cap Words, NEW s \in Speeds,
              NEW f \in {0, FlagCollisionRecovery},
              ReportPosition(h, s, f) \/ ReportPosition(h, -s, f)
       PROVE  Step
  <2>1. PICK n \in 0..2047 : s = 16 * n
    BY <1>0
  <2>2. h \in Words
    OBVIOUS
  <2>3. CASE ReportPosition(h, s, f)
    <3>1. n \in Int /\ SpeedFits(n)
      BY DEF SpeedFits
    <3>2. ReportPosition(h, 16 * n, f)
      BY <2>1, <2>3
    <3>3. QED BY <2>2, <3>1, <3>2, ReportIs
  <2>4. CASE ReportPosition(h, -s, f)
    <3> DEFINE k == -n
    <3>1. k \in Int /\ SpeedFits(k) /\ 16 * k = -s
      BY <2>1 DEF SpeedFits
    <3> HIDE DEF k
    <3>2. ReportPosition(h, 16 * k, f)
      BY <2>4, <3>1
    <3>3. QED BY <2>2, <3>1, <3>2, ReportIs
  <2>5. QED BY <1>14, <2>3, <2>4
<1>15. ASSUME NEW c \in {0, CodeInterrupted, CodeCollision}, Alarm(c) PROVE Step
  BY <1>15, AlarmIs
<1>16. CASE \E h \in Heights \cup {-1} :
              \/ WriteBaseOffset(h)
              \/ \E p \in Positions : WriteMemoryPosition([Position |-> p, Extension |-> h])
  BY <1>1, <1>2, <1>16
<1>17. CASE \E p \in Positions : UnsetMemoryPosition(p) \/ AskMemoryPosition(p)
  BY <1>3, <1>4, <1>17
<1>18. CASE \E i, j \in Minutes :
              \/ \E p \in Presets : WriteReminderPreset(p, Intervals(i, j))
              \/ \E o \in Options :
                   WriteReminder([ActiveOption |-> o,
                                  Option |-> [p \in Presets |-> Intervals(i, j)]], All)
  BY <1>5, <1>6, <1>18
<1>19. CASE \E h \in Heights \cap Words, s \in Speeds, f \in {0, FlagCollisionRecovery} :
              ReportPosition(h, s, f) \/ ReportPosition(h, -s, f)
  <2>1. PICK h \in Heights \cap Words, s \in Speeds, f \in {0, FlagCollisionRecovery} :
          ReportPosition(h, s, f) \/ ReportPosition(h, -s, f)
    BY <1>19
  <2>2. QED BY <1>14, <2>1
<1>20. CASE \E o \in Options : WriteActiveReminder(o)
  BY <1>7, <1>20
<1>21. CASE \E h \in Heights \cap Words : Press(MemoryPosition1, h)
  BY <1>12, <1>21
<1>22. CASE \E o \in ReminderOptions :
              Press(ReminderSetting, [kept[ReminderSetting] EXCEPT !.ActiveOption = o])
  BY <1>13, <1>22
<1>23. CASE \E c \in {0, CodeInterrupted, CodeCollision} : Alarm(c)
  BY <1>15, <1>23
<1>24. CASE \E n \in 0..12 : Cut(n)
  BY <1>11, <1>24
<1>25. QED BY <1>8, <1>9, <1>10, <1>16, <1>17, <1>18, <1>19, <1>20, <1>21, <1>22, <1>23, <1>24
           DEF Next

-----------------------------------------------------------------------------
(* The invariant is kept *)

\* Nothing is none of the records that say otherwise.
LEMMA MeansSomething ==
    ASSUME NEW thing, NEW value, NEW part, NEW envelope, Packed(thing, value, part, envelope)
    PROVE  /\ thing \in Things /\ envelope # Nothing
           /\ [thing |-> thing, value |-> value] # Nothing
           /\ [thing |-> thing, value |-> value, part |-> part] # Nothing
<1>1. thing \in Things /\ thing \in Writable /\ part \in 0..4 /\ envelope \in Seq(Bytes)
  <2>1. Writable \subseteq Things
    BY DEF Writable, TakesHeight, Things, Settings
  <2>2. QED BY <2>1 DEF Packed
<1>2. value \in Value \cup {Nothing}
  BY <1>1 DEF Packed, Writable, TakesHeight, Value
<1>3. [thing |-> thing, value |-> value] \in [thing : Things, value : Value \cup {Nothing}]
  BY <1>1, <1>2
<1>4. [thing |-> thing, value |-> value, part |-> part]
        \in [thing : Things, value : Value \cup {Nothing}, part : 0..4]
  BY <1>1, <1>2
<1>5. QED BY <1>1, <1>3, <1>4, NoValue, NothingAssumption

\* A frame is not the absence of one,
LEMMA FrameIsSomething ==
    ASSUME NEW thing \in Things, NEW data \in Seq(Bytes)
    PROVE  [thing |-> thing, data |-> data] # Nothing
<1>1. [thing |-> thing, data |-> data] \in [thing : Things, data : Seq(Bytes)]
  OBVIOUS
<1>2. QED BY <1>1, NothingAssumption

\* nor is what the desk answers.
LEMMA AnswerIsSomething ==
    ASSUME KeptOK, NEW t \in Settings PROVE [thing |-> t, value |-> kept[t]] # Nothing
<1>1. kept[t] \in Value \cup {Nothing} /\ t \in Things
  <2>1. Words \subseteq Int
    BY DEF Words
  <2>2. QED BY <2>1 DEF KeptOK, Settings, Things, Value
<1>2. [thing |-> t, value |-> kept[t]] \in [thing : Things, value : Value \cup {Nothing}]
  BY <1>1
<1>3. QED BY <1>2, NothingAssumption

\* What may become of a thing.
Fits(thing, value) ==
    /\ thing \in Things \ {ProductInfo, GetCapabilities}
    /\ thing = BaseOffset => value \in Words
    /\ thing \in MemoryPositions => value \in Words \cup {Nothing}
    /\ thing = ReminderSetting => value \in Reminders
    /\ thing = UserID => value \in Seq(Bytes) /\ value # <<>>

\* The desk keeps it, and the rest stays as it was.
LEMMA KeptPut ==
    ASSUME KeptOK, NEW t, NEW v, Fits(t, v), kept' = [kept EXCEPT ![t] = v]
    PROVE  KeptOK' /\ kept'[t] = v /\ \A u \in Things \ {t} : kept'[u] = kept[u]
<1>1. t \in Things /\ DOMAIN kept = Things
  BY DEF Fits, KeptOK
<1>2. DOMAIN kept' = Things /\ kept'[t] = v /\ \A u \in Things \ {t} : kept'[u] = kept[u]
  BY <1>1
<1>3. {BaseOffset, ReminderSetting, UserID, ProductInfo, GetCapabilities} \subseteq Things
      /\ MemoryPositions \subseteq Things
  BY DEF Things, Settings
<1>4. kept'[BaseOffset] \in Words
  BY <1>2, <1>3 DEF Fits, KeptOK
<1>5. \A u \in MemoryPositions : kept'[u] \in Words \cup {Nothing}
  BY <1>2, <1>3 DEF Fits, KeptOK
<1>6. kept'[ReminderSetting] \in Reminders
  BY <1>2, <1>3 DEF Fits, KeptOK
<1>7. kept'[UserID] \in Seq(Bytes) /\ kept'[UserID] # <<>>
  BY <1>2, <1>3 DEF Fits, KeptOK
<1>8. kept'[ProductInfo] \in Products
  BY <1>2, <1>3 DEF Fits, KeptOK
<1>9. kept'[GetCapabilities] \in Abilities
  BY <1>2, <1>3 DEF Fits, KeptOK
<1>10. QED BY <1>2, <1>4, <1>5, <1>6, <1>7, <1>8, <1>9 DEF KeptOK

\* What a desk makes of an envelope fits.
LEMMA StoredFits ==
    ASSUME NEW thing, NEW value, NEW part, NEW envelope, Packed(thing, value, part, envelope)
    PROVE  Fits(thing, Stored(envelope))
<1> DEFINE is == Stored(envelope)
<1>1. thing \in Things /\ thing # ProductInfo /\ thing # GetCapabilities
  <2>1. thing \in Writable
    BY DEF Packed
  <2>2. QED BY <2>1, MeansSomething DEF Writable, TakesHeight, MemoryPositions, ProductInfo,
     GetCapabilities, BaseOffset, UserID, ReminderSetting, MemoryPosition1
<1>2. StoreView!Kept(thing, value, is) /\ StoreView!Words = Words
  BY DEF Packed, StoreView!Words, Words
<1> HIDE DEF is
<1>3. thing \in TakesHeight => value \in Int \cup {Nothing}
  BY DEF Packed, TakesHeight
<1>4. thing = BaseOffset => value # Nothing
  BY NoValue DEF Packed
<1>5. thing \in TakesHeight => is \in Words \cup {Nothing}
  BY <1>2, <1>3 DEF StoreView!Kept
<1>6. thing = BaseOffset => is \in Words
  BY <1>2, <1>4 DEF StoreView!Kept, TakesHeight
<1>7. thing = ReminderSetting => is \in Reminders
  <2>1. ReminderSetting \notin TakesHeight
    BY DEF TakesHeight, MemoryPositions, BaseOffset, ReminderSetting, MemoryPosition1
  <2>2. QED BY <1>2, <2>1 DEF StoreView!Kept, Packed
<1>8. thing = UserID => is \in Seq(Bytes) /\ is # <<>>
  <2>1. UserID \notin TakesHeight
    BY DEF TakesHeight, MemoryPositions, BaseOffset, UserID, MemoryPosition1
  <2>2. QED BY <1>2, <2>1 DEF StoreView!Kept, Packed
<1>9. QED BY <1>1, <1>5, <1>6, <1>7, <1>8 DEF Fits, TakesHeight, is

\* The bound is kept.
LEMMA Counted ==
    ASSUME FlagsOK, Happens, {panicked', whole', fresh'} \subseteq BOOLEAN
    PROVE  FlagsOK'
<1>1. Events \in Nat
  BY FramesAssumption DEF FramesAssumption
<1>2. events' \in 0..Events
  BY <1>1 DEF FlagsOK, Happens
<1>3. QED BY <1>2 DEF FlagsOK

\* It holds at the start.
LEMMA Start == Init => IInv
<1> SUFFICES ASSUME Init PROVE IInv
  OBVIOUS
<1>1. KeptOK
  <2>1. PICK f \in Flags, owner \in {0, 1} :
         kept = [t \in Things |->
            CASE t = ProductInfo -> [ProductCode |-> 2073, HardwareVersion |-> 20,
                                     SoftwareVersion |-> 132]
              [] t = GetCapabilities ->
                   [MemSize |-> MemSize, AutoUp |-> f = AutoUp, AutoDown |-> f = AutoDown,
                    BleAllow |-> f = BleAllow, HasDisplay |-> f = Display,
                    HasLight |-> f = Light]
              [] t = UserID -> <<owner, 51, 251>>
              [] t = ReminderSetting -> [ActiveOption |-> ReminderOff, Option |-> Defaults]
              [] t = BaseOffset -> 6200
              [] OTHER -> Nothing]
    BY DEF Init
  <2>0. {BaseOffset, ReminderSetting, UserID, ProductInfo, GetCapabilities} \subseteq Things
        /\ MemoryPositions \subseteq Things /\ MemoryPositions = 137..140
    BY DEF Things, Settings, MemoryPositions, MemoryPosition1
  <2>2. DOMAIN kept = Things
    BY <2>1
  <2>3. kept[BaseOffset] = 6200
    BY <2>0, <2>1 DEF BaseOffset, ReminderSetting, UserID, ProductInfo, GetCapabilities
  <2>4. \A t \in MemoryPositions : kept[t] = Nothing
    BY <2>0, <2>1 DEF BaseOffset, ReminderSetting, UserID, ProductInfo, GetCapabilities
  <2>5. kept[ReminderSetting] = [ActiveOption |-> ReminderOff, Option |-> Defaults]
    BY <2>0, <2>1 DEF BaseOffset, ReminderSetting, UserID, ProductInfo, GetCapabilities
  <2>6. kept[UserID] = <<owner, 51, 251>>
    BY <2>0, <2>1 DEF BaseOffset, ReminderSetting, UserID, ProductInfo, GetCapabilities
  <2>7. kept[ProductInfo] = [ProductCode |-> 2073, HardwareVersion |-> 20,
                             SoftwareVersion |-> 132]
    BY <2>0, <2>1 DEF BaseOffset, ReminderSetting, UserID, ProductInfo, GetCapabilities
  <2>8. kept[GetCapabilities] =
          [MemSize |-> MemSize, AutoUp |-> f = AutoUp, AutoDown |-> f = AutoDown,
           BleAllow |-> f = BleAllow, HasDisplay |-> f = Display, HasLight |-> f = Light]
    BY <2>0, <2>1 DEF BaseOffset, ReminderSetting, UserID, ProductInfo, GetCapabilities
  <2>9. 6200 \in Words /\ 2073 \in Words
    <3>1. (6200 % 65536) \in Words /\ (2073 % 65536) \in Words
      BY DEF Words
    <3>2. QED BY <3>1
  <2>10. kept[ReminderSetting] \in Reminders
    <3>1. Defaults \in [1..3 -> IntervalsOf]
      BY DEF Defaults, Intervals, IntervalsOf, Bytes
    <3>2. QED BY <2>5, <3>1 DEF Reminders, ReminderOptions, ReminderOff, Presets
  <2>11. kept[UserID] \in Seq(Bytes) /\ kept[UserID] # <<>>
    BY <2>6 DEF Bytes
  <2>12. kept[ProductInfo] \in Products
    BY <2>7, <2>9 DEF Products, Bytes
  <2>13. kept[GetCapabilities] \in Abilities
    BY <2>8, FramesAssumption DEF Abilities, FramesAssumption
  <2>14. QED BY <2>2, <2>3, <2>4, <2>9, <2>10, <2>11, <2>12, <2>13 DEF KeptOK
<1>2. SentOK /\ FrameOK /\ ToldOK /\ WholeOK /\ FreshOK
  BY DEF Init, SentOK, FrameOK, ToldOK, WholeOK, FreshOK
<1>3. FlagsOK
  <2>1. Events \in Nat
    BY FramesAssumption DEF FramesAssumption
  <2>2. panicked = FALSE /\ whole = TRUE /\ fresh = TRUE /\ events = 0
    BY DEF Init
  <2>3. {panicked, whole, fresh} \subseteq BOOLEAN
    BY <2>2
  <2>4. events \in 0..Events
    BY <2>1, <2>2
  <2>5. QED BY <2>3, <2>4 DEF FlagsOK
<1>4. QED BY <1>1, <1>2, <1>3 DEF IInv

\* A write packed from what is meant keeps it,
LEMMA WriteKeeps ==
    ASSUME IInv, NEW thing, NEW value, NEW part, NEW envelope,
           Packed(thing, value, part, envelope), fresh /\ part # All => Rest(value, part),
           Write(thing, value, part, envelope)
    PROVE  IInv'
<1>1. /\ sent = Nothing /\ asked = Nothing /\ sent' = envelope
      /\ meant' = [thing |-> thing, value |-> value, part |-> part]
      /\ UNCHANGED <<kept, asked, frame, told, panicked, whole, fresh>>
  BY DEF Write
<1>2. KeptOK' /\ FrameOK' /\ ToldOK' /\ WholeOK'
  BY <1>1 DEF IInv, KeptOK, FrameOK, ToldOK, WholeOK
<1>3. SentOK'
  <2>1. envelope # Nothing /\ meant' # Nothing /\ envelope \in Seq(Bytes)
    BY <1>1, MeansSomething DEF Packed
  <2>2. /\ meant'.thing = thing /\ meant'.value = value /\ meant'.part = part
    BY <1>1
  <2>3. Packed(meant'.thing, meant'.value, meant'.part, sent')
    BY <1>1, <2>2
  <2>4. QED BY <1>1, <2>1, <2>2, <2>3 DEF IInv, SentOK
<1>4. FreshOK'
  BY <1>1 DEF IInv, FreshOK, Rest
<1>5. FlagsOK'
  <2>1. Happens
    BY DEF Write
  <2>2. {panicked', whole', fresh'} \subseteq BOOLEAN
    BY <1>1 DEF IInv, FlagsOK
  <2>3. QED BY <2>1, <2>2, Counted DEF IInv
<1>6. QED BY <1>2, <1>3, <1>4, <1>5 DEF IInv

\* a question,
LEMMA AskKeeps ==
    ASSUME IInv, NEW thing \in Settings, NEW envelope \in Seq(Bytes), envelope[2] = thing,
           Ask(thing, envelope)
    PROVE  IInv'
<1>1. /\ sent = Nothing /\ frame = Nothing /\ sent' = envelope /\ asked' = thing
      /\ told' = Nothing /\ whole' = TRUE /\ fresh' = TRUE
      /\ UNCHANGED <<kept, meant, frame, panicked, events>>
  BY DEF Ask
<1>2. thing # Nothing /\ envelope # Nothing
  <2>1. thing \in Int
    BY SettingsAre DEF Bytes
  <2>2. QED BY <2>1, NoValue
<1>3. KeptOK' /\ FrameOK' /\ ToldOK' /\ FlagsOK'
  BY <1>1 DEF IInv, KeptOK, FrameOK, ToldOK, FlagsOK
<1>4. SentOK' /\ WholeOK' /\ FreshOK'
  BY <1>1, <1>2 DEF IInv, SentOK, WholeOK, FreshOK
<1>5. QED BY <1>3, <1>4 DEF IInv

\* The write, or the question, is lost.
LEMMA FailsKeeps == ASSUME IInv, WriteFails PROVE IInv'
<1>1. /\ sent' = Nothing /\ meant' = Nothing /\ asked' = Nothing
      /\ UNCHANGED <<kept, frame, told, panicked, whole, fresh, events>>
  BY DEF WriteFails
<1>2. KeptOK' /\ FrameOK' /\ ToldOK' /\ FlagsOK'
  BY <1>1 DEF IInv, KeptOK, FrameOK, ToldOK, FlagsOK
<1>3. SentOK' /\ WholeOK' /\ FreshOK'
  BY <1>1 DEF IInv, SentOK, WholeOK, FreshOK
<1>4. QED BY <1>2, <1>3 DEF IInv

\* the desk taking the write,
LEMMA StoreKeeps == ASSUME IInv, Store PROVE IInv'
<1>1. /\ sent # Nothing /\ asked = Nothing
      /\ kept' = IF Accepts(sent[2]) THEN [kept EXCEPT ![sent[2]] = Stored(sent)] ELSE kept
      /\ sent' = Nothing /\ meant' = Nothing /\ fresh' = FALSE
      /\ UNCHANGED <<asked, frame, told, panicked, whole, events>>
  BY DEF Store
<1>2. KeptOK'
  <2>1. CASE Accepts(sent[2])
    <3>1. Packed(meant.thing, meant.value, meant.part, sent) /\ sent[2] = meant.thing
      BY <1>1 DEF IInv, SentOK, Packed
    <3>2. Fits(sent[2], Stored(sent))
      BY <3>1, StoredFits
    <3>3. QED BY <1>1, <2>1, <3>2, KeptPut DEF IInv
  <2>2. CASE ~Accepts(sent[2])
    BY <1>1, <2>2 DEF IInv, KeptOK
  <2>3. QED BY <2>1, <2>2
<1>3. FrameOK' /\ ToldOK' /\ FlagsOK' /\ SentOK' /\ WholeOK' /\ FreshOK'
  BY <1>1 DEF IInv, FrameOK, ToldOK, FlagsOK, SentOK, WholeOK, FreshOK
<1>4. QED BY <1>2, <1>3 DEF IInv

\* its answer,
LEMMA ReplyKeeps == ASSUME IInv, Reply PROVE IInv'
<1> DEFINE t == asked
           a == Answer(t)
<1>1. /\ sent # Nothing /\ asked # Nothing /\ frame = Nothing
      /\ frame' = [thing |-> asked, data |-> Answer(sent[2])] /\ sent' = Nothing
      /\ UNCHANGED <<kept, meant, asked, told, panicked, whole, fresh, events>>
  BY DEF Reply
<1>2. sent[2] = asked /\ asked \in Settings /\ meant = Nothing
  BY <1>1 DEF IInv, SentOK
<1>3. Answers(t)
  BY <1>2, AnswerComesBack DEF IInv
<1>4. frame' = [thing |-> t, data |-> a] /\ a \in Seq(Bytes) /\ t \in Things
  BY <1>1, <1>2, <1>3 DEF Answers, Things
<1>5. Heard(t, a) = [thing |-> t, value |-> kept[t]] /\ Heard(t, a) # Nothing
  BY <1>2, <1>3, AnswerIsSomething DEF IInv, Answers
<1>6. Frame(t, a)
  BY <1>3 DEF Answers, Frame
<1> HIDE DEF a
<1>7. frame' # Nothing /\ frame'.thing = t /\ frame'.data = a
  BY <1>4, FrameIsSomething
<1>8. KeptOK' /\ ToldOK' /\ FlagsOK' /\ SentOK'
  BY <1>1, <1>2 DEF IInv, KeptOK, ToldOK, FlagsOK, SentOK
<1>9. FrameOK'
  BY <1>1, <1>4, <1>6, <1>7 DEF FrameOK
<1>10. WholeOK'
  BY <1>5, <1>7 DEF WholeOK
<1>11. FreshOK'
  <2>1. frame'.thing = ReminderSetting =>
          Heard(frame'.thing, frame'.data)
            = [thing |-> ReminderSetting, value |-> kept'[ReminderSetting]]
    BY <1>1, <1>5, <1>7
  <2>2. QED BY <1>1, <1>2, <2>1 DEF IInv, FreshOK
<1>12. QED BY <1>8, <1>9, <1>10, <1>11 DEF IInv

\* the answer cut short,
LEMMA CutKeeps == ASSUME IInv, NEW n \in 0..12, Cut(n) PROVE IInv'
<1> DEFINE t == frame.thing
           d == frame.data
           c == First(d, n)
<1>1. /\ frame # Nothing /\ n < Len(d) /\ t \in Settings \ {UserID}
      /\ frame' = [frame EXCEPT !.data = c] /\ whole' = FALSE
      /\ UNCHANGED <<kept, sent, meant, asked, told, panicked, fresh>>
  BY DEF Cut, First
<1>2. frame = [thing |-> t, data |-> d] /\ t \in Things /\ Frame(t, d)
      /\ (asked # Nothing => t = asked)
  BY <1>1 DEF IInv, FrameOK
<1>3. Frame(t, c) /\ Heard(t, c) \in {Nothing, Heard(t, d)}
  BY <1>1, <1>2, CutHeard
<1>4. frame' = [thing |-> t, data |-> c]
  BY <1>1, <1>2
<1> HIDE DEF c
<1>5. frame' # Nothing /\ frame'.thing = t /\ frame'.data = c
  BY <1>2, <1>3, <1>4, FrameIsSomething DEF Frame
<1>6. KeptOK' /\ ToldOK' /\ WholeOK'
  BY <1>1 DEF IInv, KeptOK, ToldOK, WholeOK
<1>7. SentOK'
  BY <1>1 DEF IInv, SentOK
<1>8. FrameOK'
  BY <1>1, <1>2, <1>3, <1>4, <1>5 DEF FrameOK
<1>9. FreshOK'
  BY <1>1, <1>3, <1>5 DEF IInv, FreshOK, Rest
<1>10. FlagsOK'
  <2>1. Happens
    BY DEF Cut
  <2>2. {panicked', whole', fresh'} \subseteq BOOLEAN
    BY <1>1 DEF IInv, FlagsOK
  <2>3. QED BY <2>1, <2>2, Counted DEF IInv
<1>11. QED BY <1>6, <1>7, <1>8, <1>9, <1>10 DEF IInv

\* a change at the desk itself,
LEMMA PressKeeps ==
    ASSUME IInv, NEW t, NEW v, Fits(t, v), Press(t, v) PROVE IInv'
<1>1. /\ kept' = [kept EXCEPT ![t] = v] /\ fresh' = FALSE
      /\ UNCHANGED <<sent, meant, asked, frame, told, panicked, whole>>
  BY DEF Press
<1>2. KeptOK'
  BY <1>1, KeptPut DEF IInv
<1>3. SentOK' /\ FrameOK' /\ ToldOK' /\ WholeOK' /\ FreshOK'
  BY <1>1 DEF IInv, SentOK, FrameOK, ToldOK, WholeOK, FreshOK
<1>4. FlagsOK'
  <2>1. Happens
    BY DEF Press
  <2>2. {panicked', whole', fresh'} \subseteq BOOLEAN
    BY <1>1 DEF IInv, FlagsOK
  <2>3. QED BY <2>1, <2>2, Counted DEF IInv
<1>5. QED BY <1>2, <1>3, <1>4 DEF IInv

\* a report,
LEMMA SayKeeps ==
    ASSUME IInv, NEW t \in Reported, NEW v, NEW data \in Seq(Bytes), Say(t, v, data)
    PROVE  IInv'
<1>1. /\ frame = Nothing /\ asked = Nothing /\ kept' = [kept EXCEPT ![t] = v]
      /\ frame' = [thing |-> t, data |-> data]
      /\ UNCHANGED <<sent, meant, asked, told, panicked, whole, fresh>>
  BY DEF Say
<1>2. t \in Things /\ t \notin Settings /\ Frame(t, data)
  BY ReportedIs
<1>3. Fits(t, v)
  BY <1>2 DEF Fits, Settings
<1>4. KeptOK' /\ kept'[ReminderSetting] = kept[ReminderSetting]
  <2>1. ReminderSetting \in Things \ {t}
    BY <1>2 DEF Things, Settings
  <2>2. QED BY <1>1, <1>3, <2>1, KeptPut DEF IInv
<1>5. frame' # Nothing /\ frame'.thing = t /\ frame'.data = data /\ t # ReminderSetting
  BY <1>1, <1>2, FrameIsSomething DEF Settings
<1>6. SentOK' /\ ToldOK' /\ WholeOK'
  BY <1>1 DEF IInv, SentOK, ToldOK, WholeOK
<1>7. FrameOK'
  BY <1>1, <1>2, <1>5 DEF FrameOK
<1>8. FreshOK'
  BY <1>1, <1>4, <1>5 DEF IInv, FreshOK, Rest
<1>9. FlagsOK'
  <2>1. Happens
    BY DEF Say
  <2>2. {panicked', whole', fresh'} \subseteq BOOLEAN
    BY <1>1 DEF IInv, FlagsOK
  <2>3. QED BY <2>1, <2>2, Counted DEF IInv
<1>10. QED BY <1>4, <1>6, <1>7, <1>8, <1>9 DEF IInv

\* the caller giving up,
LEMMA GiveUpKeeps == ASSUME IInv, GiveUp PROVE IInv'
<1>1. /\ asked' = Nothing /\ sent = Nothing
      /\ UNCHANGED <<kept, sent, meant, frame, told, panicked, whole, fresh, events>>
  BY DEF GiveUp
<1>2. QED BY <1>1 DEF IInv, KeptOK, SentOK, FrameOK, ToldOK, WholeOK, FreshOK, FlagsOK, Rest

\* What is heard is of the thing it is of, and of its type.
LEMMA HeardIs ==
    ASSUME NEW thing \in Things, NEW data, Frame(thing, data), Heard(thing, data) # Nothing
    PROVE  LET heard == Heard(thing, data) IN
           /\ heard.thing = thing
           /\ thing = ReminderSetting => heard.value \in Reminders
           /\ thing = UserID => heard.value \in Seq(Bytes) /\ heard.value # <<>>
<1> DEFINE read == Parsed(thing, data)
           heard == Heard(thing, data)
           value == IF thing \in MemoryPositions /\ data[2] = ResponseMemoryUnset
                    THEN Nothing ELSE read
<1>1. read \notin {Nothing, Panic} /\ heard = [thing |-> thing, value |-> value]
  BY DEF Heard
<1>2. heard.thing = thing /\ heard.value = value
  BY <1>1
<1>3. ASSUME thing \in {ReminderSetting, UserID} PROVE thing \in Settings /\ value = read
  BY <1>3 DEF Settings, MemoryPositions, ReminderSetting, UserID, MemoryPosition1
<1>4. ASSUME thing \in Settings PROVE Len(data) >= 2
  <2>0. Len(data) \in Nat
    BY LenProperties DEF Frame
  <2>1. thing # ReferenceOutput /\ thing # ControlError
    BY <1>4 DEF Settings, MemoryPositions, ReferenceOutput, ControlError, ProductInfo,
       GetCapabilities, BaseOffset, UserID, ReminderSetting, MemoryPosition1
  <2>2. ~(Len(data) < 2)
    BY <1>1, <2>1 DEF Parsed
  <2>3. QED BY <2>0, <2>2
<1> HIDE DEF value, heard
<1>5. thing = ReminderSetting => read \in Reminders
  BY <1>1, <1>3, <1>4, ValueIs
<1>6. thing = UserID => read \in Seq(Bytes) /\ read # <<>>
  BY <1>1, <1>3, <1>4, ValueIs
<1>7. QED BY <1>2, <1>3, <1>5, <1>6 DEF heard

\* and what comes in being read.
LEMMA TakeKeeps == ASSUME IInv, TakeAnswer \/ TakeReport PROVE IInv'
<1> DEFINE heard == Heard(frame.thing, frame.data)
<1>1. /\ frame # Nothing /\ frame' = Nothing
      /\ told' = IF heard # Nothing THEN heard ELSE told
      /\ panicked' = (Parsed(frame.thing, frame.data) = Panic)
      /\ UNCHANGED <<kept, sent, meant, whole, fresh, events>>
  BY DEF TakeAnswer, TakeReport, Takes
<1>2. frame.thing \in Things /\ Frame(frame.thing, frame.data)
      /\ (asked # Nothing => frame.thing = asked)
  BY <1>1 DEF IInv, FrameOK
<1>3. \/ asked' = IF heard # Nothing THEN Nothing ELSE asked
      \/ asked' = asked /\ frame.thing \in Reported
  BY DEF TakeAnswer, TakeReport
<1>4. asked \in Settings \cup {Nothing} /\ Reported \cap Settings = {}
  BY DEF IInv, SentOK, Reported, Settings, MemoryPositions, ReferenceOutput, ControlError,
     ProductInfo, GetCapabilities, BaseOffset, UserID, ReminderSetting, MemoryPosition1
<1>5. asked' \in {asked, Nothing} /\ (asked' # Nothing => heard = Nothing)
  BY <1>2, <1>3, <1>4
<1>6. heard # Nothing =>
        /\ heard.thing = frame.thing
        /\ frame.thing = ReminderSetting => heard.value \in Reminders
        /\ frame.thing = UserID => heard.value \in Seq(Bytes) /\ heard.value # <<>>
  BY <1>2, HeardIs
<1>7. sent # Nothing => asked = Nothing
  BY <1>1 DEF IInv, SentOK
<1>8. fresh /\ frame.thing = ReminderSetting =>
        heard \in {Nothing, [thing |-> ReminderSetting, value |-> kept[ReminderSetting]]}
  BY <1>1 DEF IInv, FreshOK
<1>9. asked # Nothing /\ sent = Nothing /\ whole => heard # Nothing
  BY DEF IInv, WholeOK
<1> HIDE DEF heard
<1>10. KeptOK' /\ FrameOK'
  BY <1>1 DEF IInv, KeptOK, FrameOK
<1>11. SentOK'
  BY <1>1, <1>4, <1>5, <1>7 DEF IInv, SentOK
<1>12. ToldOK'
  BY <1>1, <1>6 DEF IInv, ToldOK
<1>13. WholeOK'
  BY <1>1, <1>5, <1>9 DEF WholeOK
<1>14. FreshOK'
  BY <1>1, <1>6, <1>8 DEF IInv, FreshOK, Rest
<1>15. FlagsOK'
  BY <1>1 DEF IInv, FlagsOK
<1>16. QED BY <1>10, <1>11, <1>12, <1>13, <1>14, <1>15 DEF IInv

\* Every step keeps it.
LEMMA Keeps == IInv /\ [Next]_vars => IInv'
<1> SUFFICES ASSUME IInv, [Next]_vars PROVE IInv'
  OBVIOUS
<1>1. CASE UNCHANGED vars
  BY <1>1 DEF vars, IInv, KeptOK, SentOK, FrameOK, ToldOK, WholeOK, FreshOK, FlagsOK, Rest
<1>2. CASE Next
  <2>1. Step
    BY <1>2, StepIs
  <2>2. ASSUME NEW v \in Words PROVE Fits(MemoryPosition1, v)
    BY DEF Fits, Things, Settings, MemoryPositions, MemoryPosition1, BaseOffset, ReminderSetting,
       UserID, ProductInfo, GetCapabilities
  <2>3. ASSUME NEW v \in Reminders PROVE Fits(ReminderSetting, v)
    BY DEF Fits, Things, Settings, MemoryPositions, MemoryPosition1, BaseOffset, ReminderSetting,
       UserID, ProductInfo, GetCapabilities
  <2>4. QED BY <2>1, <2>2, <2>3, WriteKeeps, AskKeeps, FailsKeeps, StoreKeeps, ReplyKeeps,
     TakeKeeps, GiveUpKeeps, CutKeeps, PressKeeps, SayKeeps DEF Step
<1>3. QED BY <1>1, <1>2

\* It always holds.
LEMMA Inductive == Spec => []IInv
BY Start, Keeps, PTL DEF Spec

-----------------------------------------------------------------------------
(* What holds in every behaviour *)

\* Nothing but bytes goes out or comes in, and what the desk keeps is what it
\* can keep, whatever is written, pressed, cut or reported.
THEOREM TypeCorrect == Spec => []TypeOK
<1>1. IInv => TypeOK
  <2> SUFFICES ASSUME IInv PROVE TypeOK
    OBVIOUS
  <2>1. /\ DOMAIN kept = Things /\ kept[BaseOffset] \in Words
        /\ \A t \in MemoryPositions : kept[t] # Nothing => kept[t] \in Words
        /\ kept[ReminderSetting] \in Reminders
    BY DEF IInv, KeptOK
  <2>2. \A i \in DOMAIN kept[UserID] : kept[UserID][i] \in Bytes
    <3>1. kept[UserID] \in Seq(Bytes)
      BY DEF IInv, KeptOK
    <3>2. QED BY <3>1, ElementOfSeq, LenProperties
  <2>3. sent # Nothing => \A i \in 1..Len(sent) : sent[i] \in Bytes
    BY ElementOfSeq DEF IInv, SentOK
  <2>4. frame # Nothing => \A i \in 1..Len(frame.data) : frame.data[i] \in Bytes
    BY ElementOfSeq DEF IInv, FrameOK, Frame
  <2>5. asked # Nothing => asked \in Settings
    BY DEF IInv, SentOK
  <2>6. {panicked, whole, fresh} \subseteq BOOLEAN /\ events \in 0..Events
    BY DEF IInv, FlagsOK
  <2>7. QED BY <2>1, <2>2, <2>3, <2>4, <2>5, <2>6 DEF TypeOK
<1>2. QED BY <1>1, Inductive, PTL

\* deskpanel.go:43-175.  A question whose answer came in whole, and that no
\* write has lost, is not given up: the parser takes every frame a desk sends.
THEOREM WholeAnswersAreTaken == Spec => WholeAnswerTaken
<1>1. IInv /\ [Next]_vars => [GiveUp => ~whole]_vars
  <2> SUFFICES ASSUME IInv, GiveUp PROVE ~whole
    OBVIOUS
  <2>1. asked # Nothing /\ sent = Nothing /\ frame = Nothing
    BY DEF GiveUp
  <2>2. QED BY <2>1 DEF IInv, WholeOK
<1>2. QED BY <1>1, Inductive, PTL DEF Spec, WholeAnswerTaken

\* deskpanel.go:77-80,154-161.  Whatever frames come in short, the process is
\* only lost to a memory position of four bytes or a product of six.
THEOREM TwoGuardsAreShort == Spec => TwoGuardsShort
<1> DEFINE A == ~panicked /\ panicked' =>
                  \/ frame.thing \in MemoryPositions /\ Len(frame.data) = 4
                  \/ frame.thing = ProductInfo /\ Len(frame.data) = 6
<1>1. IInv /\ [Next]_vars => [A]_vars
  <2> SUFFICES ASSUME IInv, Next, ~panicked, panicked'
               PROVE  \/ frame.thing \in MemoryPositions /\ Len(frame.data) = 4
                      \/ frame.thing = ProductInfo /\ Len(frame.data) = 6
    OBVIOUS
  <2>1. Step
    BY StepIs
  <2>2. TakeAnswer \/ TakeReport
    BY <2>1 DEF Step, Write, Ask, WriteFails, Store, Reply, GiveUp, Cut, Press, Say
  <2>3. frame # Nothing /\ Parsed(frame.thing, frame.data) = Panic
    BY <2>2 DEF TakeAnswer, TakeReport, Takes
  <2>4. frame.thing \in Things /\ Frame(frame.thing, frame.data)
    BY <2>3 DEF IInv, FrameOK
  <2>5. frame.thing \in Settings
    BY <2>3, <2>4, ReportedIs DEF Things, Frame
  <2>6. Len(frame.data) >= 2
    <3>1. frame.thing # ReferenceOutput /\ frame.thing # ControlError
      BY <2>5 DEF Settings, MemoryPositions, ReferenceOutput, ControlError, ProductInfo,
         GetCapabilities, BaseOffset, UserID, ReminderSetting, MemoryPosition1
    <3>2. ~(Len(frame.data) < 2)
      BY <2>3, <3>1, NothingAssumption DEF Parsed
    <3>3. Len(frame.data) \in Nat
      BY <2>4, LenProperties DEF Frame
    <3>4. QED BY <3>2, <3>3
  <2>7. QED BY <2>3, <2>4, <2>5, <2>6, ValueIs
<1>2. QED BY <1>1, Inductive, PTL DEF Spec, TwoGuardsShort

\* desk.go:290-299,323-328.  An update of one preset, or of the choice between
\* them, leaves the rest of the reminders alone.
THEOREM UpdatesKeepTheRest == Spec => UpdateKeepsRest
<1> DEFINE A == Store /\ fresh /\ meant.part # All =>
                  LET was == kept[ReminderSetting]  is == kept'[ReminderSetting] IN
                  /\ meant.part # Active => is.ActiveOption = was.ActiveOption
                  /\ \A p \in Presets \ {meant.part} : is.Option[p] = was.Option[p]
<1>1. IInv /\ [Next]_vars => [A]_vars
  <2> SUFFICES ASSUME IInv, Store, fresh, meant.part # All PROVE A
    OBVIOUS
  <2>1. /\ sent # Nothing /\ asked = Nothing
        /\ kept' = IF Accepts(sent[2]) THEN [kept EXCEPT ![sent[2]] = Stored(sent)] ELSE kept
    BY DEF Store
  <2>2. Packed(meant.thing, meant.value, meant.part, sent) /\ meant # Nothing
    <3>1. Packed(meant.thing, meant.value, meant.part, sent)
          /\ meant = [thing |-> meant.thing, value |-> meant.value, part |-> meant.part]
      BY <2>1 DEF IInv, SentOK
    <3>2. QED BY <3>1, MeansSomething
  <2>3. sent[2] = ReminderSetting /\ Stored(sent) = meant.value
    <3>1. meant.thing = ReminderSetting /\ sent[2] = ReminderSetting
          /\ StoreView!Kept(ReminderSetting, meant.value, Stored(sent))
      BY <2>2 DEF Packed
    <3>2. ReminderSetting \notin TakesHeight
      BY DEF TakesHeight, MemoryPositions, BaseOffset, ReminderSetting, MemoryPosition1
    <3>3. QED BY <3>1, <3>2 DEF StoreView!Kept
  <2>4. Rest(meant.value, meant.part)
    BY <2>2 DEF IInv, FreshOK
  <2>5. kept'[ReminderSetting] \in {kept[ReminderSetting], meant.value}
    <3>1. ReminderSetting \in DOMAIN kept
      BY DEF IInv, KeptOK, Things, Settings
    <3>2. QED BY <2>1, <2>3, <3>1
  <2>6. QED BY <2>4, <2>5 DEF Rest
<1>2. QED BY <1>1, Inductive, PTL DEF Spec, UpdateKeepsRest

-----------------------------------------------------------------------------
(* The store without bytes *)

\* Each step of the bytes is a step of the store, or none of its.
Saying == IF frame = Nothing THEN Nothing ELSE Heard(frame.thing, frame.data)
Writing == IF meant = Nothing THEN Nothing ELSE [thing |-> meant.thing, value |-> meant.value]

\* The start is the store's.
LEMMA StartsAsStore == Init => StoreView!Init
BY DEF Init, StoreView!Init

\* A write asks the store to become something.
LEMMA WriteIs ==
    ASSUME IInv, NEW thing, NEW value, NEW part, NEW envelope,
           Packed(thing, value, part, envelope), Write(thing, value, part, envelope)
    PROVE  StoreView!Next
<1>1. /\ sent = Nothing /\ meant' = [thing |-> thing, value |-> value, part |-> part]
      /\ UNCHANGED <<kept, asked, frame, told>>
  BY DEF Write
<1>2. meant = Nothing /\ meant' # Nothing /\ thing \in Things
      /\ [thing |-> thing, value |-> value] # Nothing
  BY <1>1, MeansSomething DEF IInv, SentOK
<1>3. Writing = Nothing /\ Writing' = [thing |-> thing, value |-> value] /\ Saying' = Saying
  BY <1>1, <1>2 DEF Writing, Saying
<1>4. Writing' # Nothing /\ Writing'.value = value
  BY <1>2, <1>3
<1>5. StoreView!Write(thing, Writing'.value)
  BY <1>1, <1>3, <1>4 DEF StoreView!Write, StoreView!Said, Writing, Saying
<1>6. QED BY <1>2, <1>4, <1>5 DEF StoreView!Next, Writing

\* The desk taking it is the store's step.
LEMMA StoreIs == ASSUME IInv, Store PROVE StoreView!Next
<1>1. /\ sent # Nothing /\ asked = Nothing
      /\ kept' = IF Accepts(sent[2]) THEN [kept EXCEPT ![sent[2]] = Stored(sent)] ELSE kept
      /\ meant' = Nothing
      /\ UNCHANGED <<asked, frame, told>>
  BY DEF Store
<1>2. Packed(meant.thing, meant.value, meant.part, sent) /\ meant # Nothing
  <2>1. Packed(meant.thing, meant.value, meant.part, sent)
        /\ meant = [thing |-> meant.thing, value |-> meant.value, part |-> meant.part]
    BY <1>1 DEF IInv, SentOK
  <2>2. QED BY <2>1, MeansSomething
<1>3. Writing = [thing |-> meant.thing, value |-> meant.value] /\ Writing' = Nothing
      /\ Saying' = Saying
  BY <1>1, <1>2 DEF Writing, Saying
<1>4. Writing.thing = meant.thing /\ Writing.value = meant.value /\ Writing # Nothing
  BY <1>2, <1>3, MeansSomething
<1>5. CASE Accepts(sent[2])
  <2>1. sent[2] = meant.thing /\ meant.thing \in DOMAIN kept
        /\ StoreView!Kept(meant.thing, meant.value, Stored(sent))
    BY <1>2, MeansSomething DEF Packed, IInv, KeptOK
  <2>2. kept' = [kept EXCEPT ![meant.thing] = Stored(sent)]
    BY <1>1, <1>5, <2>1
  <2>3. kept'[meant.thing] = Stored(sent)
    BY <2>1, <2>2
  <2>4. StoreView!Keep(kept'[Writing.thing])
    BY <1>1, <1>3, <1>4, <2>1, <2>2, <2>3 DEF StoreView!Keep, Writing, Saying
  <2>5. QED BY <1>4, <2>4 DEF StoreView!Next, Writing
<1>6. CASE ~Accepts(sent[2])
  <2>1. StoreView!Drop
    BY <1>1, <1>3, <1>6 DEF StoreView!Drop, Writing, Saying
  <2>2. QED BY <2>1 DEF StoreView!Next
<1>7. QED BY <1>5, <1>6

\* A question changes nothing in the store.
LEMMA AskingIs ==
    ASSUME IInv, NEW thing \in Settings, NEW envelope, Ask(thing, envelope)
    PROVE  StoreView!Next
<1>1. StoreView!Ask(thing)
  BY DEF Ask, StoreView!Ask
<1>2. QED BY <1>1 DEF StoreView!Next, Things

\* A write that fails is withdrawn.
LEMMA FailsIs == ASSUME IInv, WriteFails PROVE StoreView!Next
<1>1. sent # Nothing /\ meant' = Nothing /\ asked' = Nothing /\ UNCHANGED <<kept, frame, told>>
  BY DEF WriteFails
<1>2. CASE asked = Nothing
  <2>1. StoreView!Drop
    BY <1>1, <1>2 DEF StoreView!Drop
  <2>2. QED BY <2>1 DEF StoreView!Next
<1>3. CASE asked # Nothing
  <2>1. meant = Nothing
    BY <1>1, <1>3 DEF IInv, SentOK
  <2>2. StoreView!GiveUp
    BY <1>1, <2>1 DEF StoreView!GiveUp
  <2>3. QED BY <2>2 DEF StoreView!Next
<1>4. QED BY <1>2, <1>3

\* The answer says what is kept.
LEMMA ReplyIs == ASSUME IInv, Reply PROVE StoreView!Next
<1>1. /\ sent # Nothing /\ asked # Nothing
      /\ frame' = [thing |-> asked, data |-> Answer(sent[2])]
      /\ UNCHANGED <<kept, meant, asked, told>>
  BY DEF Reply
<1>2. sent[2] = asked /\ asked \in Settings
  BY <1>1 DEF IInv, SentOK
<1>3. Answers(asked)
  BY <1>2, AnswerComesBack DEF IInv
<1> DEFINE a == Answer(asked)
<1>4. frame' = [thing |-> asked, data |-> a] /\ a \in Seq(Bytes) /\ asked \in Things
      /\ Heard(asked, a) = [thing |-> asked, value |-> kept[asked]]
  BY <1>1, <1>2, <1>3 DEF Answers, Things
<1> HIDE DEF a
<1>5. frame' # Nothing /\ frame'.thing = asked /\ frame'.data = a
  BY <1>4, FrameIsSomething
<1>6. Saying' = [thing |-> asked, value |-> kept[asked]]
  BY <1>4, <1>5 DEF Saying
<1>7. StoreView!Say
  BY <1>1, <1>6 DEF StoreView!Say, StoreView!Said, Saying
<1>8. QED BY <1>7 DEF StoreView!Next

\* Cut short it says the same, or nothing.
LEMMA CutIs ==
    ASSUME IInv, NEW n \in 0..12, Cut(n)
    PROVE  StoreView!Next \/ UNCHANGED StoreView!vars
<1> DEFINE t == frame.thing
           d == frame.data
           c == First(d, n)
<1>1. /\ frame # Nothing /\ n < Len(d) /\ t \in Settings \ {UserID}
      /\ frame' = [frame EXCEPT !.data = c]
      /\ UNCHANGED <<kept, meant, asked, told>>
  BY DEF Cut, First
<1>2. frame = [thing |-> t, data |-> d] /\ t \in Things /\ Frame(t, d)
  BY <1>1 DEF IInv, FrameOK
<1>3. Frame(t, c) /\ Heard(t, c) \in {Nothing, Heard(t, d)}
  BY <1>1, <1>2, CutHeard
<1>4. frame' = [thing |-> t, data |-> c]
  BY <1>1, <1>2
<1> HIDE DEF c
<1>5. frame' # Nothing /\ frame'.thing = t /\ frame'.data = c
  BY <1>2, <1>3, <1>4, FrameIsSomething DEF Frame
<1>6. Saying' \in {Nothing, Saying}
  BY <1>1, <1>3, <1>5 DEF Saying
<1>7. CASE Saying' = Nothing
  <2>1. StoreView!Unsay
    BY <1>1, <1>7 DEF StoreView!Unsay, Saying
  <2>2. QED BY <2>1 DEF StoreView!Next
<1>8. CASE Saying' = Saying
  BY <1>1, <1>8 DEF StoreView!vars, Saying
<1>9. QED BY <1>6, <1>7, <1>8

\* What is read from it is what was said, or nothing.
LEMMA TakeIs ==
    ASSUME IInv, TakeAnswer \/ TakeReport
    PROVE  StoreView!Next \/ UNCHANGED StoreView!vars
<1> DEFINE heard == Heard(frame.thing, frame.data)
<1>1. /\ frame # Nothing /\ frame' = Nothing
      /\ told' = IF heard # Nothing THEN heard ELSE told
      /\ UNCHANGED <<kept, meant>>
  BY DEF TakeAnswer, TakeReport, Takes
<1>2. Saying = heard /\ Saying' = Nothing
  BY <1>1 DEF Saying
<1>3. frame.thing \in Things /\ Frame(frame.thing, frame.data)
  BY <1>1 DEF IInv, FrameOK
<1>4. heard # Nothing => heard.thing = frame.thing
  BY <1>3, HeardIs
<1>5. \/ frame.thing \in Settings /\ asked' = IF heard # Nothing THEN Nothing ELSE asked
      \/ frame.thing \in Reported /\ asked' = asked
  BY DEF TakeAnswer, TakeReport
<1>6. Reported \cap Settings = {}
  BY DEF Reported, Settings, MemoryPositions, ReferenceOutput, ControlError,
     ProductInfo, GetCapabilities, BaseOffset, UserID, ReminderSetting, MemoryPosition1
<1> HIDE DEF heard
<1>7. CASE heard # Nothing
  <2>1. asked' = IF heard.thing \in Reported THEN asked ELSE Nothing
    BY <1>4, <1>5, <1>6, <1>7
  <2>2. StoreView!Hear
    BY <1>1, <1>2, <1>7, <2>1 DEF StoreView!Hear, Saying
  <2>3. QED BY <2>2 DEF StoreView!Next
<1>8. CASE heard = Nothing
  BY <1>1, <1>2, <1>5, <1>8 DEF StoreView!vars, Saying
<1>9. QED BY <1>7, <1>8

\* A report says what has become of the thing.
LEMMA SayIs ==
    ASSUME IInv, NEW t \in Reported, NEW v, NEW data \in Seq(Bytes),
           Heard(t, data) = [thing |-> t, value |-> v], Say(t, v, data)
    PROVE  StoreView!Next
<1>1. /\ kept' = [kept EXCEPT ![t] = v] /\ frame' = [thing |-> t, data |-> data]
      /\ UNCHANGED <<meant, asked, told>>
  BY DEF Say
<1>2. t \in Things /\ t \in DOMAIN kept
  BY ReportedIs DEF IInv, KeptOK
<1>3. frame' # Nothing /\ frame'.thing = t /\ frame'.data = data
  BY <1>1, <1>2, FrameIsSomething
<1>4. Saying' = [thing |-> t, value |-> v] /\ kept'[t] = v
  BY <1>1, <1>2, <1>3 DEF Saying
<1>5. StoreView!Report(t, kept'[t])
  BY <1>1, <1>4 DEF StoreView!Report, StoreView!Said, Saying
<1>6. QED BY <1>2, <1>5 DEF StoreView!Next

\* A change at the desk is one in the store.
LEMMA PressIs ==
    ASSUME IInv, NEW t \in Settings, NEW v, Press(t, v) PROVE StoreView!Next
<1>1. kept' = [kept EXCEPT ![t] = v] /\ UNCHANGED <<meant, asked, frame, told>>
  BY DEF Press
<1>2. t \in Things /\ t \notin Reported /\ kept'[t] = v
  BY <1>1 DEF IInv, KeptOK, Things, Reported, Settings, MemoryPositions, ReferenceOutput,
     ControlError, ProductInfo, GetCapabilities, BaseOffset, UserID, ReminderSetting,
     MemoryPosition1
<1>3. StoreView!Press(t, kept'[t])
  BY <1>1, <1>2 DEF StoreView!Press
<1>4. QED BY <1>2, <1>3 DEF StoreView!Next

\* Together: every step.
LEMMA StoreSteps ==
    IInv /\ [Next]_vars => [StoreView!Next]_(StoreView!vars)
<1> SUFFICES ASSUME IInv, [Next]_vars PROVE StoreView!Next \/ UNCHANGED StoreView!vars
  OBVIOUS
<1>1. CASE UNCHANGED vars
  BY <1>1 DEF vars, StoreView!vars
<1>2. CASE Next
  <2>1. Step
    BY <1>2, StepIs
  <2>2. CASE GiveUp
    <3>1. StoreView!GiveUp
      BY <2>2 DEF GiveUp, StoreView!GiveUp
    <3>2. QED BY <3>1 DEF StoreView!Next
  <2>3. MemoryPosition1 \in Settings /\ ReminderSetting \in Settings
    BY DEF Settings, MemoryPositions, MemoryPosition1
  <2>4. QED BY <2>1, <2>2, <2>3, WriteIs, AskingIs, FailsIs, StoreIs, ReplyIs, TakeIs, CutIs,
     PressIs, SayIs DEF Step
<1>3. QED BY <1>1, <1>2

\* types.go, deskpanel.go, referenceoutput.go.  Through the bytes the program
\* and the desk are a store of settings, and nothing is told that was not kept.
THEOREM BytesImplementStore == Spec => ImplementsStore
BY StartsAsStore, StoreSteps, Inductive, PTL DEF Spec, ImplementsStore, StoreView!Spec
=============================================================================
