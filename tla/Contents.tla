------------------------------ MODULE Contents ------------------------------
(***************************************************************************)
(* The layouts of the memories: geometry and calibration of lighthouse     *)
(* base stations (lighthouse.rs), the configuration in the EEPROM          *)
(* (eeprom_config.rs), the elements of a OneWire memory (ow.rs) and the    *)
(* colours of the LED ring (led_driver.rs).                                *)
(*                                                                         *)
(* A float is its four bytes.  A behaviour is one call: its arguments,     *)
(* then its answer.                                                        *)
(***************************************************************************)
EXTENDS Integers, Sequences, SequencesExt

CONSTANTS
    FlagBytes,      \* bytes tried as the flag that says a base station is valid
    Configs,        \* configurations tried
    Changes,        \* what is added to one byte of a stored configuration
    Elements,       \* elements tried: an identifier and its bytes
    MaxElements,
    Intensities,    \* of the LEDs
    Malformed,      \* the error of bytes that are no content
    NoElement       \* in place of the bytes of an element that is not there

\* What the constants have to be.
ConstantsOK ==
    /\ FlagBytes \subseteq 0..255
    /\ Changes \subseteq 1..255
    /\ MaxElements \in Nat
    /\ Intensities \subseteq 0..255

VARIABLES
    call,       \* what was asked, or NotAsked
    answer      \* what it gave

vars == <<call, answer>>

NotAsked == [op |-> "none"]

-----------------------------------------------------------------------------
(* Lighthouse. *)

SIZE_FLOAT == 4
SweepSize == 7 * SIZE_FLOAT
CalibrationSize == 2 * SweepSize + 4 + 1
GeometrySize == 4 * 3 * SIZE_FLOAT + 1

read_f32(data, offset) == SubSeq(data, offset + 1, offset + SIZE_FLOAT)

Byte(flag) == IF flag THEN 1 ELSE 0

SweepFromBytes(data) == [k \in 1..7 |-> read_f32(data, (k - 1) * SIZE_FLOAT)]

\* Mutant: the identifier is looked for between the sweeps.
CalibrationMisplaced(data) ==
    IF Len(data) < CalibrationSize THEN Malformed
    ELSE [sweeps |-> <<SweepFromBytes(SubSeq(data, 1, SweepSize)),
                       SweepFromBytes(SubSeq(data, SweepSize + 5, Len(data)))>>,
          uid |-> read_f32(data, SweepSize),
          valid |-> data[2 * SweepSize + 5] # 0]

CalibrationFromBytes(data) ==
    IF Len(data) < CalibrationSize THEN Malformed
    ELSE [sweeps |-> <<SweepFromBytes(SubSeq(data, 1, SweepSize)),
                       SweepFromBytes(SubSeq(data, SweepSize + 1, 2 * SweepSize))>>,
          uid |-> read_f32(data, 2 * SweepSize),
          valid |-> data[2 * SweepSize + 5] # 0]

CalibrationToBytes(c) ==
    FlattenSeq(c.sweeps[1]) \o FlattenSeq(c.sweeps[2]) \o c.uid \o <<Byte(c.valid)>>

GeometryFromBytes(data) ==
    IF Len(data) < GeometrySize THEN Malformed
    ELSE LET Vector(offset) == [k \in 1..3 |-> read_f32(data, offset + (k - 1) * SIZE_FLOAT)]
         IN  [origin |-> Vector(0),
              rotation |-> [row \in 1..3 |-> Vector(row * 3 * SIZE_FLOAT)],
              valid |-> data[GeometrySize] # 0]

GeometryToBytes(g) ==
    FlattenSeq(g.origin) \o FlattenSeq([row \in 1..3 |-> FlattenSeq(g.rotation[row])])
      \o <<Byte(g.valid)>>

-----------------------------------------------------------------------------
(* The EEPROM. *)

Magic == <<48, 120, 66, 67>>    \* 0xBC, in letters

\* u8::wrapping_add over the bytes.
Checksum(bytes) == FoldLeft(LAMBDA sum, b : (sum + b) % 256, 0, bytes)

\* Mutant: the address in the order it is given.
CommittedStraight(c) ==
    LET bytes == Magic \o <<c.version, c.channel, c.speed>> \o c.pitch \o c.roll \o c.address
    IN  Append(bytes, Checksum(bytes))

Committed(c) ==
    LET bytes == Magic \o <<c.version, c.channel, c.speed>> \o c.pitch \o c.roll \o
                 <<c.address[1], c.address[5], c.address[4], c.address[3], c.address[2]>>
    IN  Append(bytes, Checksum(bytes))

RadioSpeeds == {0, 1, 2}

\* Everything is taken as it is, but for the sum.
Opened(data) ==
    IF \/ SubSeq(data, 1, 4) # Magic
       \/ data[7] \notin RadioSpeeds
       \/ Checksum(Front(data)) # Last(data)
    THEN Malformed
    ELSE [version |-> data[5], channel |-> data[6], speed |-> data[7],
          pitch |-> SubSeq(data, 8, 11), roll |-> SubSeq(data, 12, 15),
          address |-> <<data[16], data[20], data[19], data[18], data[17]>>]

-----------------------------------------------------------------------------
(* OneWire elements.  Names and hexadecimal digits stand for the bytes they *)
(* are made of; 255 is no UTF-8.                                           *)

BoardName == 1
Revision == 2
CustomData == 3
NoElements == [id \in {BoardName, Revision, CustomData} |-> NoElement]

Text(bytes) == \A k \in DOMAIN bytes : bytes[k] # 255

Insert(elements, id, bytes) ==
    IF id = CustomData \/ (id \in {BoardName, Revision} /\ Text(bytes))
    THEN [elements EXCEPT ![id] = bytes]
    ELSE elements

\* Mutant: no element ends with the last byte.
RECURSIVE ParseFromShort(_, _, _)
ParseFromShort(data, offset, elements) ==
    IF offset + 1 >= Len(data) \/ offset + 2 + data[offset + 2] >= Len(data)
    THEN elements
    ELSE ParseFromShort(data, offset + 2 + data[offset + 2],
             Insert(elements, data[offset + 1],
                    SubSeq(data, offset + 3, offset + 2 + data[offset + 2])))

\* The loop of parse_elements: it ends where an element does not fit.
RECURSIVE ParseFrom(_, _, _)
ParseFrom(data, offset, elements) ==
    IF offset + 1 >= Len(data) \/ offset + 2 + data[offset + 2] > Len(data)
    THEN elements
    ELSE ParseFrom(data, offset + 2 + data[offset + 2],
             Insert(elements, data[offset + 1],
                    SubSeq(data, offset + 3, offset + 2 + data[offset + 2])))

parse_elements(data) == ParseFrom(data, 0, NoElements)

-----------------------------------------------------------------------------
(* The LED ring. *)

NUM_LEDS == 12

\* "(x * 249 + 1014) >> 11", the level of five bits, and that of six.
Five(x) == ((x * 249 + 1014) \div 2^11) % 2^5
Six(x) == ((x * 253 + 505) \div 2^10) % 2^6

\* Mutant: no stop at 100, so that a level spills into the next.
DimmedFreely(level, intensity) == (level * intensity) \div 100

Dimmed(level, intensity) ==
    (level * (IF intensity > 100 THEN 100 ELSE intensity)) \div 100

to_rgb565(led) ==
      Dimmed(Five(led.r), led.intensity) * 2^11
    + Dimmed(Six(led.g), led.intensity) * 2^5
    + Dimmed(Five(led.b), led.intensity)

\* The high byte first.
LedBytes(leds) ==
    FlattenSeq([k \in 1..NUM_LEDS |->
        <<(to_rgb565(leds[k]) \div 256) % 256, to_rgb565(leds[k]) % 256>>])

-----------------------------------------------------------------------------

Init == call = NotAsked /\ answer = Malformed

Asked(c, a) == call = NotAsked /\ call' = c /\ answer' = a

Both(FromBytes(_), ToBytes(_), data) ==
    IF FromBytes(data) = Malformed THEN Malformed ELSE ToBytes(FromBytes(data))

\* n different bytes, the flag at the place of the flag.
Page(n, at, flag) == [k \in 1..n |-> IF k = at THEN flag ELSE k]

\* A page of the memory is read, and what was read is written.
CopyCalibration(n, flag) ==
    LET data == Page(n, CalibrationSize, flag)
    IN  Asked([op |-> "copy", data |-> data, size |-> CalibrationSize],
              Both(CalibrationFromBytes, CalibrationToBytes, data))

CopyGeometry(n, flag) ==
    LET data == Page(n, GeometrySize, flag)
    IN  Asked([op |-> "copy", data |-> data, size |-> GeometrySize],
              Both(GeometryFromBytes, GeometryToBytes, data))

\* A configuration is committed, one byte of it changes, and it is opened.
Reopen(c, at, change) ==
    Asked([op |-> "reopen", config |-> c, change |-> change],
          Opened([Committed(c) EXCEPT ![at] = (@ + change) % 256]))

\* The first cut bytes of these elements are parsed.
Parse(es, cut) ==
    LET data == FlattenSeq([k \in DOMAIN es |-> <<es[k].id, Len(es[k].bytes)>> \o es[k].bytes])
    IN  /\ cut <= Len(data)
        /\ Asked([op |-> "parse", elements |-> es, cut |-> cut],
                 parse_elements(SubSeq(data, 1, cut)))

\* A ring with every level of a colour next to its opposite.
Ring(x, intensity) ==
    [k \in 1..NUM_LEDS |-> [r |-> (x + k) % 256, g |-> 255 - ((x + k) % 256),
                            b |-> (x + 2 * k) % 256, intensity |-> intensity]]

write_leds(x, intensity) ==
    Asked([op |-> "leds", leds |-> Ring(x, intensity)], LedBytes(Ring(x, intensity)))

Next ==
    \/ \E n \in (CalibrationSize - 2)..(CalibrationSize + 1), flag \in FlagBytes :
          CopyCalibration(n, flag)
    \/ \E n \in (GeometrySize - 2)..(GeometrySize + 1), flag \in FlagBytes :
          CopyGeometry(n, flag)
    \/ \E c \in Configs : \E at \in 1..21, change \in Changes \union {0} :
          Reopen(c, at, change)
    \/ \E n \in 0..MaxElements : \E es \in [1..n -> Elements] :
          \E cut \in 0..(5 * MaxElements) : Parse(es, cut)
    \/ \E x \in 0..255, intensity \in Intensities : write_leds(x, intensity)

Spec == Init /\ [][Next]_vars

-----------------------------------------------------------------------------

\* What is read of a page and written again is the page: every field has its
\* place and no two share a byte, and the flag is 0 or 1.  A page that is too
\* short is refused (lighthouse.rs:65, 121, 184).
PagesCopied ==
    call.op = "copy" =>
        answer = IF Len(call.data) < call.size THEN Malformed
                 ELSE [SubSeq(call.data, 1, call.size) EXCEPT
                          ![call.size] = Byte(@ # 0)]

\* A configuration that is opened is the one committed, with the bytes of the
\* address back in their order, and whichever one byte has changed since, the
\* opening fails rather than give another (eeprom_config.rs:86-151).
EepromHonest ==
    call.op = "reopen" =>
        answer = IF call.change = 0 THEN call.config ELSE Malformed

\* Of a OneWire memory that is cut short, each element that is whole is told,
\* the last one of its kind, and nothing of one that is not (ow.rs:155).
ElementsWhole ==
    call.op = "parse" =>
        LET es == call.elements
            End(k) == FoldLeft(LAMBDA n, e : n + 2 + Len(e.bytes), 0, SubSeq(es, 1, k))
            Tells(k, id) ==
                /\ es[k].id = id /\ End(k) <= call.cut
                /\ id = CustomData \/ Text(es[k].bytes)
            Telling(id) == {k \in DOMAIN es : Tells(k, id)}
        IN  \A id \in DOMAIN NoElements :
                answer[id] = IF Telling(id) = {} THEN NoElement
                             ELSE es[CHOOSE k \in Telling(id) :
                                        \A j \in Telling(id) : j <= k].bytes

\* Each colour of each LED is the nearest level of its five or six bits,
\* dimmed, in its own bits: "values above 100 are clamped to 100"
\* (led_driver.rs:21).
ColoursRight ==
    call.op = "leds" =>
        \A k \in 1..NUM_LEDS :
            LET led == call.leds[k]
                word == 256 * answer[2 * k - 1] + answer[2 * k]
                Nearest(x, top) == (2 * top * x + 255) \div 510
                Part(x, top) == (Nearest(x, top) *
                    (IF led.intensity < 100 THEN led.intensity ELSE 100)) \div 100
            IN  /\ word \div 2^11 = Part(led.r, 31)
                /\ (word \div 2^5) % 2^6 = Part(led.g, 63)
                /\ word % 2^5 = Part(led.b, 31)

\* The contents of memories, as bytes.
ContentsRight == PagesCopied /\ EepromHonest /\ ElementsWhole /\ ColoursRight
=============================================================================
