---------------------------- MODULE FormatsProofs ----------------------------
(***************************************************************************)
(* What Parse makes of a frame, for every string of bytes there is.  The   *)
(* parsers read byte by byte, with shifts and masks; the tables at the     *)
(* head of their files say which bits are a field.  The set of fields a    *)
(* parser builds is shown to be the set its table describes, and from that *)
(* follows what a measurement holds: every available field as it was       *)
(* meant, nothing beyond the end of the bytes, every value in its range,   *)
(* an index that never jumps, the same values from both formats of one     *)
(* device, and a sensor for each.                                          *)
(*                                                                         *)
(* Then the way there: a frame that a sender packs bit by bit is unpacked  *)
(* whole, and is found in an advertisement, however many structures are    *)
(* before it.  With that the properties of the specification follow from   *)
(* what Parse was shown to do.                                             *)
(***************************************************************************)
EXTENDS Formats, SequenceTheorems, WellFoundedInduction, TLAPS

Octets == 0..255

-----------------------------------------------------------------------------
(* Bytes.                                                                  *)

LEMMA ByteType ==
  ASSUME NEW d \in Seq(Octets), NEW i \in Nat
  PROVE  Byte(d, i) \in Nat /\ Byte(d, i) <= 255
<1>1. CASE i < Len(d)
  <2>1. PICK b \in Octets : b = d[i + 1]
    BY <1>1
  <2>2. Byte(d, i) = b
    BY <1>1, <2>1 DEF Byte
  <2>3. b \in Nat /\ b <= 255
    BY DEF Octets
  <2>4. QED
    BY <2>2, <2>3
<1>2. CASE ~(i < Len(d))
  BY <1>2 DEF Byte
<1>3. QED
  BY <1>1, <1>2

\* The bits of d from bit p on, w of them: within three bytes, as every field is.
Window(d, i, behind, w) == (U24(d, i) \div 2 ^ behind) % 2 ^ w
Bits(d, p, w) == Window(d, p \div 8, 24 - (p % 8) - w, w)

LEMMA Words ==
  ASSUME NEW d \in Seq(Octets), NEW i \in Nat,
         NEW a \in Nat, NEW b \in Nat, NEW c \in Nat,
         Byte(d, i) = a, Byte(d, i + 1) = b, Byte(d, i + 2) = c
  PROVE  U16(d, i) = 256 * a + b /\ U24(d, i) = 65536 * a + 256 * b + c
<1>1. U16(d, i) = 256 * a + b
  BY DEF U16
<1>2. U16(d, i + 1) = 256 * b + c
  <2>1. i + 1 + 1 = i + 2
    OBVIOUS
  <2>2. QED
    BY <2>1 DEF U16
<1>3. U24(d, i) = 65536 * a + 256 * b + c
  BY <1>2 DEF U24
<1>4. QED
  BY <1>1, <1>3

\* Fields that are whole bytes, ...
LEMMA WholeBits ==
  ASSUME NEW d \in Seq(Octets), NEW i \in Nat
  PROVE  /\ Window(d, i, 16, 8) = Byte(d, i)
         /\ Window(d, i, 8, 16) = U16(d, i)
         /\ Window(d, i, 0, 24) = U24(d, i)
<1>1. PICK a \in Nat : Byte(d, i) = a /\ a <= 255
  BY ByteType
<1>2. PICK b \in Nat : Byte(d, i + 1) = b /\ b <= 255
  BY ByteType
<1>3. PICK c \in Nat : Byte(d, i + 2) = c /\ c <= 255
  BY ByteType
<1>4. U16(d, i) = 256 * a + b /\ U24(d, i) = 65536 * a + 256 * b + c
  BY <1>1, <1>2, <1>3, Words
<1>5. Window(d, i, 16, 8) = a
  BY <1>1, <1>2, <1>3, <1>4 DEF Window
<1>6. Window(d, i, 8, 16) = 256 * a + b
  BY <1>1, <1>2, <1>3, <1>4 DEF Window
<1>7. Window(d, i, 0, 24) = 65536 * a + 256 * b + c
  BY <1>1, <1>2, <1>3, <1>4 DEF Window
<1>11. QED
  BY <1>1, <1>4, <1>5, <1>6, <1>7
\* ... and those that are not.
LEMMA PartBits ==
  ASSUME NEW d \in Seq(Octets), NEW i \in Nat
  PROVE  /\ Window(d, i, 15, 9) = First9(d, i)
         /\ Window(d, i + 1, 14, 9) = Second9(d, i)
         /\ Window(d, i, 13, 11) = U16(d, i) \div 32
         /\ Window(d, i + 1, 16, 5) = U16(d, i) % 32
         /\ Window(d, i, 0, 22) = U24(d, i) % 2 ^ 22
<1>1. PICK a \in Nat : Byte(d, i) = a /\ a <= 255
  BY ByteType
<1>2. PICK b \in Nat : Byte(d, i + 1) = b /\ b <= 255
  BY ByteType
<1>3. PICK c \in Nat : Byte(d, i + 2) = c /\ c <= 255
  BY ByteType
<1>4. PICK e \in Nat : Byte(d, i + 1 + 2) = e /\ e <= 255
  BY ByteType
<1>5. U16(d, i) = 256 * a + b /\ U24(d, i) = 65536 * a + 256 * b + c
  BY <1>1, <1>2, <1>3, Words
<1>6. U24(d, i + 1) = 65536 * b + 256 * c + e
  <2>1. i + 1 \in Nat /\ i + 1 + 1 = i + 2
    OBVIOUS
  <2>2. QED
    BY <1>2, <1>3, <1>4, <2>1, Words
<1>7. Window(d, i, 15, 9) = First9(d, i)
  <2>1. PICK q \in Nat, r \in Nat : b = 128 * q + r /\ r <= 127 /\ q <= 1 /\ b \div 128 = q
    <3>1. b \div 128 \in Nat /\ b % 128 \in Nat
      BY <1>2
    <3>2. b = 128 * (b \div 128) + (b % 128) /\ b % 128 <= 127 /\ b \div 128 <= 1
      BY <1>2
    <3>3. QED
      BY <3>1, <3>2
  <2>2. U24(d, i) = 32768 * (2 * a + q) + (256 * r + c) /\ 256 * r + c < 32768
    BY <1>1, <1>2, <1>3, <1>5, <2>1
  <2>3. U24(d, i) \div 32768 = 2 * a + q
    BY <1>1, <1>3, <2>1, <2>2
  <2>4. 2 * a + q \in Nat /\ 2 * a + q < 512
    BY <1>1, <2>1
  <2>5. First9(d, i) = 2 * a + q
    BY <1>1, <1>2, <2>1 DEF First9
  <2>6. 2 ^ 15 = 32768 /\ 2 ^ 9 = 512
    OBVIOUS
  <2>7. QED
    BY <2>3, <2>4, <2>5, <2>6 DEF Window
<1>8. Window(d, i + 1, 14, 9) = Second9(d, i)
  <2>1. PICK q \in Nat, r \in Nat : b = 128 * q + r /\ r <= 127 /\ b % 128 = r
    <3>1. b \div 128 \in Nat /\ b % 128 \in Nat
      BY <1>2
    <3>2. b = 128 * (b \div 128) + (b % 128) /\ b % 128 <= 127
      BY <1>2
    <3>3. QED
      BY <3>1, <3>2
  <2>2. PICK u \in Nat, v \in Nat : c = 64 * u + v /\ v <= 63 /\ u <= 3 /\ c \div 64 = u
    <3>1. c \div 64 \in Nat /\ c % 64 \in Nat
      BY <1>3
    <3>2. c = 64 * (c \div 64) + (c % 64) /\ c % 64 <= 63 /\ c \div 64 <= 3
      BY <1>3
    <3>3. QED
      BY <3>1, <3>2
  <2>3. U24(d, i + 1) = 16384 * (512 * q + (4 * r + u)) + (256 * v + e) /\ 256 * v + e < 16384
    BY <1>4, <1>6, <2>1, <2>2
  <2>4. U24(d, i + 1) \div 16384 = 512 * q + (4 * r + u)
    BY <1>4, <2>1, <2>2, <2>3
  <2>5. (512 * q + (4 * r + u)) % 512 = 4 * r + u
    BY <2>1, <2>2
  <2>6. Second9(d, i) = 4 * r + u
    BY <1>2, <1>3, <2>1, <2>2 DEF Second9
  <2>7. 2 ^ 14 = 16384 /\ 2 ^ 9 = 512
    OBVIOUS
  <2>8. QED
    BY <2>4, <2>5, <2>6, <2>7 DEF Window
<1>9. Window(d, i, 13, 11) = U16(d, i) \div 32
  BY <1>1, <1>2, <1>3, <1>5 DEF Window
<1>10. Window(d, i + 1, 16, 5) = U16(d, i) % 32
  <2>1. U24(d, i + 1) \div 65536 = b
    BY <1>2, <1>3, <1>4, <1>6
  <2>2. b % 32 = (256 * a + b) % 32
    BY <1>1, <1>2
  <2>3. 2 ^ 16 = 65536 /\ 2 ^ 5 = 32
    OBVIOUS
  <2>4. QED
    BY <1>5, <2>1, <2>2, <2>3 DEF Window
<1>11. Window(d, i, 0, 22) = U24(d, i) % 2 ^ 22
  BY <1>1, <1>2, <1>3, <1>5 DEF Window
<1>12. QED
  BY <1>7, <1>8, <1>9, <1>10, <1>11
-----------------------------------------------------------------------------
(* Fields.                                                                 *)

\* The raw value of a field, by its place in the table.
Raw(f, d, k) == Bits(d, Layout[f][k][1], Layout[f][k][2])

\* The fields every format has.
LEMMA CommonLayout ==
  ASSUME NEW f \in Formats
  PROVE  /\ {"id", "temperature", "humidity", "pressure"} \subseteq Fields(f)
         /\ Layout[f]["id"] = <<0, 8>> /\ Layout[f]["temperature"] = <<8, 16>>
         /\ Layout[f]["humidity"] = <<24, 16>> /\ Layout[f]["pressure"] = <<40, 16>>
<1>1. CASE f = "F5"
  BY <1>1 DEF Layout, Common, With, Fields
<1>2. CASE f = "F6"
  BY <1>2 DEF Layout, Common, With, Fields
<1>3. CASE f = "E1"
  BY <1>3 DEF Layout, Common, With, Fields
<1>4. QED
  BY <1>1, <1>2, <1>3 DEF Formats

LEMMA CommonRaw ==
  ASSUME NEW f \in Formats, NEW d \in Seq(Octets)
  PROVE  /\ {"id", "temperature", "humidity", "pressure"} \subseteq Fields(f)
         /\ Raw(f, d, "temperature") = U16(d, 1)
         /\ Raw(f, d, "humidity") = U16(d, 3)
         /\ Raw(f, d, "pressure") = U16(d, 5)
<1>1. {"id", "temperature", "humidity", "pressure"} \subseteq Fields(f)
  BY CommonLayout
<1>2. /\ Layout[f]["temperature"] = <<8, 16>>
      /\ Layout[f]["humidity"] = <<24, 16>>
      /\ Layout[f]["pressure"] = <<40, 16>>
  BY CommonLayout
<1>3. /\ 8 \div 8 = 1 /\ 24 - (8 % 8) - 16 = 8
      /\ 24 \div 8 = 3 /\ 24 - (24 % 8) - 16 = 8
      /\ 40 \div 8 = 5 /\ 24 - (40 % 8) - 16 = 8
  OBVIOUS
<1>4. /\ Bits(d, 8, 16) = Window(d, 1, 8, 16)
      /\ Bits(d, 24, 16) = Window(d, 3, 8, 16)
      /\ Bits(d, 40, 16) = Window(d, 5, 8, 16)
  BY <1>3 DEF Bits
<1>5. /\ Window(d, 1, 8, 16) = U16(d, 1)
      /\ Window(d, 3, 8, 16) = U16(d, 3)
      /\ Window(d, 5, 8, 16) = U16(d, 5)
  BY WholeBits, PartBits
<1>6. QED
  BY <1>1, <1>2, <1>4, <1>5 DEF Raw

LEMMA F5Raw ==
  ASSUME NEW d \in Seq(Octets)
  PROVE  /\ Fields("F5") = {"id", "temperature", "humidity", "pressure", "acceleration_x",
              "acceleration_y", "acceleration_z", "battery_voltage", "tx_power",
              "movement_counter", "sequence"}
         /\ Raw("F5", d, "acceleration_x") = U16(d, 7)
         /\ Raw("F5", d, "acceleration_y") = U16(d, 9)
         /\ Raw("F5", d, "acceleration_z") = U16(d, 11)
         /\ Raw("F5", d, "battery_voltage") = U16(d, 13) \div 32
         /\ Raw("F5", d, "tx_power") = U16(d, 13) % 32
         /\ Raw("F5", d, "movement_counter") = Byte(d, 15)
         /\ Raw("F5", d, "sequence") = U16(d, 16)
<1>1. Fields("F5") = {"id", "temperature", "humidity", "pressure", "acceleration_x",
           "acceleration_y", "acceleration_z", "battery_voltage", "tx_power",
           "movement_counter", "sequence"}
  BY DEF Layout, Common, With, Fields
<1>2. /\ Layout["F5"]["acceleration_x"] = <<56, 16>>
      /\ Layout["F5"]["acceleration_y"] = <<72, 16>>
      /\ Layout["F5"]["acceleration_z"] = <<88, 16>>
      /\ Layout["F5"]["battery_voltage"] = <<104, 11>>
      /\ Layout["F5"]["tx_power"] = <<115, 5>>
      /\ Layout["F5"]["movement_counter"] = <<120, 8>>
      /\ Layout["F5"]["sequence"] = <<128, 16>>
  BY DEF Layout, Common, With
<1>3. /\ 56 \div 8 = 7 /\ 24 - (56 % 8) - 16 = 8
      /\ 72 \div 8 = 9 /\ 24 - (72 % 8) - 16 = 8
      /\ 88 \div 8 = 11 /\ 24 - (88 % 8) - 16 = 8
      /\ 104 \div 8 = 13 /\ 24 - (104 % 8) - 11 = 13
      /\ 115 \div 8 = 14 /\ 24 - (115 % 8) - 5 = 16
      /\ 120 \div 8 = 15 /\ 24 - (120 % 8) - 8 = 16
      /\ 128 \div 8 = 16 /\ 24 - (128 % 8) - 16 = 8
  OBVIOUS
<1>4. /\ Bits(d, 56, 16) = Window(d, 7, 8, 16)
      /\ Bits(d, 72, 16) = Window(d, 9, 8, 16)
      /\ Bits(d, 88, 16) = Window(d, 11, 8, 16)
      /\ Bits(d, 104, 11) = Window(d, 13, 13, 11)
      /\ Bits(d, 115, 5) = Window(d, 14, 16, 5)
      /\ Bits(d, 120, 8) = Window(d, 15, 16, 8)
      /\ Bits(d, 128, 16) = Window(d, 16, 8, 16)
  BY <1>3 DEF Bits
<1>5. /\ Window(d, 7, 8, 16) = U16(d, 7)
      /\ Window(d, 9, 8, 16) = U16(d, 9)
      /\ Window(d, 11, 8, 16) = U16(d, 11)
      /\ Window(d, 13, 13, 11) = U16(d, 13) \div 32
      /\ Window(d, 14, 16, 5) = U16(d, 13) % 32
      /\ Window(d, 15, 16, 8) = Byte(d, 15)
      /\ Window(d, 16, 8, 16) = U16(d, 16)
  BY WholeBits, PartBits
<1>6. QED
  BY <1>1, <1>2, <1>4, <1>5 DEF Raw

LEMMA F6Raw ==
  ASSUME NEW d \in Seq(Octets)
  PROVE  /\ Fields("F6") = {"id", "temperature", "humidity", "pressure", "pm2_5", "co2",
              "voc_index", "nox_index", "sequence"}
         /\ Raw("F6", d, "pm2_5") = U16(d, 7)
         /\ Raw("F6", d, "co2") = U16(d, 9)
         /\ Raw("F6", d, "voc_index") = First9(d, 11)
         /\ Raw("F6", d, "nox_index") = Second9(d, 11)
         /\ Raw("F6", d, "sequence") = Byte(d, 14)
<1>1. Fields("F6") = {"id", "temperature", "humidity", "pressure", "pm2_5", "co2", "voc_index",
           "nox_index", "sequence"}
  BY DEF Layout, Common, With, Fields
<1>2. /\ Layout["F6"]["pm2_5"] = <<56, 16>>
      /\ Layout["F6"]["co2"] = <<72, 16>>
      /\ Layout["F6"]["voc_index"] = <<88, 9>>
      /\ Layout["F6"]["nox_index"] = <<97, 9>>
      /\ Layout["F6"]["sequence"] = <<112, 8>>
  BY DEF Layout, Common, With
<1>3. /\ 56 \div 8 = 7 /\ 24 - (56 % 8) - 16 = 8
      /\ 72 \div 8 = 9 /\ 24 - (72 % 8) - 16 = 8
      /\ 88 \div 8 = 11 /\ 24 - (88 % 8) - 9 = 15
      /\ 97 \div 8 = 12 /\ 24 - (97 % 8) - 9 = 14
      /\ 112 \div 8 = 14 /\ 24 - (112 % 8) - 8 = 16
  OBVIOUS
<1>4. /\ Bits(d, 56, 16) = Window(d, 7, 8, 16)
      /\ Bits(d, 72, 16) = Window(d, 9, 8, 16)
      /\ Bits(d, 88, 9) = Window(d, 11, 15, 9)
      /\ Bits(d, 97, 9) = Window(d, 12, 14, 9)
      /\ Bits(d, 112, 8) = Window(d, 14, 16, 8)
  BY <1>3 DEF Bits
<1>5. /\ Window(d, 7, 8, 16) = U16(d, 7)
      /\ Window(d, 9, 8, 16) = U16(d, 9)
      /\ Window(d, 11, 15, 9) = First9(d, 11)
      /\ Window(d, 12, 14, 9) = Second9(d, 11)
      /\ Window(d, 14, 16, 8) = Byte(d, 14)
  BY WholeBits, PartBits
<1>6. QED
  BY <1>1, <1>2, <1>4, <1>5 DEF Raw

LEMMA E1Raw ==
  ASSUME NEW d \in Seq(Octets)
  PROVE  /\ Fields("E1") = {"id", "temperature", "humidity", "pressure", "pm1_0", "pm2_5", "pm4_0",
              "pm10_0", "co2", "voc_index", "nox_index", "luminosity", "sequence"}
         /\ Raw("E1", d, "pm1_0") = U16(d, 7)
         /\ Raw("E1", d, "pm2_5") = U16(d, 9)
         /\ Raw("E1", d, "pm4_0") = U16(d, 11)
         /\ Raw("E1", d, "pm10_0") = U16(d, 13)
         /\ Raw("E1", d, "co2") = U16(d, 15)
         /\ Raw("E1", d, "voc_index") = First9(d, 17)
         /\ Raw("E1", d, "nox_index") = Second9(d, 17)
         /\ Raw("E1", d, "luminosity") = Luminosity(d)
         /\ Raw("E1", d, "sequence") = U24(d, 25)
<1>1. Fields("E1") = {"id", "temperature", "humidity", "pressure", "pm1_0", "pm2_5", "pm4_0",
           "pm10_0", "co2", "voc_index", "nox_index", "luminosity", "sequence"}
  BY DEF Layout, Common, With, Fields
<1>2. /\ Layout["E1"]["pm1_0"] = <<56, 16>>
      /\ Layout["E1"]["pm2_5"] = <<72, 16>>
      /\ Layout["E1"]["pm4_0"] = <<88, 16>>
      /\ Layout["E1"]["pm10_0"] = <<104, 16>>
      /\ Layout["E1"]["co2"] = <<120, 16>>
      /\ Layout["E1"]["voc_index"] = <<136, 9>>
      /\ Layout["E1"]["nox_index"] = <<145, 9>>
      /\ Layout["E1"]["luminosity"] = <<154, 22>>
      /\ Layout["E1"]["sequence"] = <<200, 24>>
  BY DEF Layout, Common, With
<1>3. /\ 56 \div 8 = 7 /\ 24 - (56 % 8) - 16 = 8
      /\ 72 \div 8 = 9 /\ 24 - (72 % 8) - 16 = 8
      /\ 88 \div 8 = 11 /\ 24 - (88 % 8) - 16 = 8
      /\ 104 \div 8 = 13 /\ 24 - (104 % 8) - 16 = 8
      /\ 120 \div 8 = 15 /\ 24 - (120 % 8) - 16 = 8
      /\ 136 \div 8 = 17 /\ 24 - (136 % 8) - 9 = 15
      /\ 145 \div 8 = 18 /\ 24 - (145 % 8) - 9 = 14
      /\ 154 \div 8 = 19 /\ 24 - (154 % 8) - 22 = 0
      /\ 200 \div 8 = 25 /\ 24 - (200 % 8) - 24 = 0
  OBVIOUS
<1>4. /\ Bits(d, 56, 16) = Window(d, 7, 8, 16)
      /\ Bits(d, 72, 16) = Window(d, 9, 8, 16)
      /\ Bits(d, 88, 16) = Window(d, 11, 8, 16)
      /\ Bits(d, 104, 16) = Window(d, 13, 8, 16)
      /\ Bits(d, 120, 16) = Window(d, 15, 8, 16)
      /\ Bits(d, 136, 9) = Window(d, 17, 15, 9)
      /\ Bits(d, 145, 9) = Window(d, 18, 14, 9)
      /\ Bits(d, 154, 22) = Window(d, 19, 0, 22)
      /\ Bits(d, 200, 24) = Window(d, 25, 0, 24)
  BY <1>3 DEF Bits
<1>5. Window(d, 19, 0, 22) = Luminosity(d)
  BY PartBits DEF Luminosity
<1>6. /\ Window(d, 7, 8, 16) = U16(d, 7)
      /\ Window(d, 9, 8, 16) = U16(d, 9)
      /\ Window(d, 11, 8, 16) = U16(d, 11)
      /\ Window(d, 13, 8, 16) = U16(d, 13)
      /\ Window(d, 15, 8, 16) = U16(d, 15)
      /\ Window(d, 25, 0, 24) = U24(d, 25)
  BY WholeBits
<1>7. Window(d, 17, 15, 9) = First9(d, 17) /\ Window(d, 18, 14, 9) = Second9(d, 17)
  <2>1. 17 + 1 = 18
    OBVIOUS
  <2>2. QED
    BY <2>1, PartBits
<1>8. QED
  BY <1>1, <1>2, <1>4, <1>5, <1>6, <1>7 DEF Raw

\* A field is left out when it is not available, or no sensor can have it.
Usable(f, k, v) == ~Missing(f, k, v) /\ ~(k = "temperature" /\ TooHot(v))

\* What the table makes of a frame.
Entry(f, d, k) == Field(k, Usable(f, k, Raw(f, d, k)), Meaning(k, Raw(f, d, k)))
Expected(f, d) == {Entry(f, d, k) : k \in Fields(f) \ {"id"}}

LEMMA Powers ==
  /\ 2 ^ 4 = 16 /\ 2 ^ 5 = 32 /\ 2 ^ 8 = 256 /\ 2 ^ 9 = 512 /\ 2 ^ 11 = 2048 /\ 2 ^ 15 = 32768
  /\ 2 ^ 16 = 65536 /\ 2 ^ 22 = 4194304 /\ 2 ^ 24 = 16777216
OBVIOUS

\* The temperatures the sensors can have.
Bearable(n) == n \in -8000..17000

LEMMA BearableIs ==
  /\ \A v : TooHot(v) <=> v # 32768 /\ ~Bearable(Signed(v))
  /\ \A d : TemperatureInRange(d) <=> Bearable(S16(d, 1))
<1>1. \A v : TooHot(v) <=> v # 2 ^ 15 /\ ~Bearable(Signed(v))
  BY SMT DEF TooHot, Bearable
<1>2. \A d : TemperatureInRange(d) <=> Bearable(S16(d, 1))
  BY SMT DEF TemperatureInRange, Bearable
<1>3. QED
  BY <1>1, <1>2, Powers

LEMMA U16Type ==
  ASSUME NEW d \in Seq(Octets), NEW i \in Nat
  PROVE  U16(d, i) \in Nat /\ U16(d, i) <= 65535
<1>1. PICK a \in Nat : Byte(d, i) = a /\ a <= 255
  BY ByteType
<1>2. PICK b \in Nat : Byte(d, i + 1) = b /\ b <= 255
  BY ByteType
<1>3. QED
  BY <1>1, <1>2 DEF U16

\* The least of two numbers.
LEMMA MinOfTwo ==
  ASSUME NEW a \in Int, NEW b \in Int
  PROVE  Min({a, b}) = IF a <= b THEN a ELSE b
<1> DEFINE m == IF a <= b THEN a ELSE b
<1>1. m \in {a, b} /\ \A y \in {a, b} : m <= y
  OBVIOUS
<1>2. \A x \in {a, b} : (\A y \in {a, b} : x <= y) => x = m
  OBVIOUS
<1>3. QED
  BY <1>1, <1>2 DEF Min

LEMMA CommonEntries ==
  ASSUME NEW f \in Formats, NEW d \in Seq(Octets)
  PROVE  /\ Entry(f, d, "temperature")
              = Field("temperature", S16(d, 1) # -32768 /\ TemperatureInRange(d), S16(d, 1))
         /\ Entry(f, d, "humidity") = Field("humidity", U16(d, 3) # 65535, Humidity(d))
         /\ Entry(f, d, "pressure") = Field("pressure", U16(d, 5) # 65535, U16(d, 5) + 50000)
<1>1. Entry(f, d, "temperature")
        = Field("temperature", S16(d, 1) # -32768 /\ TemperatureInRange(d), S16(d, 1))
  <2>1. PICK u \in Nat : U16(d, 1) = u /\ u <= 65535
    BY U16Type
  <2>2. S16(d, 1) = Meaning("temperature", u) /\ S16(d, 1) = Signed(u)
    BY <2>1 DEF S16, Meaning
  <2>3. (S16(d, 1) # -32768 /\ TemperatureInRange(d)) <=> Usable(f, "temperature", u)
    <3>1. Missing(f, "temperature", u) <=> u = 32768
      BY Powers DEF Missing, Unavailable
    <3>2. TooHot(u) <=> u # 32768 /\ ~Bearable(Signed(u))
      BY BearableIs
    <3>3. Signed(u) = -32768 <=> u = 32768
      BY <2>1, Powers DEF Signed
    <3>4. TemperatureInRange(d) <=> Bearable(S16(d, 1))
      BY BearableIs
    <3>5. QED
      BY <2>2, <3>1, <3>2, <3>3, <3>4 DEF Usable
  <2>4. Raw(f, d, "temperature") = u
    BY <2>1, CommonRaw
  <2>5. QED
    BY <2>2, <2>3, <2>4 DEF Entry, Field, Usable
<1>2. Entry(f, d, "humidity") = Field("humidity", U16(d, 3) # 65535, Humidity(d))
  <2>1. PICK u \in Nat : U16(d, 3) = u /\ u <= 65535
    BY U16Type
  <2>2. Humidity(d) = Meaning("humidity", u)
    <3>1. Meaning("humidity", u) = Min({u, 40000})
      BY DEF Meaning
    <3>2. Humidity(d) = IF U16(d, 3) <= 40000 THEN U16(d, 3) ELSE 40000
      <4>1. U16(d, 3) \in Int /\ 40000 \in Int
        BY <2>1
      <4>2. Min({U16(d, 3), 40000}) = IF U16(d, 3) <= 40000 THEN U16(d, 3) ELSE 40000
        BY <4>1, MinOfTwo
      <4>3. QED
        BY <4>2 DEF Humidity
    <3>3. Min({u, 40000}) = IF u <= 40000 THEN u ELSE 40000
      BY MinOfTwo
    <3>4. QED
      BY <2>1, <3>1, <3>2, <3>3
  <2>3. Missing(f, "humidity", u) <=> u = 65535
    <3>1. Layout[f]["humidity"] = <<24, 16>>
      BY CommonLayout
    <3>2. QED
      BY <3>1, Powers DEF Missing, Unavailable
  <2>4. Raw(f, d, "humidity") = u
    BY <2>1, CommonRaw
  <2>5. QED
    BY <2>1, <2>2, <2>3, <2>4 DEF Entry, Field, Usable
<1>3. Entry(f, d, "pressure") = Field("pressure", U16(d, 5) # 65535, U16(d, 5) + 50000)
  <2>1. PICK u \in Nat : U16(d, 5) = u /\ u <= 65535
    BY U16Type
  <2>2. u + 50000 = Meaning("pressure", u)
    BY DEF Meaning
  <2>3. Missing(f, "pressure", u) <=> u = 65535
    <3>1. Layout[f]["pressure"] = <<40, 16>>
      BY CommonLayout
    <3>2. QED
      BY <3>1, Powers DEF Missing, Unavailable
  <2>4. Raw(f, d, "pressure") = u
    BY <2>1, CommonRaw
  <2>5. QED
    BY <2>1, <2>2, <2>3, <2>4 DEF Entry, Field, Usable
<1>4. QED
  BY <1>1, <1>2, <1>3

LEMMA F5Entries ==
  ASSUME NEW d \in Seq(Octets)
  PROVE  /\ Entry("F5", d, "acceleration_x")
              = Field("acceleration_x", S16(d, 7) # -32768, S16(d, 7))
         /\ Entry("F5", d, "acceleration_y")
              = Field("acceleration_y", S16(d, 9) # -32768, S16(d, 9))
         /\ Entry("F5", d, "acceleration_z")
              = Field("acceleration_z", S16(d, 11) # -32768, S16(d, 11))
         /\ Entry("F5", d, "battery_voltage")
              = Field("battery_voltage", U16(d, 13) \div 32 # 2047, U16(d, 13) \div 32 + 1600)
         /\ Entry("F5", d, "tx_power")
              = Field("tx_power", U16(d, 13) % 32 # 31, 2 * (U16(d, 13) % 32) - 40)
         /\ Entry("F5", d, "movement_counter")
              = Field("movement_counter", Byte(d, 15) # 255, Byte(d, 15))
         /\ Entry("F5", d, "sequence") = Field("sequence", U16(d, 16) # 65535, U16(d, 16))
<1>1. /\ Layout["F5"]["acceleration_x"][2] = 16
      /\ Layout["F5"]["acceleration_y"][2] = 16
      /\ Layout["F5"]["acceleration_z"][2] = 16
      /\ Layout["F5"]["battery_voltage"][2] = 11
      /\ Layout["F5"]["tx_power"][2] = 5
      /\ Layout["F5"]["movement_counter"][2] = 8
      /\ Layout["F5"]["sequence"][2] = 16
  BY DEF Layout, Common, With
<1>2. /\ Raw("F5", d, "acceleration_x") = U16(d, 7)
      /\ Raw("F5", d, "acceleration_y") = U16(d, 9)
      /\ Raw("F5", d, "acceleration_z") = U16(d, 11)
      /\ Raw("F5", d, "battery_voltage") = U16(d, 13) \div 32
      /\ Raw("F5", d, "tx_power") = U16(d, 13) % 32
      /\ Raw("F5", d, "movement_counter") = Byte(d, 15)
      /\ Raw("F5", d, "sequence") = U16(d, 16)
  BY F5Raw
<1>3. Entry("F5", d, "acceleration_x") = Field("acceleration_x", S16(d, 7) # -32768, S16(d, 7))
  <2>1. PICK u \in Nat : U16(d, 7) = u /\ u <= 65535
    BY U16Type
  <2>2. S16(d, 7) = Signed(u) /\ Meaning("acceleration_x", u) = Signed(u)
    BY <2>1 DEF S16, Meaning
  <2>3. Signed(u) # -32768 <=> ~Missing("F5", "acceleration_x", u)
    <3>1. Missing("F5", "acceleration_x", u) <=> u = 32768
      BY Powers DEF Missing, Unavailable
    <3>2. QED
      BY <2>1, <3>1, Powers DEF Signed
  <2>4. Raw("F5", d, "acceleration_x") = u
    BY <1>2, <2>1
  <2>5. QED
    BY <2>2, <2>3, <2>4 DEF Entry, Field, Usable
<1>4. Entry("F5", d, "acceleration_y") = Field("acceleration_y", S16(d, 9) # -32768, S16(d, 9))
  <2>1. PICK u \in Nat : U16(d, 9) = u /\ u <= 65535
    BY U16Type
  <2>2. S16(d, 9) = Signed(u) /\ Meaning("acceleration_y", u) = Signed(u)
    BY <2>1 DEF S16, Meaning
  <2>3. Signed(u) # -32768 <=> ~Missing("F5", "acceleration_y", u)
    <3>1. Missing("F5", "acceleration_y", u) <=> u = 32768
      BY Powers DEF Missing, Unavailable
    <3>2. QED
      BY <2>1, <3>1, Powers DEF Signed
  <2>4. Raw("F5", d, "acceleration_y") = u
    BY <1>2, <2>1
  <2>5. QED
    BY <2>2, <2>3, <2>4 DEF Entry, Field, Usable
<1>5. Entry("F5", d, "acceleration_z") = Field("acceleration_z", S16(d, 11) # -32768, S16(d, 11))
  <2>1. PICK u \in Nat : U16(d, 11) = u /\ u <= 65535
    BY U16Type
  <2>2. S16(d, 11) = Signed(u) /\ Meaning("acceleration_z", u) = Signed(u)
    BY <2>1 DEF S16, Meaning
  <2>3. Signed(u) # -32768 <=> ~Missing("F5", "acceleration_z", u)
    <3>1. Missing("F5", "acceleration_z", u) <=> u = 32768
      BY Powers DEF Missing, Unavailable
    <3>2. QED
      BY <2>1, <3>1, Powers DEF Signed
  <2>4. Raw("F5", d, "acceleration_z") = u
    BY <1>2, <2>1
  <2>5. QED
    BY <2>2, <2>3, <2>4 DEF Entry, Field, Usable
<1>6. Entry("F5", d, "battery_voltage")
        = Field("battery_voltage", U16(d, 13) \div 32 # 2047, U16(d, 13) \div 32 + 1600)
  <2>1. PICK u : u = U16(d, 13) \div 32
    OBVIOUS
  <2>2. Missing("F5", "battery_voltage", u) <=> u = 2047
    BY <1>1, Powers DEF Missing, Unavailable
  <2>3. Meaning("battery_voltage", u) = u + 1600
    BY DEF Meaning
  <2>4. Raw("F5", d, "battery_voltage") = u
    BY <1>2, <2>1
  <2>5. Entry("F5", d, "battery_voltage") = Field("battery_voltage", u # 2047, u + 1600)
    BY <2>2, <2>3, <2>4 DEF Entry, Field, Usable
  <2>6. QED
    BY <2>1, <2>5
<1>7. Entry("F5", d, "tx_power")
        = Field("tx_power", U16(d, 13) % 32 # 31, 2 * (U16(d, 13) % 32) - 40)
  <2>1. PICK u : u = U16(d, 13) % 32
    OBVIOUS
  <2>2. Missing("F5", "tx_power", u) <=> u = 31
    BY <1>1, Powers DEF Missing, Unavailable
  <2>3. Meaning("tx_power", u) = 2 * u - 40
    BY DEF Meaning
  <2>4. Raw("F5", d, "tx_power") = u
    BY <1>2, <2>1
  <2>5. Entry("F5", d, "tx_power") = Field("tx_power", u # 31, 2 * u - 40)
    BY <2>2, <2>3, <2>4 DEF Entry, Field, Usable
  <2>6. QED
    BY <2>1, <2>5
<1>8. Entry("F5", d, "movement_counter")
        = Field("movement_counter", Byte(d, 15) # 255, Byte(d, 15))
  <2>1. PICK u : u = Byte(d, 15)
    OBVIOUS
  <2>2. Missing("F5", "movement_counter", u) <=> u = 255
    BY <1>1, Powers DEF Missing, Unavailable
  <2>3. Meaning("movement_counter", u) = u
    BY DEF Meaning
  <2>4. Raw("F5", d, "movement_counter") = u
    BY <1>2, <2>1
  <2>5. Entry("F5", d, "movement_counter") = Field("movement_counter", u # 255, u)
    BY <2>2, <2>3, <2>4 DEF Entry, Field, Usable
  <2>6. QED
    BY <2>1, <2>5
<1>9. Entry("F5", d, "sequence") = Field("sequence", U16(d, 16) # 65535, U16(d, 16))
  <2>1. PICK u : u = U16(d, 16)
    OBVIOUS
  <2>2. Missing("F5", "sequence", u) <=> u = 65535
    BY <1>1, Powers DEF Missing, Unavailable
  <2>3. Meaning("sequence", u) = u
    BY DEF Meaning
  <2>4. Raw("F5", d, "sequence") = u
    BY <1>2, <2>1
  <2>5. Entry("F5", d, "sequence") = Field("sequence", u # 65535, u)
    BY <2>2, <2>3, <2>4 DEF Entry, Field, Usable
  <2>6. QED
    BY <2>1, <2>5
<1>10. QED
  BY <1>3, <1>4, <1>5, <1>6, <1>7, <1>8, <1>9

LEMMA F6Entries ==
  ASSUME NEW d \in Seq(Octets)
  PROVE  /\ Entry("F6", d, "pm2_5") = Field("pm2_5", U16(d, 7) \notin {0, 65535}, U16(d, 7))
         /\ Entry("F6", d, "co2") = Field("co2", U16(d, 9) \notin {0, 65535}, U16(d, 9))
         /\ Entry("F6", d, "voc_index")
              = Field("voc_index", First9(d, 11) \notin {0, 511}, First9(d, 11))
         /\ Entry("F6", d, "nox_index") = Field("nox_index", Second9(d, 11) # 511, Second9(d, 11))
         /\ Entry("F6", d, "sequence") = Field("sequence", Byte(d, 14) # 255, Byte(d, 14))
<1>1. /\ Layout["F6"]["pm2_5"][2] = 16
      /\ Layout["F6"]["co2"][2] = 16
      /\ Layout["F6"]["voc_index"][2] = 9
      /\ Layout["F6"]["nox_index"][2] = 9
      /\ Layout["F6"]["sequence"][2] = 8
  BY DEF Layout, Common, With
<1>2. /\ Raw("F6", d, "pm2_5") = U16(d, 7)
      /\ Raw("F6", d, "co2") = U16(d, 9)
      /\ Raw("F6", d, "voc_index") = First9(d, 11)
      /\ Raw("F6", d, "nox_index") = Second9(d, 11)
      /\ Raw("F6", d, "sequence") = Byte(d, 14)
  BY F6Raw
<1>3. Entry("F6", d, "pm2_5") = Field("pm2_5", U16(d, 7) \notin {0, 65535}, U16(d, 7))
  <2>1. PICK u : u = U16(d, 7)
    OBVIOUS
  <2>2. Missing("F6", "pm2_5", u) <=> u \in {0, 65535}
    BY <1>1, Powers DEF Missing, Unavailable
  <2>3. Meaning("pm2_5", u) = u
    BY DEF Meaning
  <2>4. Raw("F6", d, "pm2_5") = u
    BY <1>2, <2>1
  <2>5. Entry("F6", d, "pm2_5") = Field("pm2_5", u \notin {0, 65535}, u)
    BY <2>2, <2>3, <2>4 DEF Entry, Field, Usable
  <2>6. QED
    BY <2>1, <2>5
<1>4. Entry("F6", d, "co2") = Field("co2", U16(d, 9) \notin {0, 65535}, U16(d, 9))
  <2>1. PICK u : u = U16(d, 9)
    OBVIOUS
  <2>2. Missing("F6", "co2", u) <=> u \in {0, 65535}
    BY <1>1, Powers DEF Missing, Unavailable
  <2>3. Meaning("co2", u) = u
    BY DEF Meaning
  <2>4. Raw("F6", d, "co2") = u
    BY <1>2, <2>1
  <2>5. Entry("F6", d, "co2") = Field("co2", u \notin {0, 65535}, u)
    BY <2>2, <2>3, <2>4 DEF Entry, Field, Usable
  <2>6. QED
    BY <2>1, <2>5
<1>5. Entry("F6", d, "voc_index")
        = Field("voc_index", First9(d, 11) \notin {0, 511}, First9(d, 11))
  <2>1. PICK u : u = First9(d, 11)
    OBVIOUS
  <2>2. Missing("F6", "voc_index", u) <=> u \in {0, 511}
    BY <1>1, Powers DEF Missing, Unavailable
  <2>3. Meaning("voc_index", u) = u
    BY DEF Meaning
  <2>4. Raw("F6", d, "voc_index") = u
    BY <1>2, <2>1
  <2>5. Entry("F6", d, "voc_index") = Field("voc_index", u \notin {0, 511}, u)
    BY <2>2, <2>3, <2>4 DEF Entry, Field, Usable
  <2>6. QED
    BY <2>1, <2>5
<1>6. Entry("F6", d, "nox_index") = Field("nox_index", Second9(d, 11) # 511, Second9(d, 11))
  <2>1. PICK u : u = Second9(d, 11)
    OBVIOUS
  <2>2. Missing("F6", "nox_index", u) <=> u = 511
    BY <1>1, Powers DEF Missing, Unavailable
  <2>3. Meaning("nox_index", u) = u
    BY DEF Meaning
  <2>4. Raw("F6", d, "nox_index") = u
    BY <1>2, <2>1
  <2>5. Entry("F6", d, "nox_index") = Field("nox_index", u # 511, u)
    BY <2>2, <2>3, <2>4 DEF Entry, Field, Usable
  <2>6. QED
    BY <2>1, <2>5
<1>7. Entry("F6", d, "sequence") = Field("sequence", Byte(d, 14) # 255, Byte(d, 14))
  <2>1. PICK u : u = Byte(d, 14)
    OBVIOUS
  <2>2. Missing("F6", "sequence", u) <=> u = 255
    BY <1>1, Powers DEF Missing, Unavailable
  <2>3. Meaning("sequence", u) = u
    BY DEF Meaning
  <2>4. Raw("F6", d, "sequence") = u
    BY <1>2, <2>1
  <2>5. Entry("F6", d, "sequence") = Field("sequence", u # 255, u)
    BY <2>2, <2>3, <2>4 DEF Entry, Field, Usable
  <2>6. QED
    BY <2>1, <2>5
<1>8. QED
  BY <1>3, <1>4, <1>5, <1>6, <1>7

LEMMA E1Entries ==
  ASSUME NEW d \in Seq(Octets)
  PROVE  /\ Entry("E1", d, "pm1_0") = Field("pm1_0", U16(d, 7) # 65535, U16(d, 7))
         /\ Entry("E1", d, "pm2_5") = Field("pm2_5", U16(d, 9) # 65535, U16(d, 9))
         /\ Entry("E1", d, "pm4_0") = Field("pm4_0", U16(d, 11) # 65535, U16(d, 11))
         /\ Entry("E1", d, "pm10_0") = Field("pm10_0", U16(d, 13) # 65535, U16(d, 13))
         /\ Entry("E1", d, "co2") = Field("co2", U16(d, 15) # 65535, U16(d, 15))
         /\ Entry("E1", d, "voc_index") = Field("voc_index", First9(d, 17) # 511, First9(d, 17))
         /\ Entry("E1", d, "nox_index") = Field("nox_index", Second9(d, 17) # 511, Second9(d, 17))
         /\ Entry("E1", d, "luminosity")
              = Field("luminosity", Luminosity(d) # 4194303, Luminosity(d))
         /\ Entry("E1", d, "sequence") = Field("sequence", U24(d, 25) # 16777215, U24(d, 25))
<1>1. /\ Layout["E1"]["pm1_0"][2] = 16
      /\ Layout["E1"]["pm2_5"][2] = 16
      /\ Layout["E1"]["pm4_0"][2] = 16
      /\ Layout["E1"]["pm10_0"][2] = 16
      /\ Layout["E1"]["co2"][2] = 16
      /\ Layout["E1"]["voc_index"][2] = 9
      /\ Layout["E1"]["nox_index"][2] = 9
      /\ Layout["E1"]["luminosity"][2] = 22
      /\ Layout["E1"]["sequence"][2] = 24
  BY DEF Layout, Common, With
<1>2. /\ Raw("E1", d, "pm1_0") = U16(d, 7)
      /\ Raw("E1", d, "pm2_5") = U16(d, 9)
      /\ Raw("E1", d, "pm4_0") = U16(d, 11)
      /\ Raw("E1", d, "pm10_0") = U16(d, 13)
      /\ Raw("E1", d, "co2") = U16(d, 15)
      /\ Raw("E1", d, "voc_index") = First9(d, 17)
      /\ Raw("E1", d, "nox_index") = Second9(d, 17)
      /\ Raw("E1", d, "luminosity") = Luminosity(d)
      /\ Raw("E1", d, "sequence") = U24(d, 25)
  BY E1Raw
<1>3. Entry("E1", d, "pm1_0") = Field("pm1_0", U16(d, 7) # 65535, U16(d, 7))
  <2>1. PICK u : u = U16(d, 7)
    OBVIOUS
  <2>2. Missing("E1", "pm1_0", u) <=> u = 65535
    BY <1>1, Powers DEF Missing, Unavailable
  <2>3. Meaning("pm1_0", u) = u
    BY DEF Meaning
  <2>4. Raw("E1", d, "pm1_0") = u
    BY <1>2, <2>1
  <2>5. Entry("E1", d, "pm1_0") = Field("pm1_0", u # 65535, u)
    BY <2>2, <2>3, <2>4 DEF Entry, Field, Usable
  <2>6. QED
    BY <2>1, <2>5
<1>4. Entry("E1", d, "pm2_5") = Field("pm2_5", U16(d, 9) # 65535, U16(d, 9))
  <2>1. PICK u : u = U16(d, 9)
    OBVIOUS
  <2>2. Missing("E1", "pm2_5", u) <=> u = 65535
    BY <1>1, Powers DEF Missing, Unavailable
  <2>3. Meaning("pm2_5", u) = u
    BY DEF Meaning
  <2>4. Raw("E1", d, "pm2_5") = u
    BY <1>2, <2>1
  <2>5. Entry("E1", d, "pm2_5") = Field("pm2_5", u # 65535, u)
    BY <2>2, <2>3, <2>4 DEF Entry, Field, Usable
  <2>6. QED
    BY <2>1, <2>5
<1>5. Entry("E1", d, "pm4_0") = Field("pm4_0", U16(d, 11) # 65535, U16(d, 11))
  <2>1. PICK u : u = U16(d, 11)
    OBVIOUS
  <2>2. Missing("E1", "pm4_0", u) <=> u = 65535
    BY <1>1, Powers DEF Missing, Unavailable
  <2>3. Meaning("pm4_0", u) = u
    BY DEF Meaning
  <2>4. Raw("E1", d, "pm4_0") = u
    BY <1>2, <2>1
  <2>5. Entry("E1", d, "pm4_0") = Field("pm4_0", u # 65535, u)
    BY <2>2, <2>3, <2>4 DEF Entry, Field, Usable
  <2>6. QED
    BY <2>1, <2>5
<1>6. Entry("E1", d, "pm10_0") = Field("pm10_0", U16(d, 13) # 65535, U16(d, 13))
  <2>1. PICK u : u = U16(d, 13)
    OBVIOUS
  <2>2. Missing("E1", "pm10_0", u) <=> u = 65535
    BY <1>1, Powers DEF Missing, Unavailable
  <2>3. Meaning("pm10_0", u) = u
    BY DEF Meaning
  <2>4. Raw("E1", d, "pm10_0") = u
    BY <1>2, <2>1
  <2>5. Entry("E1", d, "pm10_0") = Field("pm10_0", u # 65535, u)
    BY <2>2, <2>3, <2>4 DEF Entry, Field, Usable
  <2>6. QED
    BY <2>1, <2>5
<1>7. Entry("E1", d, "co2") = Field("co2", U16(d, 15) # 65535, U16(d, 15))
  <2>1. PICK u : u = U16(d, 15)
    OBVIOUS
  <2>2. Missing("E1", "co2", u) <=> u = 65535
    BY <1>1, Powers DEF Missing, Unavailable
  <2>3. Meaning("co2", u) = u
    BY DEF Meaning
  <2>4. Raw("E1", d, "co2") = u
    BY <1>2, <2>1
  <2>5. Entry("E1", d, "co2") = Field("co2", u # 65535, u)
    BY <2>2, <2>3, <2>4 DEF Entry, Field, Usable
  <2>6. QED
    BY <2>1, <2>5
<1>8. Entry("E1", d, "voc_index") = Field("voc_index", First9(d, 17) # 511, First9(d, 17))
  <2>1. PICK u : u = First9(d, 17)
    OBVIOUS
  <2>2. Missing("E1", "voc_index", u) <=> u = 511
    BY <1>1, Powers DEF Missing, Unavailable
  <2>3. Meaning("voc_index", u) = u
    BY DEF Meaning
  <2>4. Raw("E1", d, "voc_index") = u
    BY <1>2, <2>1
  <2>5. Entry("E1", d, "voc_index") = Field("voc_index", u # 511, u)
    BY <2>2, <2>3, <2>4 DEF Entry, Field, Usable
  <2>6. QED
    BY <2>1, <2>5
<1>9. Entry("E1", d, "nox_index") = Field("nox_index", Second9(d, 17) # 511, Second9(d, 17))
  <2>1. PICK u : u = Second9(d, 17)
    OBVIOUS
  <2>2. Missing("E1", "nox_index", u) <=> u = 511
    BY <1>1, Powers DEF Missing, Unavailable
  <2>3. Meaning("nox_index", u) = u
    BY DEF Meaning
  <2>4. Raw("E1", d, "nox_index") = u
    BY <1>2, <2>1
  <2>5. Entry("E1", d, "nox_index") = Field("nox_index", u # 511, u)
    BY <2>2, <2>3, <2>4 DEF Entry, Field, Usable
  <2>6. QED
    BY <2>1, <2>5
<1>10. Entry("E1", d, "luminosity") = Field("luminosity", Luminosity(d) # 4194303, Luminosity(d))
  <2>1. PICK u : u = Luminosity(d)
    OBVIOUS
  <2>2. Missing("E1", "luminosity", u) <=> u = 4194303
    BY <1>1, Powers DEF Missing, Unavailable
  <2>3. Meaning("luminosity", u) = u
    BY DEF Meaning
  <2>4. Raw("E1", d, "luminosity") = u
    BY <1>2, <2>1
  <2>5. Entry("E1", d, "luminosity") = Field("luminosity", u # 4194303, u)
    BY <2>2, <2>3, <2>4 DEF Entry, Field, Usable
  <2>6. QED
    BY <2>1, <2>5
<1>11. Entry("E1", d, "sequence") = Field("sequence", U24(d, 25) # 16777215, U24(d, 25))
  <2>1. PICK u : u = U24(d, 25)
    OBVIOUS
  <2>2. Missing("E1", "sequence", u) <=> u = 16777215
    BY <1>1, Powers DEF Missing, Unavailable
  <2>3. Meaning("sequence", u) = u
    BY DEF Meaning
  <2>4. Raw("E1", d, "sequence") = u
    BY <1>2, <2>1
  <2>5. Entry("E1", d, "sequence") = Field("sequence", u # 16777215, u)
    BY <2>2, <2>3, <2>4 DEF Entry, Field, Usable
  <2>6. QED
    BY <2>1, <2>5
<1>12. QED
  BY <1>3, <1>4, <1>5, <1>6, <1>7, <1>8, <1>9, <1>10, <1>11

\* A parser builds the set its table describes.
LEMMA FieldsAsExpected ==
  ASSUME NEW f \in Formats, NEW d \in Seq(Octets)
  PROVE  FieldsOf(f, d) = Expected(f, d)
<1>1. CASE f = "F5"
  <2>1. FieldsOf(f, d) = Format5Fields(d)
    BY <1>1 DEF FieldsOf
  <2>2. Fields("F5") \ {"id"} = {"temperature", "humidity", "pressure", "acceleration_x",
          "acceleration_y", "acceleration_z", "battery_voltage", "tx_power",
          "movement_counter", "sequence"}
    BY F5Raw
  <2>3. QED
    BY <1>1, <2>1, <2>2, CommonEntries, F5Entries DEF Format5Fields, CommonFields, Expected, Number
<1>2. CASE f = "F6"
  <2>1. FieldsOf(f, d) = Format6Fields(d)
    BY <1>2 DEF FieldsOf
  <2>2. Fields("F6") \ {"id"} = {"temperature", "humidity", "pressure", "pm2_5", "co2",
          "voc_index", "nox_index", "sequence"}
    BY F6Raw
  <2>3. QED
    BY <1>2, <2>1, <2>2, CommonEntries, F6Entries DEF Format6Fields, CommonFields, Expected, Number
<1>3. CASE f = "E1"
  <2>1. FieldsOf(f, d) = FormatE1Fields(d)
    BY <1>3 DEF FieldsOf
  <2>2. Fields("E1") \ {"id"} = {"temperature", "humidity", "pressure", "pm1_0", "pm2_5",
          "pm4_0", "pm10_0", "co2", "voc_index", "nox_index", "luminosity", "sequence"}
    BY E1Raw
  <2>3. QED
    BY <1>3, <2>1, <2>2, CommonEntries, E1Entries, Powers
    DEF FormatE1Fields, CommonFields, Expected, Number
<1>4. QED
  BY <1>1, <1>2, <1>3 DEF Formats

\* What is usable of the fields, and as what.
LEMMA MeasuredExpected ==
  ASSUME NEW f \in Formats, NEW d \in Seq(Octets), NEW r, r = Measured(Expected(f, d))
  PROVE  /\ r.error = "none"
         /\ DOMAIN r.values = {k \in Fields(f) \ {"id"} : Usable(f, k, Raw(f, d, k))}
         /\ \A k \in DOMAIN r.values : r.values[k] = Meaning(k, Raw(f, d, k))
<1> DEFINE set == {x \in Expected(f, d) : x[2]}
           K == {k \in Fields(f) \ {"id"} : Usable(f, k, Raw(f, d, k))}
<1>1. r = [error |-> "none",
           values |-> [k \in {x[1] : x \in set} |-> (CHOOSE x \in set : x[1] = k)[3]]]
  BY DEF Measured
<1>2. \A x \in Expected(f, d) : \E k \in Fields(f) \ {"id"} : x = Entry(f, d, k)
  BY DEF Expected
<1>3. \A k : /\ Entry(f, d, k)[1] = k
             /\ Entry(f, d, k)[2] <=> Usable(f, k, Raw(f, d, k))
             /\ Entry(f, d, k)[3] = Meaning(k, Raw(f, d, k))
  BY DEF Entry, Field, Usable
<1>4. \A k \in K : Entry(f, d, k) \in set
  BY <1>3 DEF Expected
<1>5. \A x \in set : x[1] \in K /\ x = Entry(f, d, x[1])
  BY <1>2, <1>3
<1>6. {x[1] : x \in set} = K
  BY <1>3, <1>4, <1>5
<1>7. \A k \in K : (CHOOSE x \in set : x[1] = k) = Entry(f, d, k)
  BY <1>3, <1>4, <1>5
<1>8. QED
  BY <1>1, <1>3, <1>6, <1>7
-----------------------------------------------------------------------------
(* What Parse returns.                                                     *)

DerivedKeys == {"dew_point", "absolute_humidity", "air_density", "air_quality_index"}

LEMMA KeysApart ==
  ASSUME NEW f \in Formats
  PROVE  Fields(f) \cap DerivedKeys = {}
<1>1. /\ Fields("F5") = {"id", "temperature", "humidity", "pressure", "acceleration_x",
           "acceleration_y", "acceleration_z", "battery_voltage", "tx_power",
           "movement_counter", "sequence"}
      /\ Fields("F6") = {"id", "temperature", "humidity", "pressure", "pm2_5", "co2",
           "voc_index", "nox_index", "sequence"}
      /\ Fields("E1") = {"id", "temperature", "humidity", "pressure", "pm1_0", "pm2_5",
           "pm4_0", "pm10_0", "co2", "voc_index", "nox_index", "luminosity", "sequence"}
  BY DEF Layout, Common, With, Fields
<1>2. QED
  BY <1>1 DEF Formats, DerivedKeys

\* The frame d is one of format f, and long enough.
IsFrame(d, f) == d # <<>> /\ d[1] = Id[f] /\ Len(d) >= MinLength[f]

LEMMA OneFormat ==
  ASSUME NEW f \in Formats, NEW n, n = Id[f]
  PROVE  /\ \E g \in Formats : n = Id[g]
         /\ (CHOOSE g \in Formats : n = Id[g]) = f
<1>1. \A g \in Formats : n = Id[g] => g = f
  BY DEF Formats, Id
<1>2. QED
  BY <1>1

LEMMA Hot ==
  ASSUME NEW d \in Seq(Octets), NEW f \in Formats
  PROVE  OutOfRange(d) <=> TooHot(Raw(f, d, "temperature"))
<1>1. PICK u \in Nat : U16(d, 1) = u /\ u <= 65535
  BY U16Type
<1>2. S16(d, 1) = Signed(u) /\ Raw(f, d, "temperature") = u
  BY <1>1, CommonRaw DEF S16
<1>3. Signed(u) = -32768 <=> u = 32768
  BY <1>1, Powers DEF Signed
<1>4. TooHot(u) <=> u # 32768 /\ ~Bearable(Signed(u))
  BY BearableIs
<1>5. OutOfRange(d) <=> S16(d, 1) # -32768 /\ ~Bearable(S16(d, 1))
  BY BearableIs DEF OutOfRange
<1>6. QED
  BY <1>2, <1>3, <1>4, <1>5

\* ParseFormat, for a frame of format f.
LEMMA ParsedFormat ==
  ASSUME NEW d \in Seq(Octets), NEW f \in Formats, d # <<>>, d[1] = Id[f]
  PROVE  ParseFormat(d) = IF Len(d) < MinLength[f] THEN Refused("length")
                          ELSE IF f # "F6" /\ TooHot(Raw(f, d, "temperature"))
                                 THEN Refused("temperature")
                          ELSE Measured(Expected(f, d))
<1>1. /\ \E g \in Formats : d[1] = Id[g]
      /\ (CHOOSE g \in Formats : d[1] = Id[g]) = f
  BY OneFormat
<1>2. QED
  BY <1>1, Hot, FieldsAsExpected DEF ParseFormat

\* The derived values are added to those of the fields.
LEMMA WithDerived ==
  ASSUME NEW d \in Seq(Octets), NEW f \in Formats, d # <<>>, d[1] = Id[f],
         NEW ext \in BOOLEAN, NEW r, r = ParseFormat(d), NEW p, p = Parse(d, ext)
  PROVE  /\ p.error = r.error
         /\ r.error # "none" \/ ~ext => p = r
         /\ r.error = "none" /\ ext => p.values = With(r.values, Derived(f, r.values))
<1>1. (CHOOSE g \in Formats : d[1] = Id[g]) = f
  BY OneFormat
<1>2. \E e, v : r = [error |-> e, values |-> v]
  BY DEF ParseFormat, Refused, Measured
<1>3. QED
  BY <1>1, <1>2 DEF Parse

\* The fields of the measurement, derived values or not.
LEMMA ParsedFields ==
  ASSUME NEW d \in Seq(Octets), NEW f \in Formats, IsFrame(d, f), NEW ext \in BOOLEAN,
         f = "F6" \/ ~TooHot(Raw(f, d, "temperature")),
         NEW p, p = Parse(d, ext)
  PROVE  /\ p.error = "none"
         /\ \A k \in Fields(f) \ {"id"} :
              /\ k \in DOMAIN p.values <=> Usable(f, k, Raw(f, d, k))
              /\ k \in DOMAIN p.values => p.values[k] = Meaning(k, Raw(f, d, k))
         /\ DOMAIN p.values \subseteq (Fields(f) \ {"id"}) \cup DerivedKeys
<1>1. Len(d) \in Nat /\ MinLength[f] \in Nat
  BY DEF MinLength, Formats
<1>2. PICK r : r = ParseFormat(d)
  OBVIOUS
<1>3. r = Measured(Expected(f, d))
  BY <1>1, <1>2, ParsedFormat DEF IsFrame
<1>4. /\ r.error = "none"
      /\ DOMAIN r.values = {k \in Fields(f) \ {"id"} : Usable(f, k, Raw(f, d, k))}
      /\ \A k \in DOMAIN r.values : r.values[k] = Meaning(k, Raw(f, d, k))
  BY <1>3, MeasuredExpected
<1>5. /\ p.error = r.error
      /\ ~ext => p = r
      /\ ext => p.values = With(r.values, Derived(f, r.values))
  BY <1>2, <1>4, WithDerived DEF IsFrame
<1>6. CASE ~ext
  BY <1>4, <1>5, <1>6
<1>7. CASE ext
  <2>1. PICK v : v = Derived(f, r.values)
    OBVIOUS
  <2>2. DOMAIN v \subseteq DerivedKeys
    BY <2>1 DEF Derived, DerivedKeys
  <2>3. /\ DOMAIN p.values = DOMAIN r.values \cup DOMAIN v
        /\ \A k \in DOMAIN r.values : p.values[k] = r.values[k]
    BY <1>5, <1>7, <2>1 DEF With
  <2>4. QED
    BY <1>4, <1>5, <2>2, <2>3, KeysApart
<1>8. QED
  BY <1>6, <1>7

\* Every parser reads its table.  A string of bytes of a format, long enough, gives the
\* value of every field as the sender meant it, from the bits the table says, whatever
\* the other bits are; it leaves out exactly what is not available; and only a
\* temperature that no sensor can have is refused, or left out in format 6.  Shorter
\* strings, and other formats, are refused.
THEOREM ReadsTheTable ==
  ASSUME NEW d \in Seq(Octets), NEW ext \in BOOLEAN, NEW p, p = Parse(d, ext)
  PROVE  /\ p.error = "none" => \E f \in Formats : IsFrame(d, f)
         /\ \A f \in Formats : IsFrame(d, f) =>
              IF f # "F6" /\ TooHot(Raw(f, d, "temperature")) THEN p = Refused("temperature")
              ELSE /\ p.error = "none"
                   /\ \A k \in Fields(f) \ {"id"} :
                        /\ k \in DOMAIN p.values <=>
                             ~Missing(f, k, Raw(f, d, k))
                             /\ ~(k = "temperature" /\ TooHot(Raw(f, d, k)))
                        /\ k \in DOMAIN p.values => p.values[k] = Meaning(k, Raw(f, d, k))
<1>1. ASSUME p.error = "none" PROVE \E f \in Formats : IsFrame(d, f)
  <2>1. PICK r : r = ParseFormat(d)
    OBVIOUS
  <2>2. \A e : Refused(e).error = e
    BY DEF Refused
  <2>3. d # <<>> /\ \E f \in Formats : d[1] = Id[f]
    <3>1. ~(d # <<>> /\ \E f \in Formats : d[1] = Id[f]) =>
            r = Refused("length") \/ r = Refused("format")
      BY <2>1 DEF ParseFormat
    <3>2. r.error # "none" => p = r
      BY <2>1 DEF Parse
    <3>3. QED
      BY <1>1, <2>2, <3>1, <3>2
  <2>4. PICK f \in Formats : d[1] = Id[f]
    BY <2>3
  <2>5. p.error = r.error
    BY <2>1, <2>3, <2>4, WithDerived
  <2>6. ~(Len(d) < MinLength[f])
    BY <1>1, <2>1, <2>2, <2>3, <2>4, <2>5, ParsedFormat
  <2>7. Len(d) \in Nat /\ MinLength[f] \in Nat
    BY DEF MinLength, Formats
  <2>8. QED
    BY <2>3, <2>4, <2>6, <2>7 DEF IsFrame
<1>2. ASSUME NEW f \in Formats, IsFrame(d, f), f # "F6", TooHot(Raw(f, d, "temperature"))
      PROVE  p = Refused("temperature")
  <2>1. Len(d) \in Nat /\ MinLength[f] \in Nat
    BY DEF MinLength, Formats
  <2>2. ParseFormat(d) = Refused("temperature")
    BY <1>2, <2>1, ParsedFormat DEF IsFrame
  <2>3. Refused("temperature").error # "none"
    BY DEF Refused
  <2>4. QED
    BY <1>2, <2>2, <2>3, WithDerived DEF IsFrame
<1>3. ASSUME NEW f \in Formats, IsFrame(d, f), f = "F6" \/ ~TooHot(Raw(f, d, "temperature"))
      PROVE  /\ p.error = "none"
             /\ \A k \in Fields(f) \ {"id"} :
                  /\ k \in DOMAIN p.values <=> Usable(f, k, Raw(f, d, k))
                  /\ k \in DOMAIN p.values => p.values[k] = Meaning(k, Raw(f, d, k))
  BY <1>3, ParsedFields
<1>4. QED
  BY <1>1, <1>2, <1>3 DEF Usable

\* Where the fields end.
LEMMA Ends ==
  ASSUME NEW f \in Formats, NEW k \in Fields(f)
  PROVE  End(f, k) \in Nat /\ MinLength[f] \in Nat /\ End(f, k) <= 8 * MinLength[f]
<1>1. CASE f = "F5"
  <2>1. /\ Layout["F5"]["id"] = <<0, 8>>
        /\ Layout["F5"]["temperature"] = <<8, 16>>
        /\ Layout["F5"]["humidity"] = <<24, 16>>
        /\ Layout["F5"]["pressure"] = <<40, 16>>
        /\ Layout["F5"]["acceleration_x"] = <<56, 16>>
        /\ Layout["F5"]["acceleration_y"] = <<72, 16>>
        /\ Layout["F5"]["acceleration_z"] = <<88, 16>>
        /\ Layout["F5"]["battery_voltage"] = <<104, 11>>
        /\ Layout["F5"]["tx_power"] = <<115, 5>>
        /\ Layout["F5"]["movement_counter"] = <<120, 8>>
        /\ Layout["F5"]["sequence"] = <<128, 16>>
    BY DEF Layout, Common, With
  <2>2. Fields("F5") = {"id", "temperature", "humidity", "pressure", "acceleration_x",
          "acceleration_y", "acceleration_z", "battery_voltage", "tx_power", "movement_counter",
          "sequence"}
    BY DEF Layout, Common, With, Fields
  <2>3. MinLength["F5"] = 24
    BY DEF MinLength
  <2>4. QED
    BY <1>1, <2>1, <2>2, <2>3 DEF End
<1>2. CASE f = "F6"
  <2>1. /\ Layout["F6"]["id"] = <<0, 8>>
        /\ Layout["F6"]["temperature"] = <<8, 16>>
        /\ Layout["F6"]["humidity"] = <<24, 16>>
        /\ Layout["F6"]["pressure"] = <<40, 16>>
        /\ Layout["F6"]["pm2_5"] = <<56, 16>>
        /\ Layout["F6"]["co2"] = <<72, 16>>
        /\ Layout["F6"]["voc_index"] = <<88, 9>>
        /\ Layout["F6"]["nox_index"] = <<97, 9>>
        /\ Layout["F6"]["sequence"] = <<112, 8>>
    BY DEF Layout, Common, With
  <2>2. Fields("F6") = {"id", "temperature", "humidity", "pressure", "pm2_5", "co2", "voc_index",
          "nox_index", "sequence"}
    BY DEF Layout, Common, With, Fields
  <2>3. MinLength["F6"] = 15
    BY DEF MinLength
  <2>4. QED
    BY <1>2, <2>1, <2>2, <2>3 DEF End
<1>3. CASE f = "E1"
  <2>1. /\ Layout["E1"]["id"] = <<0, 8>>
        /\ Layout["E1"]["temperature"] = <<8, 16>>
        /\ Layout["E1"]["humidity"] = <<24, 16>>
        /\ Layout["E1"]["pressure"] = <<40, 16>>
        /\ Layout["E1"]["pm1_0"] = <<56, 16>>
        /\ Layout["E1"]["pm2_5"] = <<72, 16>>
        /\ Layout["E1"]["pm4_0"] = <<88, 16>>
        /\ Layout["E1"]["pm10_0"] = <<104, 16>>
        /\ Layout["E1"]["co2"] = <<120, 16>>
        /\ Layout["E1"]["voc_index"] = <<136, 9>>
        /\ Layout["E1"]["nox_index"] = <<145, 9>>
        /\ Layout["E1"]["luminosity"] = <<154, 22>>
        /\ Layout["E1"]["sequence"] = <<200, 24>>
    BY DEF Layout, Common, With
  <2>2. Fields("E1") = {"id", "temperature", "humidity", "pressure", "pm1_0", "pm2_5", "pm4_0",
          "pm10_0", "co2", "voc_index", "nox_index", "luminosity", "sequence"}
    BY DEF Layout, Common, With, Fields
  <2>3. MinLength["E1"] = 28
    BY DEF MinLength
  <2>4. QED
    BY <1>3, <2>1, <2>2, <2>3 DEF End
<1>4. QED
  BY <1>1, <1>2, <1>3 DEF Formats

\* From a frame cut short no value is made up: what Parse returns lies within the bytes.
THEOREM NothingMadeUp ==
  ASSUME NEW d \in Seq(Octets), NEW ext \in BOOLEAN, NEW f \in Formats,
         d # <<>>, d[1] = Id[f]
  PROVE  \A k \in Fields(f) \cap DOMAIN Parse(d, ext).values : End(f, k) <= 8 * Len(d)
<1>1. PICK p : p = Parse(d, ext)
  OBVIOUS
<1>2. PICK r : r = ParseFormat(d)
  OBVIOUS
<1>3. Len(d) \in Nat
  OBVIOUS
<1>4. \A k \in Fields(f) :
        End(f, k) \in Nat /\ MinLength[f] \in Nat /\ End(f, k) <= 8 * MinLength[f]
  BY Ends
<1>6. CASE p.error # "none"
  <2>1. r.error # "none" /\ p = r
    BY <1>1, <1>2, <1>6, WithDerived
  <2>2. \E e : r = Refused(e)
    <3>1. Measured(Expected(f, d)).error = "none"
      BY MeasuredExpected
    <3>2. QED
      BY <1>2, <2>1, <3>1, ParsedFormat
  <2>3. DOMAIN p.values = {}
    BY <2>1, <2>2 DEF Refused
  <2>4. QED
    BY <1>1, <2>3
<1>7. CASE p.error = "none"
  <2>1. PICK g \in Formats : IsFrame(d, g)
    BY <1>1, <1>7, ReadsTheTable
  <2>2. g = f
    BY <2>1 DEF IsFrame, Formats, Id
  <2>3. Len(d) >= MinLength[f]
    BY <2>1, <2>2 DEF IsFrame
  <2>4. QED
    BY <1>1, <1>3, <1>4, <2>3
<1>8. QED
  BY <1>6, <1>7

-----------------------------------------------------------------------------
(* The range of a value.                                                  *)

\* Numbers of two bytes, of three, and the rest.
Narrow(v) == v \in Nat /\ v < 65536
Wide(v) == v \in Nat /\ v < 16777216

LEMMA Numbers ==
  ASSUME NEW d \in Seq(Octets), NEW i \in Nat
  PROVE  /\ Narrow(Byte(d, i)) /\ Narrow(U16(d, i)) /\ Wide(U24(d, i))
         /\ Narrow(First9(d, i)) /\ Narrow(Second9(d, i))
         /\ Narrow(U16(d, i) \div 32) /\ Narrow(U16(d, i) % 32)
         /\ Wide(U24(d, i) % 2 ^ 22)
<1>1. PICK a \in Nat : Byte(d, i) = a /\ a <= 255
  BY ByteType
<1>2. PICK b \in Nat : Byte(d, i + 1) = b /\ b <= 255
  BY ByteType
<1>3. PICK c \in Nat : Byte(d, i + 2) = c /\ c <= 255
  BY ByteType
<1>4. PICK u \in Nat : U16(d, i) = u /\ u <= 65535
  BY U16Type
<1>5. PICK v \in Nat : U24(d, i) = v /\ v < 16777216
  <2>1. 65536 * a + 256 * b + c \in Nat /\ 65536 * a + 256 * b + c < 16777216
    BY <1>1, <1>2, <1>3, SMT
  <2>2. QED
    BY <1>1, <1>2, <1>3, <2>1, Words, SMT
<1>6. First9(d, i) = 2 * a + b \div 128 /\ Second9(d, i) = 4 * (b % 128) + c \div 64
  BY <1>1, <1>2, <1>3 DEF First9, Second9
<1>7. Narrow(2 * a + b \div 128) /\ Narrow(4 * (b % 128) + c \div 64)
  BY <1>1, <1>2, <1>3, SMT DEF Narrow
<1>8. Narrow(a) /\ Narrow(u) /\ Wide(v) /\ Narrow(u \div 32) /\ Narrow(u % 32)
  BY <1>1, <1>4, <1>5, SMT DEF Narrow, Wide
<1>9. Wide(v % 2 ^ 22)
  BY <1>5, Powers, SMT DEF Wide
<1>10. QED
  BY <1>1, <1>4, <1>5, <1>6, <1>7, <1>8, <1>9

\* How large a field can be.
LEMMA RawRange ==
  ASSUME NEW f \in Formats, NEW d \in Seq(Octets), NEW k \in Fields(f) \ {"id"}
  PROVE  Narrow(Raw(f, d, k)) \/ (k \in {"luminosity", "sequence"} /\ Wide(Raw(f, d, k)))
<1>1. CASE k \in {"temperature", "humidity", "pressure"}
  <2>1. Narrow(U16(d, 1)) /\ Narrow(U16(d, 3)) /\ Narrow(U16(d, 5))
    BY Numbers
  <2>2. QED
    BY <1>1, <2>1, CommonRaw
<1>2. CASE f = "F5" /\ k \notin {"temperature", "humidity", "pressure"}
  <2>1. /\ Narrow(U16(d, 7)) /\ Narrow(U16(d, 9)) /\ Narrow(U16(d, 11)) /\ Narrow(U16(d, 16))
        /\ Narrow(U16(d, 13) \div 32) /\ Narrow(U16(d, 13) % 32) /\ Narrow(Byte(d, 15))
    BY Numbers
  <2>2. QED
    BY <1>2, <2>1, F5Raw
<1>3. CASE f = "F6" /\ k \notin {"temperature", "humidity", "pressure"}
  <2>1. /\ Narrow(U16(d, 7)) /\ Narrow(U16(d, 9)) /\ Narrow(First9(d, 11))
        /\ Narrow(Second9(d, 11)) /\ Narrow(Byte(d, 14))
    BY Numbers
  <2>2. QED
    BY <1>3, <2>1, F6Raw
<1>4. CASE f = "E1" /\ k \notin {"temperature", "humidity", "pressure"}
  <2>1. /\ Narrow(U16(d, 7)) /\ Narrow(U16(d, 9)) /\ Narrow(U16(d, 11)) /\ Narrow(U16(d, 13))
        /\ Narrow(U16(d, 15)) /\ Narrow(First9(d, 17)) /\ Narrow(Second9(d, 17))
        /\ Wide(Luminosity(d)) /\ Wide(U24(d, 25))
    BY Numbers DEF Luminosity
  <2>2. QED
    BY <1>4, <2>1, E1Raw
<1>5. QED
  BY <1>1, <1>2, <1>3, <1>4 DEF Formats

\* The fields whose number is the value.
Plain == {"movement_counter", "sequence", "pm1_0", "pm2_5", "pm4_0", "pm10_0", "co2",
          "voc_index", "nox_index", "luminosity"}

LEMMA PlainMeaning ==
  ASSUME NEW v, NEW k \in Plain
  PROVE  Meaning(k, v) = v
<1>1. Meaning("movement_counter", v) = v /\ Meaning("sequence", v) = v
  BY DEF Meaning
<1>2. /\ Meaning("pm1_0", v) = v /\ Meaning("pm2_5", v) = v
      /\ Meaning("pm4_0", v) = v /\ Meaning("pm10_0", v) = v
  BY DEF Meaning
<1>3. /\ Meaning("co2", v) = v /\ Meaning("voc_index", v) = v
      /\ Meaning("nox_index", v) = v /\ Meaning("luminosity", v) = v
  BY DEF Meaning
<1>4. QED
  BY <1>1, <1>2, <1>3 DEF Plain

\* A value of the measurement is in the range of its field.
LEMMA MeaningRange ==
  ASSUME NEW f \in Formats, NEW d \in Seq(Octets), NEW k \in Fields(f) \ {"id"},
         Usable(f, k, Raw(f, d, k)), NEW m, m = Meaning(k, Raw(f, d, k))
  PROVE  /\ m \in Int /\ m <= 16777216
         /\ k = "temperature" => -8000 <= m /\ m <= 17000
         /\ k = "humidity" => 0 <= m /\ m <= 40000
         /\ k = "pressure" => 50000 <= m /\ m <= 115534
         /\ k # "temperature" => -32767 <= m
<1>1. PICK v : v = Raw(f, d, k)
  OBVIOUS
<1>2. /\ v \in Nat /\ v < 16777216
      /\ k \notin {"luminosity", "sequence"} => v < 65536
  BY <1>1, RawRange, SMT DEF Narrow, Wide
<1>3. ~Missing(f, k, v) /\ ~(k = "temperature" /\ TooHot(v)) /\ m = Meaning(k, v)
  BY <1>1 DEF Usable
<1>4. CASE k = "temperature"
  <2>1. v # 32768
    BY <1>3, <1>4, Powers DEF Missing, Unavailable
  <2>2. PICK n : n = Signed(v)
    OBVIOUS
  <2>3. Bearable(n)
    BY <1>3, <1>4, <2>1, <2>2, BearableIs
  <2>4. m = n
    BY <1>3, <1>4, <2>2 DEF Meaning
  <2>5. n \in Int /\ -8000 <= n /\ n <= 17000
    BY <2>3 DEF Bearable
  <2>6. QED
    BY <1>4, <2>4, <2>5, SMT
<1>5. CASE k = "humidity"
  <2>1. m = Min({v, 40000})
    BY <1>3, <1>5 DEF Meaning
  <2>2. Min({v, 40000}) = IF v <= 40000 THEN v ELSE 40000
    BY <1>2, MinOfTwo
  <2>3. QED
    BY <1>2, <1>5, <2>1, <2>2, SMT
<1>6. CASE k = "pressure"
  <2>1. Layout[f]["pressure"] = <<40, 16>>
    BY CommonLayout
  <2>2. v # 65535
    BY <1>3, <1>6, <2>1, Powers DEF Missing, Unavailable
  <2>3. m = v + 50000
    BY <1>3, <1>6 DEF Meaning
  <2>4. QED
    BY <1>2, <1>6, <2>2, <2>3, SMT
<1>7. CASE k \in {"acceleration_x", "acceleration_y", "acceleration_z"}
  <2>1. v # 32768
    BY <1>3, <1>7, Powers DEF Missing, Unavailable
  <2>2. m = Signed(v)
    BY <1>3, <1>7 DEF Meaning
  <2>3. Signed(v) = IF v < 32768 THEN v ELSE v - 65536
    BY <1>2, Powers DEF Signed
  <2>4. QED
    BY <1>2, <1>7, <2>1, <2>2, <2>3, SMT
<1>8. CASE k = "battery_voltage"
  <2>1. m = v + 1600
    BY <1>3, <1>8 DEF Meaning
  <2>2. QED
    BY <1>2, <1>8, <2>1, SMT
<1>9. CASE k = "tx_power"
  <2>1. m = 2 * v - 40
    BY <1>3, <1>9 DEF Meaning
  <2>2. QED
    BY <1>2, <1>9, <2>1, SMT
<1>10. CASE k \notin {"temperature", "humidity", "pressure", "acceleration_x", "acceleration_y",
                      "acceleration_z", "battery_voltage", "tx_power"}
  <2>1. Fields(f) \subseteq {"id", "temperature", "humidity", "pressure", "acceleration_x",
          "acceleration_y", "acceleration_z", "battery_voltage", "tx_power"} \cup Plain
    BY F5Raw, F6Raw, E1Raw DEF Formats, Plain
  <2>2. k \in Plain
    BY <1>10, <2>1
  <2>3. m = v
    BY <1>3, <2>2, PlainMeaning
  <2>4. QED
    BY <1>2, <1>10, <2>3, SMT
<1>11. QED
  BY <1>4, <1>5, <1>6, <1>7, <1>8, <1>9, <1>10

-----------------------------------------------------------------------------
(* The scores of the air quality index.                                   *)

\* The least and the greatest, where there is one.
LEMMA MinIs ==
  ASSUME NEW S \in SUBSET Int, NEW a \in S, \A y \in S : a <= y
  PROVE  Min(S) = a
<1>1. \A x \in S : (\A y \in S : x <= y) => x = a
  OBVIOUS
<1>2. QED
  BY <1>1 DEF Min

LEMMA MaxIs ==
  ASSUME NEW S \in SUBSET Int, NEW a \in S, \A y \in S : a >= y
  PROVE  Max(S) = a
<1>1. \A x \in S : (\A y \in S : x >= y) => x = a
  OBVIOUS
<1>2. QED
  BY <1>1 DEF Max

\* No score is above 500.
Cap(n) == Min({500, n})

\* The number a segment gives.
Rise4(s, x) == s[3] + ((x - s[1]) * s[4]) \div (s[2] - s[1])

\* x lies in segment i of n: it is beyond those before, and not beyond i.
Lies(table, n, x, i) ==
  /\ DOMAIN table = 1..n /\ Len(table) = n
  /\ n \in Nat \ {0} /\ x \in Nat /\ i \in 1..n
  /\ \A j \in 1..n : table[j][2] \in Nat
  /\ i = n \/ x <= table[i][2]
  /\ \A j \in 1..n : j < i => x > table[j][2]

\* The score is that of the segment where x lies.
LEMMA ScoreIn ==
  ASSUME NEW table, NEW n, NEW x, NEW i, Lies(table, n, x, i)
  PROVE  Score(table, x) = Cap(Rise4(table[i], x))
<1> DEFINE S == {j \in DOMAIN table : x <= table[j][2]} \cup {Len(table)}
<1>1. S \in SUBSET Int /\ i \in S /\ \A y \in S : i <= y
  BY DEF Lies
<1>2. Min(S) = i
  BY <1>1, MinIs
<1>3. QED
  BY <1>2 DEF Score, Rise4, Cap

\* A number on the way from a to b.
LEMMA Capped ==
  ASSUME NEW n \in Nat
  PROVE  (n <= 500 => Cap(n) = n) /\ (500 < n => Cap(n) = 500)
<1>1. Min({500, n}) = IF 500 <= n THEN 500 ELSE n
  BY MinOfTwo
<1>2. QED
  BY <1>1 DEF Cap

\* The score of fine particles, segment by segment.
LEMMA PM25Numbers ==
  ASSUME NEW x \in Nat, NEW y, y = Score(PM25Score, x)
  PROVE  /\ y \in Nat /\ y <= 500
         /\ x <= 120 => y = (x * 50) \div 120
         /\ 120 < x /\ x <= 354 => y = 50 + ((x - 120) * 50) \div 234
         /\ 354 < x /\ x <= 554 => y = 100 + ((x - 354) * 50) \div 200
         /\ 554 < x /\ x <= 1504 => y = 150 + ((x - 554) * 50) \div 950
         /\ 1504 < x /\ x <= 2504 => y = 200 + ((x - 1504) * 100) \div 1000
         /\ 2504 < x /\ x <= 5004 => y = 300 + ((x - 2504) * 200) \div 2500
         /\ 5004 < x => y = 500
<1>1. /\ DOMAIN PM25Score = 1..6 /\ Len(PM25Score) = 6
      /\ PM25Score[1] = <<0, 120, 0, 50>> /\ PM25Score[2] = <<120, 354, 50, 50>>
      /\ PM25Score[3] = <<354, 554, 100, 50>> /\ PM25Score[4] = <<554, 1504, 150, 50>>
      /\ PM25Score[5] = <<1504, 2504, 200, 100>> /\ PM25Score[6] = <<2504, 5004, 300, 200>>
  BY DEF PM25Score
<1>2. ASSUME x <= 120
      PROVE  y = (x * 50) \div 120 /\ y \in Nat /\ y <= 500
  <2>1. PICK n : n = (x * 50) \div 120
    OBVIOUS
  <2>2. n \in Nat /\ n <= 500
    BY <1>2, <2>1, SMT
  <2>3. Lies(PM25Score, 6, x, 1)
    BY <1>1, <1>2 DEF Lies
  <2>4. y = Cap(Rise4(PM25Score[1], x))
    BY <2>3, ScoreIn
  <2>5. Rise4(PM25Score[1], x) = n
    BY <1>1, <2>1 DEF Rise4
  <2>6. QED
    BY <2>1, <2>2, <2>4, <2>5, Capped
<1>3. ASSUME 120 < x /\ x <= 354
      PROVE  y = 50 + ((x - 120) * 50) \div 234 /\ y \in Nat /\ y <= 500
  <2>1. PICK n : n = 50 + ((x - 120) * 50) \div 234
    OBVIOUS
  <2>2. n \in Nat /\ n <= 500
    BY <1>3, <2>1, SMT
  <2>3. Lies(PM25Score, 6, x, 2)
    BY <1>1, <1>3 DEF Lies
  <2>4. y = Cap(Rise4(PM25Score[2], x))
    BY <2>3, ScoreIn
  <2>5. Rise4(PM25Score[2], x) = n
    BY <1>1, <2>1 DEF Rise4
  <2>6. QED
    BY <2>1, <2>2, <2>4, <2>5, Capped
<1>4. ASSUME 354 < x /\ x <= 554
      PROVE  y = 100 + ((x - 354) * 50) \div 200 /\ y \in Nat /\ y <= 500
  <2>1. PICK n : n = 100 + ((x - 354) * 50) \div 200
    OBVIOUS
  <2>2. n \in Nat /\ n <= 500
    BY <1>4, <2>1, SMT
  <2>3. Lies(PM25Score, 6, x, 3)
    BY <1>1, <1>4 DEF Lies
  <2>4. y = Cap(Rise4(PM25Score[3], x))
    BY <2>3, ScoreIn
  <2>5. Rise4(PM25Score[3], x) = n
    BY <1>1, <2>1 DEF Rise4
  <2>6. QED
    BY <2>1, <2>2, <2>4, <2>5, Capped
<1>5. ASSUME 554 < x /\ x <= 1504
      PROVE  y = 150 + ((x - 554) * 50) \div 950 /\ y \in Nat /\ y <= 500
  <2>1. PICK n : n = 150 + ((x - 554) * 50) \div 950
    OBVIOUS
  <2>2. n \in Nat /\ n <= 500
    BY <1>5, <2>1, SMT
  <2>3. Lies(PM25Score, 6, x, 4)
    BY <1>1, <1>5 DEF Lies
  <2>4. y = Cap(Rise4(PM25Score[4], x))
    BY <2>3, ScoreIn
  <2>5. Rise4(PM25Score[4], x) = n
    BY <1>1, <2>1 DEF Rise4
  <2>6. QED
    BY <2>1, <2>2, <2>4, <2>5, Capped
<1>6. ASSUME 1504 < x /\ x <= 2504
      PROVE  y = 200 + ((x - 1504) * 100) \div 1000 /\ y \in Nat /\ y <= 500
  <2>1. PICK n : n = 200 + ((x - 1504) * 100) \div 1000
    OBVIOUS
  <2>2. n \in Nat /\ n <= 500
    BY <1>6, <2>1, SMT
  <2>3. Lies(PM25Score, 6, x, 5)
    BY <1>1, <1>6 DEF Lies
  <2>4. y = Cap(Rise4(PM25Score[5], x))
    BY <2>3, ScoreIn
  <2>5. Rise4(PM25Score[5], x) = n
    BY <1>1, <2>1 DEF Rise4
  <2>6. QED
    BY <2>1, <2>2, <2>4, <2>5, Capped
<1>7. ASSUME 2504 < x /\ x <= 5004
      PROVE  y = 300 + ((x - 2504) * 200) \div 2500 /\ y \in Nat /\ y <= 500
  <2>1. PICK n : n = 300 + ((x - 2504) * 200) \div 2500
    OBVIOUS
  <2>2. n \in Nat /\ n <= 500
    BY <1>7, <2>1, SMT
  <2>3. Lies(PM25Score, 6, x, 6)
    BY <1>1, <1>7 DEF Lies
  <2>4. y = Cap(Rise4(PM25Score[6], x))
    BY <2>3, ScoreIn
  <2>5. Rise4(PM25Score[6], x) = n
    BY <1>1, <2>1 DEF Rise4
  <2>6. QED
    BY <2>1, <2>2, <2>4, <2>5, Capped
<1>8. ASSUME 5004 < x
      PROVE  y = 500
  <2>1. PICK n : n = 300 + ((x - 2504) * 200) \div 2500
    OBVIOUS
  <2>2. n \in Nat /\ 500 <= n
    BY <1>8, <2>1, SMT
  <2>3. Lies(PM25Score, 6, x, 6)
    BY <1>1, <1>8 DEF Lies
  <2>4. y = Cap(Rise4(PM25Score[6], x))
    BY <2>3, ScoreIn
  <2>5. Rise4(PM25Score[6], x) = n
    BY <1>1, <2>1 DEF Rise4
  <2>6. QED
    BY <2>1, <2>2, <2>4, <2>5, Capped
<1>9. QED
  BY <1>2, <1>3, <1>4, <1>5, <1>6, <1>7, <1>8

\* The score of organic compounds, segment by segment.
LEMMA VOCNumbers ==
  ASSUME NEW x \in Nat, NEW y, y = Score(VOCScore, x)
  PROVE  /\ y \in Nat /\ y <= 500
         /\ x <= 100 => y = (x * 50) \div 100
         /\ 100 < x /\ x <= 200 => y = 50 + ((x - 100) * 50) \div 100
         /\ 200 < x /\ x <= 300 => y = 100 + ((x - 200) * 50) \div 100
         /\ 300 < x /\ x <= 400 => y = 150 + ((x - 300) * 50) \div 100
         /\ 400 < x /\ x <= 1000 => y = 200 + ((x - 400) * 50) \div 100
         /\ 1000 < x => y = 500
<1>1. /\ DOMAIN VOCScore = 1..5 /\ Len(VOCScore) = 5
      /\ VOCScore[1] = <<0, 100, 0, 50>> /\ VOCScore[2] = <<100, 200, 50, 50>>
      /\ VOCScore[3] = <<200, 300, 100, 50>> /\ VOCScore[4] = <<300, 400, 150, 50>>
      /\ VOCScore[5] = <<400, 500, 200, 50>>
  BY DEF VOCScore
<1>2. ASSUME x <= 100
      PROVE  y = (x * 50) \div 100 /\ y \in Nat /\ y <= 500
  <2>1. PICK n : n = (x * 50) \div 100
    OBVIOUS
  <2>2. n \in Nat /\ n <= 500
    BY <1>2, <2>1, SMT
  <2>3. Lies(VOCScore, 5, x, 1)
    BY <1>1, <1>2 DEF Lies
  <2>4. y = Cap(Rise4(VOCScore[1], x))
    BY <2>3, ScoreIn
  <2>5. Rise4(VOCScore[1], x) = n
    BY <1>1, <2>1 DEF Rise4
  <2>6. QED
    BY <2>1, <2>2, <2>4, <2>5, Capped
<1>3. ASSUME 100 < x /\ x <= 200
      PROVE  y = 50 + ((x - 100) * 50) \div 100 /\ y \in Nat /\ y <= 500
  <2>1. PICK n : n = 50 + ((x - 100) * 50) \div 100
    OBVIOUS
  <2>2. n \in Nat /\ n <= 500
    BY <1>3, <2>1, SMT
  <2>3. Lies(VOCScore, 5, x, 2)
    BY <1>1, <1>3 DEF Lies
  <2>4. y = Cap(Rise4(VOCScore[2], x))
    BY <2>3, ScoreIn
  <2>5. Rise4(VOCScore[2], x) = n
    BY <1>1, <2>1 DEF Rise4
  <2>6. QED
    BY <2>1, <2>2, <2>4, <2>5, Capped
<1>4. ASSUME 200 < x /\ x <= 300
      PROVE  y = 100 + ((x - 200) * 50) \div 100 /\ y \in Nat /\ y <= 500
  <2>1. PICK n : n = 100 + ((x - 200) * 50) \div 100
    OBVIOUS
  <2>2. n \in Nat /\ n <= 500
    BY <1>4, <2>1, SMT
  <2>3. Lies(VOCScore, 5, x, 3)
    BY <1>1, <1>4 DEF Lies
  <2>4. y = Cap(Rise4(VOCScore[3], x))
    BY <2>3, ScoreIn
  <2>5. Rise4(VOCScore[3], x) = n
    BY <1>1, <2>1 DEF Rise4
  <2>6. QED
    BY <2>1, <2>2, <2>4, <2>5, Capped
<1>5. ASSUME 300 < x /\ x <= 400
      PROVE  y = 150 + ((x - 300) * 50) \div 100 /\ y \in Nat /\ y <= 500
  <2>1. PICK n : n = 150 + ((x - 300) * 50) \div 100
    OBVIOUS
  <2>2. n \in Nat /\ n <= 500
    BY <1>5, <2>1, SMT
  <2>3. Lies(VOCScore, 5, x, 4)
    BY <1>1, <1>5 DEF Lies
  <2>4. y = Cap(Rise4(VOCScore[4], x))
    BY <2>3, ScoreIn
  <2>5. Rise4(VOCScore[4], x) = n
    BY <1>1, <2>1 DEF Rise4
  <2>6. QED
    BY <2>1, <2>2, <2>4, <2>5, Capped
<1>6. ASSUME 400 < x /\ x <= 1000
      PROVE  y = 200 + ((x - 400) * 50) \div 100 /\ y \in Nat /\ y <= 500
  <2>1. PICK n : n = 200 + ((x - 400) * 50) \div 100
    OBVIOUS
  <2>2. n \in Nat /\ n <= 500
    BY <1>6, <2>1, SMT
  <2>3. Lies(VOCScore, 5, x, 5)
    BY <1>1, <1>6 DEF Lies
  <2>4. y = Cap(Rise4(VOCScore[5], x))
    BY <2>3, ScoreIn
  <2>5. Rise4(VOCScore[5], x) = n
    BY <1>1, <2>1 DEF Rise4
  <2>6. QED
    BY <2>1, <2>2, <2>4, <2>5, Capped
<1>7. ASSUME 1000 < x
      PROVE  y = 500
  <2>1. PICK n : n = 200 + ((x - 400) * 50) \div 100
    OBVIOUS
  <2>2. n \in Nat /\ 500 <= n
    BY <1>7, <2>1, SMT
  <2>3. Lies(VOCScore, 5, x, 5)
    BY <1>1, <1>7 DEF Lies
  <2>4. y = Cap(Rise4(VOCScore[5], x))
    BY <2>3, ScoreIn
  <2>5. Rise4(VOCScore[5], x) = n
    BY <1>1, <2>1 DEF Rise4
  <2>6. QED
    BY <2>1, <2>2, <2>4, <2>5, Capped
<1>8. QED
  BY <1>2, <1>3, <1>4, <1>5, <1>6, <1>7

\* The score of carbon dioxide, segment by segment.
LEMMA CO2Numbers ==
  ASSUME NEW x \in Nat, NEW y, y = Score(CO2Score, x)
  PROVE  /\ y \in Nat /\ y <= 500
         /\ x <= 600 => y = (x * 50) \div 600
         /\ 600 < x /\ x <= 1000 => y = 50 + ((x - 600) * 50) \div 400
         /\ 1000 < x /\ x <= 1500 => y = 100 + ((x - 1000) * 50) \div 500
         /\ 1500 < x /\ x <= 2000 => y = 150 + ((x - 1500) * 50) \div 500
         /\ 2000 < x /\ x <= 5000 => y = 200 + ((x - 2000) * 100) \div 1000
         /\ 5000 < x => y = 500
<1>1. /\ DOMAIN CO2Score = 1..5 /\ Len(CO2Score) = 5
      /\ CO2Score[1] = <<0, 600, 0, 50>> /\ CO2Score[2] = <<600, 1000, 50, 50>>
      /\ CO2Score[3] = <<1000, 1500, 100, 50>> /\ CO2Score[4] = <<1500, 2000, 150, 50>>
      /\ CO2Score[5] = <<2000, 3000, 200, 100>>
  BY DEF CO2Score
<1>2. ASSUME x <= 600
      PROVE  y = (x * 50) \div 600 /\ y \in Nat /\ y <= 500
  <2>1. PICK n : n = (x * 50) \div 600
    OBVIOUS
  <2>2. n \in Nat /\ n <= 500
    BY <1>2, <2>1, SMT
  <2>3. Lies(CO2Score, 5, x, 1)
    BY <1>1, <1>2 DEF Lies
  <2>4. y = Cap(Rise4(CO2Score[1], x))
    BY <2>3, ScoreIn
  <2>5. Rise4(CO2Score[1], x) = n
    BY <1>1, <2>1 DEF Rise4
  <2>6. QED
    BY <2>1, <2>2, <2>4, <2>5, Capped
<1>3. ASSUME 600 < x /\ x <= 1000
      PROVE  y = 50 + ((x - 600) * 50) \div 400 /\ y \in Nat /\ y <= 500
  <2>1. PICK n : n = 50 + ((x - 600) * 50) \div 400
    OBVIOUS
  <2>2. n \in Nat /\ n <= 500
    BY <1>3, <2>1, SMT
  <2>3. Lies(CO2Score, 5, x, 2)
    BY <1>1, <1>3 DEF Lies
  <2>4. y = Cap(Rise4(CO2Score[2], x))
    BY <2>3, ScoreIn
  <2>5. Rise4(CO2Score[2], x) = n
    BY <1>1, <2>1 DEF Rise4
  <2>6. QED
    BY <2>1, <2>2, <2>4, <2>5, Capped
<1>4. ASSUME 1000 < x /\ x <= 1500
      PROVE  y = 100 + ((x - 1000) * 50) \div 500 /\ y \in Nat /\ y <= 500
  <2>1. PICK n : n = 100 + ((x - 1000) * 50) \div 500
    OBVIOUS
  <2>2. n \in Nat /\ n <= 500
    BY <1>4, <2>1, SMT
  <2>3. Lies(CO2Score, 5, x, 3)
    BY <1>1, <1>4 DEF Lies
  <2>4. y = Cap(Rise4(CO2Score[3], x))
    BY <2>3, ScoreIn
  <2>5. Rise4(CO2Score[3], x) = n
    BY <1>1, <2>1 DEF Rise4
  <2>6. QED
    BY <2>1, <2>2, <2>4, <2>5, Capped
<1>5. ASSUME 1500 < x /\ x <= 2000
      PROVE  y = 150 + ((x - 1500) * 50) \div 500 /\ y \in Nat /\ y <= 500
  <2>1. PICK n : n = 150 + ((x - 1500) * 50) \div 500
    OBVIOUS
  <2>2. n \in Nat /\ n <= 500
    BY <1>5, <2>1, SMT
  <2>3. Lies(CO2Score, 5, x, 4)
    BY <1>1, <1>5 DEF Lies
  <2>4. y = Cap(Rise4(CO2Score[4], x))
    BY <2>3, ScoreIn
  <2>5. Rise4(CO2Score[4], x) = n
    BY <1>1, <2>1 DEF Rise4
  <2>6. QED
    BY <2>1, <2>2, <2>4, <2>5, Capped
<1>6. ASSUME 2000 < x /\ x <= 5000
      PROVE  y = 200 + ((x - 2000) * 100) \div 1000 /\ y \in Nat /\ y <= 500
  <2>1. PICK n : n = 200 + ((x - 2000) * 100) \div 1000
    OBVIOUS
  <2>2. n \in Nat /\ n <= 500
    BY <1>6, <2>1, SMT
  <2>3. Lies(CO2Score, 5, x, 5)
    BY <1>1, <1>6 DEF Lies
  <2>4. y = Cap(Rise4(CO2Score[5], x))
    BY <2>3, ScoreIn
  <2>5. Rise4(CO2Score[5], x) = n
    BY <1>1, <2>1 DEF Rise4
  <2>6. QED
    BY <2>1, <2>2, <2>4, <2>5, Capped
<1>7. ASSUME 5000 < x
      PROVE  y = 500
  <2>1. PICK n : n = 200 + ((x - 2000) * 100) \div 1000
    OBVIOUS
  <2>2. n \in Nat /\ 500 <= n
    BY <1>7, <2>1, SMT
  <2>3. Lies(CO2Score, 5, x, 5)
    BY <1>1, <1>7 DEF Lies
  <2>4. y = Cap(Rise4(CO2Score[5], x))
    BY <2>3, ScoreIn
  <2>5. Rise4(CO2Score[5], x) = n
    BY <1>1, <2>1 DEF Rise4
  <2>6. QED
    BY <2>1, <2>2, <2>4, <2>5, Capped
<1>8. QED
  BY <1>2, <1>3, <1>4, <1>5, <1>6, <1>7

\* A unit more never scores less, and never more than one more.
LEMMA PM25Rises ==
  ASSUME NEW x \in Nat, NEW y, y = Score(PM25Score, x), NEW z, z = Score(PM25Score, x + 1)
  PROVE  y \in Nat /\ y <= 500 /\ (z = y \/ z = y + 1)
<1>1. PICK u \in Nat : u = x + 1
  OBVIOUS
<1>2. y \in Nat /\ y <= 500
  BY PM25Numbers
<1>3. CASE x < 120
  <2>1. y = (x * 50) \div 120
    BY <1>3, PM25Numbers, SMT
  <2>2. z = (u * 50) \div 120
    <3>1. u <= 120 /\ z = Score(PM25Score, u)
      BY <1>1, <1>3
    <3>2. QED
      BY <3>1, PM25Numbers
  <2>3. PICK w : w = x * 50
    OBVIOUS
  <2>4. w \in Nat
    BY <1>3, <2>3, SMT
  <2>5. y = w \div 120 /\ z = (w + 50) \div 120
    <3>1. u * 50 = w + 50
      BY <1>1, <2>3, SMT
    <3>2. QED
      BY <2>1, <2>2, <2>3, <3>1
  <2>6. (w + 50) \div 120 = w \div 120 \/ (w + 50) \div 120 = w \div 120 + 1
    BY <2>4, SMT
  <2>7. w \div 120 \in Int
    BY <2>4, SMT
  <2>8. QED
    BY <1>2, <2>5, <2>6, <2>7, SMT
<1>4. CASE x = 120
  BY <1>1, <1>2, <1>4, PM25Numbers, SMT
<1>5. CASE 120 < x /\ x < 354
  <2>1. y = 50 + ((x - 120) * 50) \div 234
    BY <1>5, PM25Numbers, SMT
  <2>2. z = 50 + ((u - 120) * 50) \div 234
    BY <1>1, <1>5, PM25Numbers, SMT
  <2>3. PICK w : w = (x - 120) * 50
    OBVIOUS
  <2>4. w \in Nat
    BY <1>5, <2>3, SMT
  <2>5. y = 50 + w \div 234 /\ z = 50 + (w + 50) \div 234
    <3>1. (u - 120) * 50 = w + 50
      BY <1>1, <2>3, SMT
    <3>2. QED
      BY <2>1, <2>2, <2>3, <3>1
  <2>6. (w + 50) \div 234 = w \div 234 \/ (w + 50) \div 234 = w \div 234 + 1
    BY <2>4, SMT
  <2>7. w \div 234 \in Int
    BY <2>4, SMT
  <2>8. QED
    BY <1>2, <2>5, <2>6, <2>7, SMT
<1>6. CASE x = 354
  BY <1>1, <1>2, <1>6, PM25Numbers, SMT
<1>7. CASE 354 < x /\ x < 554
  <2>1. y = 100 + ((x - 354) * 50) \div 200
    BY <1>7, PM25Numbers, SMT
  <2>2. z = 100 + ((u - 354) * 50) \div 200
    BY <1>1, <1>7, PM25Numbers, SMT
  <2>3. PICK w : w = (x - 354) * 50
    OBVIOUS
  <2>4. w \in Nat
    BY <1>7, <2>3, SMT
  <2>5. y = 100 + w \div 200 /\ z = 100 + (w + 50) \div 200
    <3>1. (u - 354) * 50 = w + 50
      BY <1>1, <2>3, SMT
    <3>2. QED
      BY <2>1, <2>2, <2>3, <3>1
  <2>6. (w + 50) \div 200 = w \div 200 \/ (w + 50) \div 200 = w \div 200 + 1
    BY <2>4, SMT
  <2>7. w \div 200 \in Int
    BY <2>4, SMT
  <2>8. QED
    BY <1>2, <2>5, <2>6, <2>7, SMT
<1>8. CASE x = 554
  BY <1>1, <1>2, <1>8, PM25Numbers, SMT
<1>9. CASE 554 < x /\ x < 1504
  <2>1. y = 150 + ((x - 554) * 50) \div 950
    BY <1>9, PM25Numbers, SMT
  <2>2. z = 150 + ((u - 554) * 50) \div 950
    BY <1>1, <1>9, PM25Numbers, SMT
  <2>3. PICK w : w = (x - 554) * 50
    OBVIOUS
  <2>4. w \in Nat
    BY <1>9, <2>3, SMT
  <2>5. y = 150 + w \div 950 /\ z = 150 + (w + 50) \div 950
    <3>1. (u - 554) * 50 = w + 50
      BY <1>1, <2>3, SMT
    <3>2. QED
      BY <2>1, <2>2, <2>3, <3>1
  <2>6. (w + 50) \div 950 = w \div 950 \/ (w + 50) \div 950 = w \div 950 + 1
    BY <2>4, SMT
  <2>7. w \div 950 \in Int
    BY <2>4, SMT
  <2>8. QED
    BY <1>2, <2>5, <2>6, <2>7, SMT
<1>10. CASE x = 1504
  BY <1>1, <1>2, <1>10, PM25Numbers, SMT
<1>11. CASE 1504 < x /\ x < 2504
  <2>1. y = 200 + ((x - 1504) * 100) \div 1000
    BY <1>11, PM25Numbers, SMT
  <2>2. z = 200 + ((u - 1504) * 100) \div 1000
    BY <1>1, <1>11, PM25Numbers, SMT
  <2>3. PICK w : w = (x - 1504) * 100
    OBVIOUS
  <2>4. w \in Nat
    BY <1>11, <2>3, SMT
  <2>5. y = 200 + w \div 1000 /\ z = 200 + (w + 100) \div 1000
    <3>1. (u - 1504) * 100 = w + 100
      BY <1>1, <2>3, SMT
    <3>2. QED
      BY <2>1, <2>2, <2>3, <3>1
  <2>6. (w + 100) \div 1000 = w \div 1000 \/ (w + 100) \div 1000 = w \div 1000 + 1
    BY <2>4, SMT
  <2>7. w \div 1000 \in Int
    BY <2>4, SMT
  <2>8. QED
    BY <1>2, <2>5, <2>6, <2>7, SMT
<1>12. CASE x = 2504
  BY <1>1, <1>2, <1>12, PM25Numbers, SMT
<1>13. CASE 2504 < x /\ x < 5004
  <2>1. y = 300 + ((x - 2504) * 200) \div 2500
    BY <1>13, PM25Numbers, SMT
  <2>2. z = 300 + ((u - 2504) * 200) \div 2500
    BY <1>1, <1>13, PM25Numbers, SMT
  <2>3. PICK w : w = (x - 2504) * 200
    OBVIOUS
  <2>4. w \in Nat
    BY <1>13, <2>3, SMT
  <2>5. y = 300 + w \div 2500 /\ z = 300 + (w + 200) \div 2500
    <3>1. (u - 2504) * 200 = w + 200
      BY <1>1, <2>3, SMT
    <3>2. QED
      BY <2>1, <2>2, <2>3, <3>1
  <2>6. (w + 200) \div 2500 = w \div 2500 \/ (w + 200) \div 2500 = w \div 2500 + 1
    BY <2>4, SMT
  <2>7. w \div 2500 \in Int
    BY <2>4, SMT
  <2>8. QED
    BY <1>2, <2>5, <2>6, <2>7, SMT
<1>14. CASE x = 5004
  BY <1>1, <1>2, <1>14, PM25Numbers, SMT
<1>15. CASE 5004 < x
  BY <1>1, <1>2, <1>15, PM25Numbers, SMT
<1>16. QED
  BY <1>3, <1>4, <1>5, <1>6, <1>7, <1>8, <1>9, <1>10, <1>11, <1>12, <1>13, <1>14, <1>15, SMT

\* A unit more never scores less, and never more than one more.
LEMMA VOCRises ==
  ASSUME NEW x \in Nat, NEW y, y = Score(VOCScore, x), NEW z, z = Score(VOCScore, x + 1)
  PROVE  y \in Nat /\ y <= 500 /\ (z = y \/ z = y + 1)
<1>1. PICK u \in Nat : u = x + 1
  OBVIOUS
<1>2. y \in Nat /\ y <= 500
  BY VOCNumbers
<1>3. CASE x < 100
  <2>1. y = (x * 50) \div 100
    BY <1>3, VOCNumbers, SMT
  <2>2. z = (u * 50) \div 100
    BY <1>1, <1>3, VOCNumbers, SMT
  <2>3. PICK w : w = x * 50
    OBVIOUS
  <2>4. w \in Nat
    BY <1>3, <2>3, SMT
  <2>5. y = w \div 100 /\ z = (w + 50) \div 100
    <3>1. u * 50 = w + 50
      BY <1>1, <2>3, SMT
    <3>2. QED
      BY <2>1, <2>2, <2>3, <3>1
  <2>6. (w + 50) \div 100 = w \div 100 \/ (w + 50) \div 100 = w \div 100 + 1
    BY <2>4, SMT
  <2>7. w \div 100 \in Int
    BY <2>4, SMT
  <2>8. QED
    BY <1>2, <2>5, <2>6, <2>7, SMT
<1>4. CASE x = 100
  BY <1>1, <1>2, <1>4, VOCNumbers, SMT
<1>5. CASE 100 < x /\ x < 200
  <2>1. y = 50 + ((x - 100) * 50) \div 100
    BY <1>5, VOCNumbers, SMT
  <2>2. z = 50 + ((u - 100) * 50) \div 100
    BY <1>1, <1>5, VOCNumbers, SMT
  <2>3. PICK w : w = (x - 100) * 50
    OBVIOUS
  <2>4. w \in Nat
    BY <1>5, <2>3, SMT
  <2>5. y = 50 + w \div 100 /\ z = 50 + (w + 50) \div 100
    <3>1. (u - 100) * 50 = w + 50
      BY <1>1, <2>3, SMT
    <3>2. QED
      BY <2>1, <2>2, <2>3, <3>1
  <2>6. (w + 50) \div 100 = w \div 100 \/ (w + 50) \div 100 = w \div 100 + 1
    BY <2>4, SMT
  <2>7. w \div 100 \in Int
    BY <2>4, SMT
  <2>8. QED
    BY <1>2, <2>5, <2>6, <2>7, SMT
<1>6. CASE x = 200
  BY <1>1, <1>2, <1>6, VOCNumbers, SMT
<1>7. CASE 200 < x /\ x < 300
  <2>1. y = 100 + ((x - 200) * 50) \div 100
    BY <1>7, VOCNumbers, SMT
  <2>2. z = 100 + ((u - 200) * 50) \div 100
    BY <1>1, <1>7, VOCNumbers, SMT
  <2>3. PICK w : w = (x - 200) * 50
    OBVIOUS
  <2>4. w \in Nat
    BY <1>7, <2>3, SMT
  <2>5. y = 100 + w \div 100 /\ z = 100 + (w + 50) \div 100
    <3>1. (u - 200) * 50 = w + 50
      BY <1>1, <2>3, SMT
    <3>2. QED
      BY <2>1, <2>2, <2>3, <3>1
  <2>6. (w + 50) \div 100 = w \div 100 \/ (w + 50) \div 100 = w \div 100 + 1
    BY <2>4, SMT
  <2>7. w \div 100 \in Int
    BY <2>4, SMT
  <2>8. QED
    BY <1>2, <2>5, <2>6, <2>7, SMT
<1>8. CASE x = 300
  BY <1>1, <1>2, <1>8, VOCNumbers, SMT
<1>9. CASE 300 < x /\ x < 400
  <2>1. y = 150 + ((x - 300) * 50) \div 100
    BY <1>9, VOCNumbers, SMT
  <2>2. z = 150 + ((u - 300) * 50) \div 100
    BY <1>1, <1>9, VOCNumbers, SMT
  <2>3. PICK w : w = (x - 300) * 50
    OBVIOUS
  <2>4. w \in Nat
    BY <1>9, <2>3, SMT
  <2>5. y = 150 + w \div 100 /\ z = 150 + (w + 50) \div 100
    <3>1. (u - 300) * 50 = w + 50
      BY <1>1, <2>3, SMT
    <3>2. QED
      BY <2>1, <2>2, <2>3, <3>1
  <2>6. (w + 50) \div 100 = w \div 100 \/ (w + 50) \div 100 = w \div 100 + 1
    BY <2>4, SMT
  <2>7. w \div 100 \in Int
    BY <2>4, SMT
  <2>8. QED
    BY <1>2, <2>5, <2>6, <2>7, SMT
<1>10. CASE x = 400
  BY <1>1, <1>2, <1>10, VOCNumbers, SMT
<1>11. CASE 400 < x /\ x < 1000
  <2>1. y = 200 + ((x - 400) * 50) \div 100
    BY <1>11, VOCNumbers, SMT
  <2>2. z = 200 + ((u - 400) * 50) \div 100
    BY <1>1, <1>11, VOCNumbers, SMT
  <2>3. PICK w : w = (x - 400) * 50
    OBVIOUS
  <2>4. w \in Nat
    BY <1>11, <2>3, SMT
  <2>5. y = 200 + w \div 100 /\ z = 200 + (w + 50) \div 100
    <3>1. (u - 400) * 50 = w + 50
      BY <1>1, <2>3, SMT
    <3>2. QED
      BY <2>1, <2>2, <2>3, <3>1
  <2>6. (w + 50) \div 100 = w \div 100 \/ (w + 50) \div 100 = w \div 100 + 1
    BY <2>4, SMT
  <2>7. w \div 100 \in Int
    BY <2>4, SMT
  <2>8. QED
    BY <1>2, <2>5, <2>6, <2>7, SMT
<1>12. CASE x = 1000
  BY <1>1, <1>2, <1>12, VOCNumbers, SMT
<1>13. CASE 1000 < x
  BY <1>1, <1>2, <1>13, VOCNumbers, SMT
<1>14. QED
  BY <1>3, <1>4, <1>5, <1>6, <1>7, <1>8, <1>9, <1>10, <1>11, <1>12, <1>13, SMT

\* A unit more never scores less, and never more than one more.
LEMMA CO2Rises ==
  ASSUME NEW x \in Nat, NEW y, y = Score(CO2Score, x), NEW z, z = Score(CO2Score, x + 1)
  PROVE  y \in Nat /\ y <= 500 /\ (z = y \/ z = y + 1)
<1>1. PICK u \in Nat : u = x + 1
  OBVIOUS
<1>2. y \in Nat /\ y <= 500
  BY CO2Numbers
<1>3. CASE x < 600
  <2>1. y = (x * 50) \div 600
    BY <1>3, CO2Numbers, SMT
  <2>2. z = (u * 50) \div 600
    BY <1>1, <1>3, CO2Numbers, SMT
  <2>3. PICK w : w = x * 50
    OBVIOUS
  <2>4. w \in Nat
    BY <1>3, <2>3, SMT
  <2>5. y = w \div 600 /\ z = (w + 50) \div 600
    <3>1. u * 50 = w + 50
      BY <1>1, <2>3, SMT
    <3>2. QED
      BY <2>1, <2>2, <2>3, <3>1
  <2>6. (w + 50) \div 600 = w \div 600 \/ (w + 50) \div 600 = w \div 600 + 1
    BY <2>4, SMT
  <2>7. w \div 600 \in Int
    BY <2>4, SMT
  <2>8. QED
    BY <1>2, <2>5, <2>6, <2>7, SMT
<1>4. CASE x = 600
  BY <1>1, <1>2, <1>4, CO2Numbers, SMT
<1>5. CASE 600 < x /\ x < 1000
  <2>1. y = 50 + ((x - 600) * 50) \div 400
    BY <1>5, CO2Numbers, SMT
  <2>2. z = 50 + ((u - 600) * 50) \div 400
    BY <1>1, <1>5, CO2Numbers, SMT
  <2>3. PICK w : w = (x - 600) * 50
    OBVIOUS
  <2>4. w \in Nat
    BY <1>5, <2>3, SMT
  <2>5. y = 50 + w \div 400 /\ z = 50 + (w + 50) \div 400
    <3>1. (u - 600) * 50 = w + 50
      BY <1>1, <2>3, SMT
    <3>2. QED
      BY <2>1, <2>2, <2>3, <3>1
  <2>6. (w + 50) \div 400 = w \div 400 \/ (w + 50) \div 400 = w \div 400 + 1
    BY <2>4, SMT
  <2>7. w \div 400 \in Int
    BY <2>4, SMT
  <2>8. QED
    BY <1>2, <2>5, <2>6, <2>7, SMT
<1>6. CASE x = 1000
  BY <1>1, <1>2, <1>6, CO2Numbers, SMT
<1>7. CASE 1000 < x /\ x < 1500
  <2>1. y = 100 + ((x - 1000) * 50) \div 500
    BY <1>7, CO2Numbers, SMT
  <2>2. z = 100 + ((u - 1000) * 50) \div 500
    BY <1>1, <1>7, CO2Numbers, SMT
  <2>3. PICK w : w = (x - 1000) * 50
    OBVIOUS
  <2>4. w \in Nat
    BY <1>7, <2>3, SMT
  <2>5. y = 100 + w \div 500 /\ z = 100 + (w + 50) \div 500
    <3>1. (u - 1000) * 50 = w + 50
      BY <1>1, <2>3, SMT
    <3>2. QED
      BY <2>1, <2>2, <2>3, <3>1
  <2>6. (w + 50) \div 500 = w \div 500 \/ (w + 50) \div 500 = w \div 500 + 1
    BY <2>4, SMT
  <2>7. w \div 500 \in Int
    BY <2>4, SMT
  <2>8. QED
    BY <1>2, <2>5, <2>6, <2>7, SMT
<1>8. CASE x = 1500
  BY <1>1, <1>2, <1>8, CO2Numbers, SMT
<1>9. CASE 1500 < x /\ x < 2000
  <2>1. y = 150 + ((x - 1500) * 50) \div 500
    BY <1>9, CO2Numbers, SMT
  <2>2. z = 150 + ((u - 1500) * 50) \div 500
    BY <1>1, <1>9, CO2Numbers, SMT
  <2>3. PICK w : w = (x - 1500) * 50
    OBVIOUS
  <2>4. w \in Nat
    BY <1>9, <2>3, SMT
  <2>5. y = 150 + w \div 500 /\ z = 150 + (w + 50) \div 500
    <3>1. (u - 1500) * 50 = w + 50
      BY <1>1, <2>3, SMT
    <3>2. QED
      BY <2>1, <2>2, <2>3, <3>1
  <2>6. (w + 50) \div 500 = w \div 500 \/ (w + 50) \div 500 = w \div 500 + 1
    BY <2>4, SMT
  <2>7. w \div 500 \in Int
    BY <2>4, SMT
  <2>8. QED
    BY <1>2, <2>5, <2>6, <2>7, SMT
<1>10. CASE x = 2000
  BY <1>1, <1>2, <1>10, CO2Numbers, SMT
<1>11. CASE 2000 < x /\ x < 5000
  <2>1. y = 200 + ((x - 2000) * 100) \div 1000
    BY <1>11, CO2Numbers, SMT
  <2>2. z = 200 + ((u - 2000) * 100) \div 1000
    BY <1>1, <1>11, CO2Numbers, SMT
  <2>3. PICK w : w = (x - 2000) * 100
    OBVIOUS
  <2>4. w \in Nat
    BY <1>11, <2>3, SMT
  <2>5. y = 200 + w \div 1000 /\ z = 200 + (w + 100) \div 1000
    <3>1. (u - 2000) * 100 = w + 100
      BY <1>1, <2>3, SMT
    <3>2. QED
      BY <2>1, <2>2, <2>3, <3>1
  <2>6. (w + 100) \div 1000 = w \div 1000 \/ (w + 100) \div 1000 = w \div 1000 + 1
    BY <2>4, SMT
  <2>7. w \div 1000 \in Int
    BY <2>4, SMT
  <2>8. QED
    BY <1>2, <2>5, <2>6, <2>7, SMT
<1>12. CASE x = 5000
  BY <1>1, <1>2, <1>12, CO2Numbers, SMT
<1>13. CASE 5000 < x
  BY <1>1, <1>2, <1>13, CO2Numbers, SMT
<1>14. QED
  BY <1>3, <1>4, <1>5, <1>6, <1>7, <1>8, <1>9, <1>10, <1>11, <1>12, <1>13, SMT

\* The score of a pollutant; that of fine particles is rounded down at some points.
ScoreOf(k, x) ==
  CASE k = "pm2_5" -> Score(PM25Score, x) - (IF x \in RoundedDown THEN 1 ELSE 0)
    [] k = "voc_index" -> Score(VOCScore, x)
    [] k = "co2" -> Score(CO2Score, x)

LEMMA ParticlesRise ==
  ASSUME NEW x \in Nat, NEW y, y = ScoreOf("pm2_5", x), NEW z, z = ScoreOf("pm2_5", x + 1)
  PROVE  y \in Nat /\ y <= 500 /\ (z = y \/ z = y + 1)
<1>1. PICK a : a = Score(PM25Score, x)
  OBVIOUS
<1>2. PICK b : b = Score(PM25Score, x + 1)
  OBVIOUS
<1>3. a \in Nat /\ a <= 500 /\ (b = a \/ b = a + 1)
  BY <1>1, <1>2, PM25Rises
<1>4. /\ y = a - (IF x \in RoundedDown THEN 1 ELSE 0)
      /\ z = b - (IF x + 1 \in RoundedDown THEN 1 ELSE 0)
  BY <1>1, <1>2 DEF ScoreOf
<1>5. CASE x \notin RoundedDown /\ x + 1 \notin RoundedDown
  BY <1>3, <1>4, <1>5
<1>6. ASSUME NEW u \in RoundedDown
      PROVE  Score(PM25Score, u) = Score(PM25Score, u - 1) + 1
             /\ Score(PM25Score, u + 1) = Score(PM25Score, u)
             /\ u \in Nat \ {0} /\ u + 1 \notin RoundedDown
  <2>1. u = 668 \/ u = 1200 \/ u = 1295 \/ u = 1371 \/ u = 1466
    BY DEF RoundedDown
  <2>2. u - 1 \in Nat /\ u \in Nat /\ u + 1 \in Nat /\ u + 1 \notin RoundedDown /\ u # 0
    BY <2>1 DEF RoundedDown
  <2>3. /\ Score(PM25Score, u - 1) = 150 + ((u - 1 - 554) * 50) \div 950
        /\ Score(PM25Score, u) = 150 + ((u - 554) * 50) \div 950
        /\ Score(PM25Score, u + 1) = 150 + ((u + 1 - 554) * 50) \div 950
    BY <2>1, <2>2, PM25Numbers, SMT
  <2>4. QED
    BY <2>1, <2>2, <2>3
<1>7. CASE x \in RoundedDown
  <2>1. PICK c : c = Score(PM25Score, x - 1)
    OBVIOUS
  <2>2. a = c + 1 /\ b = a /\ x # 0 /\ x + 1 \notin RoundedDown
    BY <1>1, <1>2, <1>6, <1>7, <2>1
  <2>3. x - 1 \in Nat
    BY <2>2
  <2>4. c \in Nat
    BY <2>1, <2>3, PM25Rises
  <2>5. QED
    BY <1>3, <1>4, <1>7, <2>2, <2>4
<1>8. CASE x + 1 \in RoundedDown
  <2>1. x + 1 - 1 = x
    OBVIOUS
  <2>2. b = a + 1 /\ x \notin RoundedDown
    BY <1>1, <1>2, <1>6, <1>8, <2>1
  <2>3. QED
    BY <1>3, <1>4, <1>8, <2>2
<1>9. QED
  BY <1>5, <1>7, <1>8

LEMMA ScoreRises ==
  ASSUME NEW k \in Pollutants, NEW x \in Nat,
         NEW y, y = ScoreOf(k, x), NEW z, z = ScoreOf(k, x + 1)
  PROVE  y \in Nat /\ y <= 500 /\ (z = y \/ z = y + 1)
<1>1. CASE k = "pm2_5"
  BY <1>1, ParticlesRise
<1>2. CASE k = "voc_index"
  BY <1>2, VOCRises DEF ScoreOf
<1>3. CASE k = "co2"
  BY <1>3, CO2Rises DEF ScoreOf
<1>4. QED
  BY <1>1, <1>2, <1>3 DEF Pollutants

\* Next to no pollutant scores nothing.
LEMMA CleanScore ==
  ASSUME NEW k \in Pollutants
  PROVE  ScoreOf(k, 0) = 0 /\ ScoreOf(k, 1) = 0
<1>1. /\ Score(PM25Score, 0) = 0 /\ Score(PM25Score, 1) = 0
      /\ 0 \notin RoundedDown /\ 1 \notin RoundedDown
  BY PM25Numbers DEF RoundedDown
<1>2. Score(VOCScore, 0) = 0 /\ Score(VOCScore, 1) = 0
  BY VOCNumbers
<1>3. Score(CO2Score, 0) = 0 /\ Score(CO2Score, 1) = 0
  BY CO2Numbers
<1>4. QED
  BY <1>1, <1>2, <1>3 DEF Pollutants, ScoreOf

LEMMA ScoresAre ==
  ASSUME NEW v
  PROVE  Scores(v) = {ScoreOf(k, v[k]) : k \in Pollutants \cap DOMAIN v}
BY DEF Scores, ScoreOf, Pollutants

\* The index is the score of the worst pollutant.
LEMMA Worst ==
  ASSUME NEW v, NEW m, m = Max(Scores(v)),
         \A k \in Pollutants \cap DOMAIN v : v[k] \in Nat, Scores(v) # {}
  PROVE  /\ \E k \in Pollutants \cap DOMAIN v : m = ScoreOf(k, v[k])
         /\ \A k \in Pollutants \cap DOMAIN v : ScoreOf(k, v[k]) <= m
         /\ m \in Nat /\ m <= 500
<1>1. \A k \in Pollutants \cap DOMAIN v : ScoreOf(k, v[k]) \in Nat /\ ScoreOf(k, v[k]) <= 500
  <2>1. TAKE k \in Pollutants \cap DOMAIN v
  <2>2. PICK x \in Nat : x = v[k]
    OBVIOUS
  <2>3. PICK y : y = ScoreOf(k, x)
    OBVIOUS
  <2>4. y \in Nat /\ y <= 500
    BY <2>3, ScoreRises
  <2>5. QED
    BY <2>2, <2>3, <2>4
<1>2. PICK a, b, c : a = ScoreOf("pm2_5", v["pm2_5"]) /\ b = ScoreOf("voc_index", v["voc_index"])
                     /\ c = ScoreOf("co2", v["co2"])
  OBVIOUS
<1>3. /\ "pm2_5" \in DOMAIN v => a \in Nat
      /\ "voc_index" \in DOMAIN v => b \in Nat
      /\ "co2" \in DOMAIN v => c \in Nat
  BY <1>1, <1>2 DEF Pollutants
<1>4. /\ \A y \in Scores(v) : \/ "pm2_5" \in DOMAIN v /\ y = a
                              \/ "voc_index" \in DOMAIN v /\ y = b
                              \/ "co2" \in DOMAIN v /\ y = c
      /\ "pm2_5" \in DOMAIN v => a \in Scores(v)
      /\ "voc_index" \in DOMAIN v => b \in Scores(v)
      /\ "co2" \in DOMAIN v => c \in Scores(v)
  BY <1>2, ScoresAre DEF Pollutants
<1>5. \E n \in Scores(v) : \A y \in Scores(v) : n >= y
  BY <1>3, <1>4
<1>6. Scores(v) \in SUBSET Int
  BY <1>3, <1>4
<1>7. m \in Scores(v) /\ \A y \in Scores(v) : m >= y
  BY <1>5, <1>6, MaxIs
<1>8. QED
  BY <1>1, <1>7, ScoresAre

-----------------------------------------------------------------------------
(* The index of a measurement.                                            *)

\* What the fields of a frame say.
Readings(f, d) ==
  [k \in {l \in Fields(f) \ {"id"} : Usable(f, l, Raw(f, d, l))} |-> Meaning(k, Raw(f, d, k))]

\* What Parse returns for a frame it does not refuse.
LEMMA ParsedValues ==
  ASSUME NEW d \in Seq(Octets), NEW f \in Formats, d # <<>>, d[1] = Id[f],
         NEW ext \in BOOLEAN, NEW p, p = Parse(d, ext), p.error = "none"
  PROVE  p.values = IF ext THEN With(Readings(f, d), Derived(f, Readings(f, d)))
                    ELSE Readings(f, d)
<1>1. PICK r : r = ParseFormat(d)
  OBVIOUS
<1>2. r.error = "none"
  BY <1>1, WithDerived
<1>3. \A x : Refused(x).error = x
  BY DEF Refused
<1>4. r = Measured(Expected(f, d))
  BY <1>1, <1>2, <1>3, ParsedFormat
<1>5. r.values = Readings(f, d)
  <2>1. DOMAIN r.values = DOMAIN Readings(f, d)
    BY <1>4, MeasuredExpected DEF Readings
  <2>2. \A k \in DOMAIN r.values : r.values[k] = Readings(f, d)[k]
    BY <1>4, MeasuredExpected DEF Readings
  <2>3. r.values = [k \in DOMAIN r.values |-> r.values[k]]
    BY <1>4 DEF Measured
  <2>4. Readings(f, d) = [k \in DOMAIN Readings(f, d) |-> Readings(f, d)[k]]
    BY DEF Readings
  <2>5. QED
    BY <2>1, <2>2, <2>3, <2>4
<1>6. QED
  BY <1>1, <1>2, <1>5, WithDerived

\* The index, when there is one.
LEMMA IndexIs ==
  ASSUME NEW f \in Formats, NEW v, DOMAIN v \cap DerivedKeys = {},
         NEW w, w = With(v, Derived(f, v))
  PROVE  /\ "air_quality_index" \in DOMAIN w <=> IsAir(f) /\ Scores(v) # {}
         /\ "air_quality_index" \in DOMAIN w => w["air_quality_index"] = Max(Scores(v))
<1>1. PICK x : x = Derived(f, v)
  OBVIOUS
<1>2. /\ "air_quality_index" \in DOMAIN x <=> IsAir(f) /\ Scores(v) # {}
      /\ "air_quality_index" \in DOMAIN x => x["air_quality_index"] = Max(Scores(v))
  BY <1>1 DEF Derived
<1>3. "air_quality_index" \notin DOMAIN v
  BY DEF DerivedKeys
<1>4. QED
  BY <1>1, <1>2, <1>3 DEF With

\* The pollutants are numbers.
LEMMA Polluted ==
  ASSUME NEW f \in Formats, NEW d \in Seq(Octets), NEW k \in Pollutants \cap Fields(f)
  PROVE  /\ Raw(f, d, k) \in Nat /\ Raw(f, d, k) <= Unavailable(f, k)
         /\ Usable(f, k, Raw(f, d, k)) <=> ~Missing(f, k, Raw(f, d, k))
         /\ Meaning(k, Raw(f, d, k)) = Raw(f, d, k)
<1>1. Meaning(k, Raw(f, d, k)) = Raw(f, d, k)
  BY PlainMeaning DEF Pollutants, Plain
<1>2. k # "temperature" /\ k # "id" /\ k \notin {"luminosity", "sequence"}
  BY DEF Pollutants
<1>3. Usable(f, k, Raw(f, d, k)) <=> ~Missing(f, k, Raw(f, d, k))
  BY <1>2 DEF Usable
<1>4. PICK v : v = Raw(f, d, k)
  OBVIOUS
<1>5. v \in Nat /\ v < 65536
  BY <1>2, <1>4, RawRange, SMT DEF Narrow
<1>6. f # "F5"
  BY F5Raw DEF Pollutants
<1>7. CASE k # "voc_index"
  <2>1. Layout[f][k][2] = 16
    BY <1>6, <1>7, SMTT(30) DEF Layout, Common, With, Formats, Pollutants
  <2>2. Unavailable(f, k) = 65535
    BY <1>2, <1>7, <2>1, Powers DEF Unavailable, Pollutants
  <2>3. QED
    BY <1>1, <1>3, <1>4, <1>5, <2>2
<1>8. CASE k = "voc_index"
  <2>1. Layout[f][k][2] = 9
    BY <1>6, <1>8, SMTT(30) DEF Layout, Common, With, Formats
  <2>2. Unavailable(f, k) = 511
    BY <1>2, <1>8, <2>1, Powers DEF Unavailable
  <2>3. \A i \in Nat : First9(d, i) <= 511
    <3>1. TAKE i \in Nat
    <3>2. PICK a \in Nat : Byte(d, i) = a /\ a <= 255
      BY ByteType
    <3>3. PICK b \in Nat : Byte(d, i + 1) = b /\ b <= 255
      BY ByteType
    <3>4. 2 * a + b \div 128 <= 511
      BY <3>2, <3>3
    <3>5. QED
      BY <3>2, <3>3, <3>4 DEF First9
  <2>4. First9(d, 11) <= 511 /\ First9(d, 17) <= 511
    BY <2>3
  <2>5. v <= 511
    BY <1>4, <1>6, <1>8, <2>4, F6Raw, E1Raw DEF Formats
  <2>6. QED
    BY <1>1, <1>3, <1>4, <1>5, <2>2, <2>5
<1>9. QED
  BY <1>7, <1>8

\* From the frame d to the frame e the pollutant k rises by a unit and is there, and the
\* other pollutants stay.
OneRises(f, d, e, k) ==
  /\ Raw(f, e, k) = Raw(f, d, k) + 1 /\ ~Missing(f, k, Raw(f, e, k))
  /\ \A l \in Pollutants \cap Fields(f) : l # k => Raw(f, e, l) = Raw(f, d, l)

\* When one pollutant of a frame rises by a unit and the others stay, whatever they are,
\* the index stays or rises by one: nothing at the joints of the segments, where the
\* scores are rounded down, or where format 6 begins to see a pollutant makes worse air
\* look better, or jumps.
THEOREM IndexIsSmooth ==
  ASSUME NEW f \in Formats, NEW d \in Seq(Octets), NEW e \in Seq(Octets),
         IsFrame(d, f), IsFrame(e, f),
         NEW p, p = Parse(d, TRUE), p.error = "none",
         NEW q, q = Parse(e, TRUE), q.error = "none",
         NEW k \in Pollutants \cap Fields(f), OneRises(f, d, e, k),
         "air_quality_index" \in DOMAIN p.values
  PROVE  /\ "air_quality_index" \in DOMAIN q.values
         /\ q.values.air_quality_index - p.values.air_quality_index \in {0, 1}
<1>1. PICK v : v = Readings(f, d)
  OBVIOUS
<1>2. PICK w : w = Readings(f, e)
  OBVIOUS
<1>3. p.values = With(v, Derived(f, v)) /\ q.values = With(w, Derived(f, w))
  BY <1>1, <1>2, ParsedValues DEF IsFrame
<1>4. DOMAIN v \cap DerivedKeys = {} /\ DOMAIN w \cap DerivedKeys = {}
  BY <1>1, <1>2, KeysApart DEF Readings
<1>5. PICK a : a = Max(Scores(v))
  OBVIOUS
<1>6. PICK b : b = Max(Scores(w))
  OBVIOUS
<1>7. IsAir(f) /\ Scores(v) # {} /\ p.values.air_quality_index = a
  BY <1>3, <1>4, <1>5, IndexIs
<1>8. \A l \in Pollutants \cap Fields(f) :
        /\ l \in DOMAIN v <=> ~Missing(f, l, Raw(f, d, l))
        /\ l \in DOMAIN w <=> ~Missing(f, l, Raw(f, e, l))
        /\ l \in DOMAIN v => v[l] = Raw(f, d, l)
        /\ l \in DOMAIN w => w[l] = Raw(f, e, l)
        /\ Raw(f, d, l) \in Nat /\ Raw(f, e, l) \in Nat
  <2>1. TAKE l \in Pollutants \cap Fields(f)
  <2>2. l # "id"
    BY DEF Pollutants
  <2>3. QED
    BY <1>1, <1>2, <2>2, Polluted DEF Readings
<1>9. DOMAIN v \subseteq Fields(f) /\ DOMAIN w \subseteq Fields(f)
  BY <1>1, <1>2 DEF Readings
<1>10. /\ \A l \in Pollutants \cap DOMAIN v : v[l] \in Nat
       /\ \A l \in Pollutants \cap DOMAIN w : w[l] \in Nat
  BY <1>8, <1>9
<1>11. /\ k \in DOMAIN w
       /\ \A l \in Pollutants : l # k => (l \in DOMAIN w <=> l \in DOMAIN v)
       /\ \A l \in Pollutants \cap DOMAIN v : l # k => w[l] = v[l]
       /\ k \in DOMAIN v => w[k] = v[k] + 1
  BY <1>8, <1>9 DEF OneRises
<1>12. Scores(w) # {}
  BY <1>11, ScoresAre
<1>13. "air_quality_index" \in DOMAIN q.values /\ q.values.air_quality_index = b
  BY <1>3, <1>4, <1>6, <1>7, <1>12, IndexIs
<1>14. /\ \E l \in Pollutants \cap DOMAIN v : a = ScoreOf(l, v[l])
       /\ \A l \in Pollutants \cap DOMAIN v : ScoreOf(l, v[l]) <= a
       /\ a \in Nat
  BY <1>5, <1>7, <1>10, Worst
<1>15. /\ \E l \in Pollutants \cap DOMAIN w : b = ScoreOf(l, w[l])
       /\ \A l \in Pollutants \cap DOMAIN w : ScoreOf(l, w[l]) <= b
       /\ b \in Nat
  BY <1>6, <1>10, <1>12, Worst
<1>16. \A l \in Pollutants \cap DOMAIN v : ScoreOf(l, v[l]) \in Nat
  BY <1>10, ScoreRises
<1>17. CASE k \in DOMAIN v
  <2>1. PICK x \in Nat : x = v[k]
    BY <1>10, <1>17
  <2>2. ScoreOf(k, w[k]) = ScoreOf(k, v[k]) \/ ScoreOf(k, w[k]) = ScoreOf(k, v[k]) + 1
    <3>1. PICK y : y = ScoreOf(k, x)
      OBVIOUS
    <3>2. PICK z : z = ScoreOf(k, x + 1)
      OBVIOUS
    <3>3. z = y \/ z = y + 1
      BY <3>1, <3>2, ScoreRises
    <3>4. QED
      BY <1>11, <1>17, <2>1, <3>1, <3>2, <3>3
  <2>3. a <= b
    BY <1>11, <1>14, <1>15, <1>16, <1>17, <2>2
  <2>4. b <= a + 1
    BY <1>11, <1>14, <1>15, <1>16, <1>17, <2>2
  <2>5. b - a \in {0, 1}
    BY <1>14, <1>15, <2>3, <2>4
  <2>6. QED
    BY <1>7, <1>13, <2>5
<1>18. CASE k \notin DOMAIN v
  <2>1. Raw(f, d, k) \in Nat /\ Raw(f, d, k) <= Unavailable(f, k)
        /\ Raw(f, e, k) <= Unavailable(f, k)
    BY Polluted
  <2>2. Raw(f, d, k) = Unavailable(f, k) \/ Raw(f, d, k) = 0
    BY <1>8, <1>18 DEF Missing
  <2>3. Raw(f, d, k) = 0
    BY <2>1, <2>2 DEF OneRises
  <2>4. w[k] = 1
    BY <1>8, <1>11, <2>3 DEF OneRises
  <2>5. ScoreOf(k, w[k]) = 0
    BY <2>4, CleanScore
  <2>6. a <= b
    BY <1>11, <1>14, <1>15, <1>16, <1>18
  <2>7. b <= a
    BY <1>11, <1>14, <1>15, <1>16, <1>18, <2>5
  <2>8. b - a \in {0, 1}
    BY <1>14, <1>15, <2>6, <2>7
  <2>9. QED
    BY <1>7, <1>13, <2>8
<1>19. QED
  BY <1>17, <1>18

-----------------------------------------------------------------------------
(* Every measurement is in range.                                         *)

\* What a frame is refused for.
LEMMA WhyRefused ==
  ASSUME NEW d \in Seq(Octets), NEW ext \in BOOLEAN, NEW p, p = Parse(d, ext)
  PROVE  \/ p \in {Refused("length"), Refused("format"), Refused("temperature")}
         \/ /\ p.error = "none" /\ d # <<>>
            /\ \E f \in Formats : d[1] = Id[f]
<1>1. PICK r : r = ParseFormat(d)
  OBVIOUS
<1>2. \A x : Refused(x).error = x
  BY DEF Refused
<1>3. CASE d # <<>> /\ \E f \in Formats : d[1] = Id[f]
  <2>1. PICK f \in Formats : d[1] = Id[f]
    BY <1>3
  <2>2. p.error = r.error /\ (r.error # "none" => p = r)
    BY <1>1, <1>3, <2>1, WithDerived
  <2>3. r \in {Refused("length"), Refused("temperature")} \/ r = Measured(Expected(f, d))
    BY <1>1, <1>3, <2>1, ParsedFormat
  <2>4. Measured(Expected(f, d)).error = "none"
    BY MeasuredExpected
  <2>5. QED
    BY <1>2, <1>3, <2>2, <2>3, <2>4
<1>4. CASE ~(d # <<>> /\ \E f \in Formats : d[1] = Id[f])
  <2>1. r = Refused("length") \/ r = Refused("format")
    BY <1>1, <1>4 DEF ParseFormat
  <2>2. r.error # "none" => p = r
    BY <1>1 DEF Parse
  <2>3. QED
    BY <1>2, <2>1, <2>2
<1>5. QED
  BY <1>3, <1>4

\* The derived values.
LEMMA DerivedRange ==
  ASSUME NEW f \in Formats, NEW v, NEW x, x = Derived(f, v), NEW k \in DOMAIN x
  PROVE  /\ k \in DerivedKeys
         /\ k # "air_quality_index" => x[k] \in {"finite", "NaN"}
         /\ k = "air_quality_index" => x[k] = Max(Scores(v)) /\ Scores(v) # {}
<1>1. k \in DerivedKeys
  BY DEF Derived, DerivedKeys
<1>2. "air_quality_index" \in DOMAIN x =>
        x["air_quality_index"] = Max(Scores(v)) /\ Scores(v) # {}
  BY DEF Derived
<1>3. "dew_point" \in DOMAIN x => x["dew_point"] \in {"finite", "NaN"}
  BY DEF Derived
<1>4. "absolute_humidity" \in DOMAIN x => x["absolute_humidity"] \in {"finite", "NaN"}
  BY DEF Derived
<1>5. "air_density" \in DOMAIN x => x["air_density"] \in {"finite", "NaN"}
  BY DEF Derived
<1>6. QED
  BY <1>1, <1>2, <1>3, <1>4, <1>5 DEF DerivedKeys

\* The bounds of a value that is a number, ...
LEMMA NumberBounded ==
  ASSUME NEW n \in Int, NEW k,
         k = "temperature" => -8000 <= n /\ n <= 17000,
         k = "humidity" => 0 <= n /\ n <= 40000,
         k = "pressure" => 50000 <= n /\ n <= 115534,
         k = "air_quality_index" => 0 <= n /\ n <= 500,
         k \notin {"dew_point", "absolute_humidity", "air_density"},
         -32767 <= n /\ n <= 16777216
  PROVE  Bounded(k, n)
<1>1. k = "air_quality_index" => n \in 0..500
  BY SMT
<1>2. n \in Int /\ -32767 <= n /\ n <= 2 ^ 24
  BY Powers, SMT
<1>3. QED
  BY <1>1, <1>2, SMT DEF Bounded

\* ... and of one that is not.
LEMMA OtherBounded ==
  ASSUME NEW k \in {"dew_point", "absolute_humidity", "air_density"}, NEW n \in {"finite", "NaN"}
  PROVE  Bounded(k, n)
<1>1. k \notin UNION {Fields(f) : f \in Formats}
  BY KeysApart DEF DerivedKeys
<1>2. k \notin {"temperature", "humidity", "pressure", "air_quality_index"}
  OBVIOUS
<1>3. QED
  BY <1>1, <1>2, SMT DEF Bounded

\* Whatever bytes arrive, what Parse returns is an error or a measurement in range: a
\* temperature a sensor can have, no humidity above 100 %, no index above 500.
THEOREM StaysInRange ==
  ASSUME NEW d \in Seq(Octets), NEW ext \in BOOLEAN
  PROVE  InRange(Parse(d, ext))
<1>1. PICK p : p = Parse(d, ext)
  OBVIOUS
<1>2. CASE p \in {Refused("length"), Refused("format"), Refused("temperature")}
  <2>1. p.error \in {"length", "format", "temperature"} /\ p.values = <<>>
    BY <1>2 DEF Refused
  <2>2. DOMAIN p.values = {}
    BY <2>1
  <2>3. QED
    BY <1>1, <2>1, <2>2 DEF InRange
<1>3. ASSUME NEW f \in Formats, p.error = "none", d # <<>>, d[1] = Id[f]
      PROVE  InRange(p)
  <2>1. PICK v : v = Readings(f, d)
    OBVIOUS
  <2>2. PICK x : x = Derived(f, v)
    OBVIOUS
  <2>3. p.values = IF ext THEN With(v, x) ELSE v
    BY <1>1, <1>3, <2>1, <2>2, ParsedValues
  <2>4. ASSUME NEW k \in DOMAIN p.values
        PROVE  \/ k \in DOMAIN v /\ p.values[k] = v[k]
               \/ k \in DOMAIN x /\ p.values[k] = x[k]
    BY <2>3 DEF With
  <2>5. ASSUME NEW k \in DOMAIN v
        PROVE  /\ v[k] \in Int /\ v[k] <= 16777216
               /\ k = "temperature" => -8000 <= v[k] /\ v[k] <= 17000
               /\ k = "humidity" => 0 <= v[k] /\ v[k] <= 40000
               /\ k = "pressure" => 50000 <= v[k] /\ v[k] <= 115534
               /\ k # "temperature" => -32767 <= v[k]
               /\ k \notin DerivedKeys
    <3>1. k \in Fields(f) \ {"id"} /\ Usable(f, k, Raw(f, d, k)) /\ v[k] = Meaning(k, Raw(f, d, k))
      BY <2>1 DEF Readings
    <3>2. QED
      BY <3>1, MeaningRange, KeysApart
  <2>6. ASSUME NEW k \in DOMAIN x
        PROVE  /\ k \in DerivedKeys
               /\ k # "air_quality_index" => x[k] \in {"finite", "NaN"}
               /\ k = "air_quality_index" => x[k] \in Nat /\ x[k] <= 500
    <3>1. /\ k \in DerivedKeys
          /\ k # "air_quality_index" => x[k] \in {"finite", "NaN"}
          /\ k = "air_quality_index" => x[k] = Max(Scores(v)) /\ Scores(v) # {}
      BY <2>2, DerivedRange
    <3>2. \A l \in Pollutants \cap DOMAIN v : v[l] \in Nat
      <4>1. TAKE l \in Pollutants \cap DOMAIN v
      <4>2. l \in Fields(f) /\ v[l] = Meaning(l, Raw(f, d, l))
        BY <2>1 DEF Readings
      <4>3. QED
        BY <4>2, Polluted
    <3>3. PICK m : m = Max(Scores(v))
      OBVIOUS
    <3>4. Scores(v) # {} => m \in Nat /\ m <= 500
      BY <3>2, <3>3, Worst
    <3>5. QED
      BY <3>1, <3>3, <3>4
  <2>7. ASSUME NEW k \in DOMAIN p.values
        PROVE  Bounded(k, p.values[k])
    <3>1. PICK n : n = p.values[k]
      OBVIOUS
    <3>2. CASE k \in DOMAIN v /\ n = v[k]
      <4>1. /\ n \in Int /\ n <= 16777216
            /\ k = "temperature" => -8000 <= n /\ n <= 17000
            /\ k = "humidity" => 0 <= n /\ n <= 40000
            /\ k = "pressure" => 50000 <= n /\ n <= 115534
            /\ k # "temperature" => -32767 <= n
            /\ k \notin DerivedKeys
        BY <2>5, <3>2
      <4>2. -32767 <= n /\ k \notin {"dew_point", "absolute_humidity", "air_density"}
            /\ k # "air_quality_index"
        BY <4>1, SMT DEF DerivedKeys
      <4>3. QED
        BY <3>1, <4>1, <4>2, NumberBounded, SMT
    <3>3. CASE k \in DOMAIN x /\ n = x[k]
      <4>1. /\ k \in DerivedKeys
            /\ k # "air_quality_index" => n \in {"finite", "NaN"}
            /\ k = "air_quality_index" => n \in Nat /\ n <= 500
        BY <2>6, <3>3
      <4>2. CASE k = "air_quality_index"
        BY <3>1, <4>1, <4>2, NumberBounded, SMT
      <4>3. CASE k # "air_quality_index"
        BY <3>1, <4>1, <4>3, OtherBounded DEF DerivedKeys
      <4>4. QED
        BY <4>2, <4>3
    <3>4. QED
      BY <2>4, <3>1, <3>2, <3>3
  <2>8. p.error # "none" => p.values = <<>>
    BY <1>3
  <2>9. QED
    BY <1>3, <2>7, <2>8 DEF InRange
<1>4. QED
  BY <1>1, <1>2, <1>3, WhyRefused

-----------------------------------------------------------------------------
(* The two formats of a Ruuvi Air.                                        *)

\* The fields that format 6 shares with E1.
Shared == Fields("F6") \ {"id", "sequence"}

\* An E1 frame e says what the format 6 frame d says; where d misses a pollutant, which
\* may be because there is none, e says 0, and where d misses something else, so does e.
SameAir(d, e) ==
  \A k \in Shared :
    LET u == Raw("F6", d, k) IN
      /\ ~Missing("F6", k, u) => Raw("E1", e, k) = u
      /\ Missing("F6", k, u) /\ k \in Pollutants => Raw("E1", e, k) = 0
      /\ Missing("F6", k, u) /\ k \notin Pollutants => Raw("E1", e, k) = Unavailable("E1", k)

LEMMA SharedFields ==
  /\ Shared = {"temperature", "humidity", "pressure", "pm2_5", "co2", "voc_index", "nox_index"}
  /\ Shared \subseteq Fields("E1")
  /\ \A k \in Shared : Unavailable("F6", k) = Unavailable("E1", k)
  /\ Unavailable("E1", "temperature") = 32768
<1>1. Fields("F6") = {"id", "temperature", "humidity", "pressure", "pm2_5", "co2",
         "voc_index", "nox_index", "sequence"}
  BY DEF Layout, Common, With, Fields
<1>2. Fields("E1") = {"id", "temperature", "humidity", "pressure", "pm1_0", "pm2_5",
         "pm4_0", "pm10_0", "co2", "voc_index", "nox_index", "luminosity", "sequence"}
  BY DEF Layout, Common, With, Fields
<1>3. Shared = {"temperature", "humidity", "pressure", "pm2_5", "co2", "voc_index", "nox_index"}
  BY <1>1 DEF Shared
<1>4. \A k \in Shared : Layout["F6"][k][2] = Layout["E1"][k][2]
  BY <1>3 DEF Layout, Common, With
<1>5. \A k \in Shared : Unavailable("F6", k) = Unavailable("E1", k)
  BY <1>4 DEF Unavailable
<1>6. Unavailable("E1", "temperature") = 32768
  BY Powers DEF Unavailable
<1>7. QED
  BY <1>2, <1>3, <1>5, <1>6

\* Zeros do not make the air worse.
LEMMA SameIndex ==
  ASSUME NEW v, NEW w,
         \A k \in Pollutants \cap DOMAIN v : k \in DOMAIN w /\ w[k] = v[k] /\ v[k] \in Nat,
         \A k \in Pollutants \cap DOMAIN w : k \in DOMAIN v \/ w[k] = 0
  PROVE  /\ Scores(v) # {} => Scores(w) # {} /\ Max(Scores(w)) = Max(Scores(v))
         /\ Scores(v) = {} /\ Scores(w) # {} => Max(Scores(w)) = 0
<1>1. PICK a : a = Max(Scores(v))
  OBVIOUS
<1>2. PICK b : b = Max(Scores(w))
  OBVIOUS
<1>3. \A k \in Pollutants \cap DOMAIN w : w[k] \in Nat
  OBVIOUS
<1>4. \A k \in Pollutants \cap DOMAIN w : k \in DOMAIN v \/ ScoreOf(k, w[k]) = 0
  BY CleanScore
<1>5. ASSUME Scores(w) # {}
      PROVE  /\ \E k \in Pollutants \cap DOMAIN w : b = ScoreOf(k, w[k])
             /\ \A k \in Pollutants \cap DOMAIN w : ScoreOf(k, w[k]) <= b
             /\ b \in Nat
  BY <1>2, <1>3, <1>5, Worst
<1>6. ASSUME Scores(v) # {}
      PROVE  Scores(w) # {} /\ b = a
  <2>1. /\ \E k \in Pollutants \cap DOMAIN v : a = ScoreOf(k, v[k])
        /\ \A k \in Pollutants \cap DOMAIN v : ScoreOf(k, v[k]) <= a
        /\ a \in Nat
    BY <1>1, <1>6, Worst
  <2>2. Scores(w) # {}
    BY <2>1, ScoresAre
  <2>3. a <= b
    BY <1>5, <2>1, <2>2
  <2>4. b <= a
    BY <1>4, <1>5, <2>1, <2>2
  <2>5. QED
    BY <1>5, <2>1, <2>2, <2>3, <2>4
<1>7. ASSUME Scores(v) = {}, Scores(w) # {}
      PROVE  b = 0
  <2>1. \A k \in Pollutants : k \notin DOMAIN v
    BY <1>7, ScoresAre
  <2>2. QED
    BY <1>4, <1>5, <1>7, <2>1
<1>8. QED
  BY <1>1, <1>2, <1>6, <1>7

\* What a frame that is not refused says of a field.
LEMMA Reading ==
  ASSUME NEW f \in Formats, NEW d \in Seq(Octets), NEW v, v = Readings(f, d)
  PROVE  /\ DOMAIN v \subseteq Fields(f) \ {"id"}
         /\ \A k \in Fields(f) \ {"id"} : k \in DOMAIN v <=> Usable(f, k, Raw(f, d, k))
         /\ \A k \in DOMAIN v : v[k] = Meaning(k, Raw(f, d, k))
BY DEF Readings

\* What both frames say.
LEMMA SameReadings ==
  ASSUME NEW d \in Seq(Octets), NEW e \in Seq(Octets), SameAir(d, e),
         NEW v, v = Readings("F6", d), NEW w, w = Readings("E1", e),
         ~TooHot(Raw("F6", d, "temperature"))
  PROVE  /\ \A k \in Shared \cap DOMAIN v : k \in DOMAIN w /\ w[k] = v[k]
         /\ \A k \in Shared \cap DOMAIN w : k \in DOMAIN v \/ (k \in Pollutants /\ w[k] = 0)
         /\ ~TooHot(Raw("E1", e, "temperature"))
<1>1. "F6" \in Formats /\ "E1" \in Formats
  BY DEF Formats
<1>2. \A k \in Shared : k # "id" /\ k \in Fields("F6") /\ k \in Fields("E1")
  BY SharedFields DEF Shared
<1>3. \A k, u : Missing("E1", k, u) <=> u = Unavailable("E1", k)
  BY DEF Missing
<1>4. \A k, u : u = Unavailable("F6", k) => Missing("F6", k, u)
  BY DEF Missing
<1>5. ~TooHot(Raw("E1", e, "temperature"))
  <2>1. "temperature" \in Shared /\ "temperature" \notin Pollutants
    BY SharedFields DEF Pollutants
  <2>2. \/ Raw("E1", e, "temperature") = Raw("F6", d, "temperature")
        \/ Raw("E1", e, "temperature") = 32768
    BY <2>1, SharedFields DEF SameAir
  <2>3. ~TooHot(32768)
    BY BearableIs
  <2>4. QED
    BY <2>2, <2>3
<1>6. ASSUME NEW k \in Shared \cap DOMAIN v
      PROVE  k \in DOMAIN w /\ w[k] = v[k]
  <2>1. Usable("F6", k, Raw("F6", d, k)) /\ v[k] = Meaning(k, Raw("F6", d, k))
    BY <1>1, <1>2, <1>6, Reading
  <2>2. ~Missing("F6", k, Raw("F6", d, k))
    BY <2>1 DEF Usable
  <2>3. Raw("E1", e, k) = Raw("F6", d, k)
    BY <1>6, <2>2 DEF SameAir
  <2>4. ~Missing("E1", k, Raw("E1", e, k))
    BY <1>3, <1>4, <1>6, <2>2, <2>3, SharedFields
  <2>5. Usable("E1", k, Raw("E1", e, k))
    BY <1>5, <2>4 DEF Usable
  <2>6. QED
    BY <1>1, <1>2, <1>6, <2>1, <2>3, <2>5, Reading
<1>7. ASSUME NEW k \in Shared \cap DOMAIN w, k \notin DOMAIN v
      PROVE  k \in Pollutants /\ w[k] = 0
  <2>1. ~Usable("F6", k, Raw("F6", d, k))
    BY <1>1, <1>2, <1>7, Reading
  <2>2. Missing("F6", k, Raw("F6", d, k))
    BY <2>1 DEF Usable
  <2>3. Usable("E1", k, Raw("E1", e, k)) /\ w[k] = Meaning(k, Raw("E1", e, k))
    BY <1>1, <1>2, <1>7, Reading
  <2>4. Raw("E1", e, k) # Unavailable("E1", k)
    BY <1>3, <2>3 DEF Usable
  <2>5. k \in Pollutants /\ Raw("E1", e, k) = 0
    BY <1>7, <2>2, <2>4 DEF SameAir
  <2>6. Meaning(k, 0) = 0
    BY <2>5, PlainMeaning DEF Pollutants, Plain
  <2>7. QED
    BY <2>3, <2>5, <2>6
<1>8. QED
  BY <1>5, <1>6, <1>7

\* The derived values, one by one.
LEMMA DerivedAre ==
  ASSUME NEW f \in {"F6", "E1"}, NEW v, NEW x, x = Derived(f, v)
  PROVE  /\ DOMAIN x \subseteq DerivedKeys
         /\ "dew_point" \in DOMAIN x <=> {"temperature", "humidity"} \subseteq DOMAIN v
         /\ "absolute_humidity" \in DOMAIN x <=> {"temperature", "humidity"} \subseteq DOMAIN v
         /\ "air_density" \in DOMAIN x <=>
              {"temperature", "humidity", "pressure"} \subseteq DOMAIN v
         /\ "air_quality_index" \in DOMAIN x <=> Scores(v) # {}
         /\ "air_quality_index" \in DOMAIN x => x["air_quality_index"] = Max(Scores(v))
         /\ "dew_point" \in DOMAIN x /\ v["humidity"] = 0 => x["dew_point"] = "NaN"
         /\ "dew_point" \in DOMAIN x /\ v["humidity"] # 0 => x["dew_point"] = "finite"
         /\ "absolute_humidity" \in DOMAIN x => x["absolute_humidity"] = "finite"
         /\ "air_density" \in DOMAIN x => x["air_density"] = "finite"
<1>1. IsAir(f)
  BY DEF IsAir
<1>2. DOMAIN x \subseteq DerivedKeys
  BY DEF Derived, DerivedKeys
<1>3. /\ "dew_point" \in DOMAIN x <=> {"temperature", "humidity"} \subseteq DOMAIN v
      /\ "absolute_humidity" \in DOMAIN x <=> {"temperature", "humidity"} \subseteq DOMAIN v
  BY DEF Derived
<1>4. "air_density" \in DOMAIN x <=> {"temperature", "humidity", "pressure"} \subseteq DOMAIN v
  BY DEF Derived
<1>5. "air_quality_index" \in DOMAIN x <=> Scores(v) # {}
  BY <1>1 DEF Derived
<1>6. "air_quality_index" \in DOMAIN x => x["air_quality_index"] = Max(Scores(v))
  BY DEF Derived
<1>7. /\ "dew_point" \in DOMAIN x /\ v["humidity"] = 0 => x["dew_point"] = "NaN"
      /\ "dew_point" \in DOMAIN x /\ v["humidity"] # 0 => x["dew_point"] = "finite"
  BY DEF Derived
<1>8. /\ "absolute_humidity" \in DOMAIN x => x["absolute_humidity"] = "finite"
      /\ "air_density" \in DOMAIN x => x["air_density"] = "finite"
  BY DEF Derived
<1>9. QED
  BY <1>2, <1>3, <1>4, <1>5, <1>6, <1>7, <1>8

\* A format 6 frame and an E1 frame of the same air, of which the bridge publishes one,
\* say the same: every value of format 6, the derived ones included, is a value of E1,
\* and what only E1 has of the shared ones is a zero.
THEOREM BothFormatsAgree ==
  ASSUME NEW d \in Seq(Octets), NEW e \in Seq(Octets), NEW ext \in BOOLEAN,
         IsFrame(d, "F6"), IsFrame(e, "E1"), SameAir(d, e),
         ~TooHot(Raw("F6", d, "temperature")),
         NEW p, p = Parse(d, ext), NEW q, q = Parse(e, ext)
  PROVE  /\ \A k \in DOMAIN p.values \ {"sequence"} :
              k \in DOMAIN q.values /\ q.values[k] = p.values[k]
         /\ \A k \in DOMAIN q.values \cap (Shared \cup {"air_quality_index"}) :
              k \in DOMAIN p.values \/ q.values[k] = 0
<1>1. "F6" \in Formats /\ "E1" \in Formats
  BY DEF Formats
<1>2. PICK v : v = Readings("F6", d)
  OBVIOUS
<1>3. PICK w : w = Readings("E1", e)
  OBVIOUS
<1>4. /\ \A k \in Shared \cap DOMAIN v : k \in DOMAIN w /\ w[k] = v[k]
      /\ \A k \in Shared \cap DOMAIN w : k \in DOMAIN v \/ (k \in Pollutants /\ w[k] = 0)
      /\ ~TooHot(Raw("E1", e, "temperature"))
  BY <1>2, <1>3, SameReadings
<1>5. p.error = "none" /\ q.error = "none"
  BY <1>1, <1>4, ParsedFields
<1>6. PICK x : x = Derived("F6", v)
  OBVIOUS
<1>7. PICK y : y = Derived("E1", w)
  OBVIOUS
<1>8. p.values = (IF ext THEN With(v, x) ELSE v) /\ q.values = (IF ext THEN With(w, y) ELSE w)
  BY <1>1, <1>2, <1>3, <1>5, <1>6, <1>7, ParsedValues DEF IsFrame
<1>9. /\ DOMAIN v \subseteq Shared \cup {"sequence"} /\ DOMAIN v \subseteq Fields("F6")
      /\ DOMAIN w \subseteq Fields("E1")
  BY <1>1, <1>2, <1>3, Reading DEF Shared
<1>10. Pollutants \subseteq Shared
  BY SharedFields DEF Pollutants
<1>11. \A k \in Pollutants \cap DOMAIN v : v[k] \in Nat
  <2>1. TAKE k \in Pollutants \cap DOMAIN v
  <2>2. k \in Fields("F6")
    BY <1>10 DEF Shared
  <2>3. v[k] = Meaning(k, Raw("F6", d, k))
    BY <1>1, <1>2, Reading
  <2>4. QED
    BY <1>1, <2>2, <2>3, Polluted
<1>12. /\ Scores(v) # {} => Scores(w) # {} /\ Max(Scores(w)) = Max(Scores(v))
       /\ Scores(v) = {} /\ Scores(w) # {} => Max(Scores(w)) = 0
  BY <1>4, <1>10, <1>11, SameIndex
<1>13. \A k \in DOMAIN x : k \in DOMAIN y /\ y[k] = x[k]
  <2>1. /\ {"temperature", "humidity"} \subseteq DOMAIN v =>
             {"temperature", "humidity"} \subseteq DOMAIN w /\ w["humidity"] = v["humidity"]
        /\ {"temperature", "humidity", "pressure"} \subseteq DOMAIN v =>
             {"temperature", "humidity", "pressure"} \subseteq DOMAIN w
    BY <1>4, SharedFields
  <2>2. DOMAIN x \subseteq DerivedKeys
    BY <1>6, DerivedAre
  <2>3. "dew_point" \in DOMAIN x => "dew_point" \in DOMAIN y /\ y["dew_point"] = x["dew_point"]
    BY <1>6, <1>7, <2>1, DerivedAre, ZenonT(30)
  <2>4. "absolute_humidity" \in DOMAIN x =>
          "absolute_humidity" \in DOMAIN y /\ y["absolute_humidity"] = x["absolute_humidity"]
    BY <1>6, <1>7, <2>1, DerivedAre
  <2>5. "air_density" \in DOMAIN x =>
          "air_density" \in DOMAIN y /\ y["air_density"] = x["air_density"]
    BY <1>6, <1>7, <2>1, DerivedAre
  <2>6. "air_quality_index" \in DOMAIN x =>
          "air_quality_index" \in DOMAIN y /\ y["air_quality_index"] = x["air_quality_index"]
    BY <1>6, <1>7, <1>12, DerivedAre, ZenonT(30)
  <2>7. QED
    BY <2>2, <2>3, <2>4, <2>5, <2>6 DEF DerivedKeys
<1>14. "air_quality_index" \in DOMAIN y =>
         "air_quality_index" \in DOMAIN x \/ y["air_quality_index"] = 0
  <2>1. "air_quality_index" \in DOMAIN x <=> Scores(v) # {}
    BY <1>6, DerivedAre
  <2>2. "air_quality_index" \in DOMAIN y =>
          Scores(w) # {} /\ y["air_quality_index"] = Max(Scores(w))
    BY <1>7, DerivedAre
  <2>3. QED
    BY <1>12, <2>1, <2>2
<1>15. DOMAIN x \cap Fields("E1") = {} /\ DOMAIN x \cap Fields("F6") = {}
       /\ DOMAIN y \cap Fields("E1") = {} /\ DOMAIN y \cap Fields("F6") = {}
  BY <1>1, <1>6, <1>7, DerivedAre, KeysApart
<1>16. \A k \in DOMAIN v \ {"sequence"} : k \in DOMAIN w /\ w[k] = v[k]
  BY <1>4, <1>9
<1>17. \A k \in DOMAIN w \cap Shared : k \in DOMAIN v \/ w[k] = 0
  BY <1>4
<1>18. CASE ~ext
  <2>1. "air_quality_index" \notin Fields("E1")
    BY <1>1, KeysApart DEF DerivedKeys
  <2>2. QED
    BY <1>8, <1>9, <1>16, <1>17, <1>18, <2>1
<1>19. CASE ext
  <2>1. p.values = With(v, x) /\ q.values = With(w, y)
    BY <1>8, <1>19
  <2>2. /\ \A k : k \in DOMAIN p.values <=> k \in DOMAIN v \/ k \in DOMAIN x
        /\ \A k : k \in DOMAIN q.values <=> k \in DOMAIN w \/ k \in DOMAIN y
        /\ \A k \in DOMAIN v : p.values[k] = v[k]
        /\ \A k \in DOMAIN w : q.values[k] = w[k]
        /\ \A k \in DOMAIN x : k \notin DOMAIN v => p.values[k] = x[k]
        /\ \A k \in DOMAIN y : k \notin DOMAIN w => q.values[k] = y[k]
    BY <2>1 DEF With
  <2>3. \A k \in DOMAIN x : k \notin DOMAIN v /\ k \notin DOMAIN w
    BY <1>9, <1>15
  <2>4. \A k \in DOMAIN y : k \notin DOMAIN w
    BY <1>9, <1>15
  <2>5. \A k \in DOMAIN p.values \ {"sequence"} : k \in DOMAIN q.values /\ q.values[k] = p.values[k]
    BY <1>13, <1>16, <2>2, <2>3, <2>4
  <2>6. "air_quality_index" \notin DOMAIN w
    BY <1>1, <1>9, KeysApart DEF DerivedKeys
  <2>7. \A k \in DOMAIN y : k \notin Shared
    BY <1>15 DEF Shared
  <2>8. \A k \in DOMAIN q.values \cap (Shared \cup {"air_quality_index"}) :
          k \in DOMAIN p.values \/ q.values[k] = 0
    BY <1>14, <1>17, <2>2, <2>4, <2>6, <2>7
  <2>9. QED
    BY <2>5, <2>8
<1>20. QED
  BY <1>18, <1>19

-----------------------------------------------------------------------------
(* The sensors.                                                           *)

\* The keys a format has sensors for.
KeysFor(f) ==
  {"temperature", "humidity", "pressure", "rssi", "dew_point", "absolute_humidity", "air_density"}
  \cup CASE f = "F5" -> {"battery_voltage", "tx_power", "acceleration_x", "acceleration_y",
                         "acceleration_z", "movement_counter", "sequence"}
         [] f = "F6" -> {"pm2_5", "co2", "voc_index", "nox_index", "sequence",
                         "air_quality_index"}
         [] f = "E1" -> {"pm1_0", "pm2_5", "pm4_0", "pm10_0", "co2", "voc_index", "nox_index",
                         "luminosity", "air_quality_index"}

LEMMA SensorKeys ==
  ASSUME NEW f \in Formats
  PROVE  {s.key : s \in {t \in Sensors : Applies(t, f)}} = KeysFor(f)
<1>1. \A s \in Sensors : Applies(s, f) => s.key \in KeysFor(f)
  <2>1. TAKE s \in Sensors
  <2>2. PICK k, g : s = Sensor(k, g) /\
          \/ g = "all" /\ k \in {"temperature", "humidity", "pressure", "rssi", "dew_point",
                                 "absolute_humidity", "air_density"}
          \/ g = "F5" /\ k \in {"battery_voltage", "tx_power", "acceleration_x",
                                "acceleration_y", "acceleration_z", "movement_counter",
                                "sequence"}
          \/ g = "F6" /\ k \in {"pm2_5", "co2", "voc_index", "nox_index", "sequence",
                                "air_quality_index"}
          \/ g = "E1" /\ k \in {"pm1_0", "pm2_5", "pm4_0", "pm10_0", "co2", "voc_index",
                                "nox_index", "luminosity", "air_quality_index"}
    BY DEF Sensors
  <2>3. s.key = k /\ s.format = g
    BY <2>2 DEF Sensor
  <2>4. QED
    BY <2>2, <2>3 DEF KeysFor, Applies, Formats
<1>2. \A k \in KeysFor(f) : \E s \in Sensors : Applies(s, f) /\ s.key = k
  <2>1. TAKE k \in KeysFor(f)
  <2>2. PICK g \in {"all", f} : Sensor(k, g) \in Sensors
    BY DEF KeysFor, Sensors, Formats
  <2>3. Sensor(k, g).key = k /\ Sensor(k, g).format = g
    BY DEF Sensor
  <2>4. QED
    BY <2>2, <2>3 DEF Applies
<1>3. QED
  BY <1>1, <1>2

\* A frame that misses nothing has every field for a value, and besides them what is
\* calculated if extended_values is set.
LEMMA ValuesOfWhole ==
  ASSUME NEW f \in Formats, NEW d \in Seq(Octets), NEW ext \in BOOLEAN,
         NEW p, p = Parse(d, ext), IsFrame(d, f), p.error = "none",
         Fields(f) \subseteq {"id"} \cup DOMAIN p.values
  PROVE  DOMAIN p.values =
           (Fields(f) \ {"id"}) \cup (IF ext THEN Calculated(f) ELSE {})
<1>1. PICK v : v = Readings(f, d)
  OBVIOUS
<1>2. PICK x : x = Derived(f, v)
  OBVIOUS
<1>3. p.values = IF ext THEN With(v, x) ELSE v
  BY <1>1, <1>2, ParsedValues DEF IsFrame
<1>4. DOMAIN v \subseteq Fields(f) \ {"id"}
  BY <1>1, Reading
<1>5. DOMAIN p.values = DOMAIN v \cup (IF ext THEN DOMAIN x ELSE {})
  BY <1>3 DEF With
<1>6. DOMAIN x \subseteq DerivedKeys
  BY <1>2 DEF Derived, DerivedKeys
<1>7. DOMAIN v = Fields(f) \ {"id"}
  <2>1. \A k \in Fields(f) \ {"id"} : k \in DOMAIN v \/ k \in DOMAIN x
    BY <1>5
  <2>2. \A k \in Fields(f) : k \notin DOMAIN x
    BY <1>6, KeysApart
  <2>3. QED
    BY <1>4, <2>1, <2>2
<1>8. {"temperature", "humidity", "pressure"} \subseteq DOMAIN v
  <2>1. {"temperature", "humidity", "pressure"} \subseteq Fields(f)
    BY CommonRaw
  <2>2. QED
    BY <1>7, <2>1
<1>9. DOMAIN x = {"dew_point", "absolute_humidity", "air_density"}
                   \cup (IF f = "F5" THEN {} ELSE {"air_quality_index"})
  <2>1. CASE f = "F5"
    <3>1. ~IsAir(f)
      BY <2>1 DEF IsAir
    <3>2. QED
      BY <1>2, <1>8, <2>1, <3>1 DEF Derived
  <2>2. CASE f # "F5"
    <3>1. f \in {"F6", "E1"}
      BY <2>2 DEF Formats
    <3>2. "co2" \in Fields(f)
      BY <3>1, F6Raw, E1Raw
    <3>3. "co2" \in Pollutants \cap DOMAIN v
      BY <1>7, <3>2 DEF Pollutants
    <3>4. Scores(v) # {}
      BY <3>3, ScoresAre
    <3>5. {"temperature", "humidity"} \subseteq DOMAIN v
      BY <1>8
    <3>6. DerivedKeys \subseteq DOMAIN x
      <4>1. /\ "dew_point" \in DOMAIN x <=> {"temperature", "humidity"} \subseteq DOMAIN v
            /\ "absolute_humidity" \in DOMAIN x <=>
                 {"temperature", "humidity"} \subseteq DOMAIN v
            /\ "air_density" \in DOMAIN x <=>
                 {"temperature", "humidity", "pressure"} \subseteq DOMAIN v
            /\ "air_quality_index" \in DOMAIN x <=> Scores(v) # {}
        BY <1>2, <3>1, DerivedAre
      <4>2. QED
        BY <1>8, <3>4, <3>5, <4>1 DEF DerivedKeys
    <3>7. DOMAIN x = DerivedKeys
      BY <1>6, <3>6
    <3>8. QED
      BY <2>2, <3>7 DEF DerivedKeys
  <2>3. QED
    BY <2>1, <2>2
<1>10. DOMAIN x = Calculated(f)
  BY <1>9 DEF Calculated, IsAir, Formats
<1>11. QED
  BY <1>5, <1>7, <1>10

\* No two sensors of a device share an identity; every value of a frame that misses
\* nothing has a sensor, the sequence number of E1 excepted; and of the sensors announced
\* for its format all have a value if extended_values is set, all but exactly the
\* calculated ones otherwise.
THEOREM SensorsMatch ==
  /\ \A s, t \in Sensors : s.suffix = t.suffix => s = t
  /\ \A f \in Formats, d \in Seq(Octets), ext \in BOOLEAN :
       LET p == Parse(d, ext) IN
         IsFrame(d, f) /\ p.error = "none" /\ Fields(f) \subseteq {"id"} \cup DOMAIN p.values =>
           /\ Valued(f, p) \subseteq Announced(f)
           /\ Announced(f) \ Valued(f, p) = IF ext THEN {} ELSE Calculated(f)
<1>1. \A s, t \in Sensors : s.suffix = t.suffix => s = t
  BY DEF Sensors, Sensor, Suffix
<1>2. ASSUME NEW f \in Formats, NEW d \in Seq(Octets), NEW ext \in BOOLEAN,
             NEW p, p = Parse(d, ext),
             IsFrame(d, f), p.error = "none", Fields(f) \subseteq {"id"} \cup DOMAIN p.values
      PROVE  /\ Valued(f, p) \subseteq Announced(f)
             /\ Announced(f) \ Valued(f, p) = IF ext THEN {} ELSE Calculated(f)
  <2>1. DOMAIN p.values = (Fields(f) \ {"id"}) \cup (IF ext THEN Calculated(f) ELSE {})
    BY <1>2, ValuesOfWhole
  <2>2. Announced(f) = KeysFor(f) \ {"rssi"}
    BY SensorKeys DEF Announced
  <2>3. CASE f = "F5"
    <3>1. Calculated(f) = {"dew_point", "absolute_humidity", "air_density"}
      BY <2>3 DEF Calculated, IsAir
    <3>2. QED
      BY <1>2, <2>1, <2>2, <2>3, <3>1, F5Raw DEF KeysFor, Valued
  <2>4. CASE f = "F6"
    <3>1. Calculated(f) =
            {"dew_point", "absolute_humidity", "air_density", "air_quality_index"}
      BY <2>4 DEF Calculated, IsAir
    <3>2. QED
      BY <1>2, <2>1, <2>2, <2>4, <3>1, F6Raw DEF KeysFor, Valued
  <2>5. CASE f = "E1"
    <3>1. Calculated(f) =
            {"dew_point", "absolute_humidity", "air_density", "air_quality_index"}
      BY <2>5 DEF Calculated, IsAir
    <3>2. QED
      BY <1>2, <2>1, <2>2, <2>5, <3>1, E1Raw DEF KeysFor, Valued
  <2>6. QED
    BY <2>3, <2>4, <2>5 DEF Formats
<1>3. QED
  BY <1>1, <1>2

-----------------------------------------------------------------------------
(* The search of an advertisement: manufacturerData is a loop, here a      *)
(* recursive function.  What it finds is shown by least counterexamples.   *)

\* A set of numbers has a least: what Induction, and the search, rest on.
LEMMA Least ==
  ASSUME NEW S, S \subseteq Nat, S # {}
  PROVE  \E m \in S : \A n \in S : m <= n
<1>1. PICK R : R = OpToRel(<, Nat)
  OBVIOUS
<1>2. IsWellFoundedOn(R, Nat)
  BY <1>1, NatLessThanWellFounded
<1>3. PICK m \in S : \A n \in S : <<n, m>> \notin R
  BY <1>2, WFMin
<1>4. \A n \in Nat, k \in Nat : n < k => <<n, k>> \in R
  BY <1>1 DEF OpToRel
<1>5. \A n \in S : n \in Nat /\ m \in Nat
  OBVIOUS
<1>6. \A n \in S : ~(n < m)
  BY <1>3, <1>4, <1>5
<1>7. \A n \in S : m <= n
  BY <1>5, <1>6, SMT
<1>8. QED
  BY <1>7

\* What holds of 0, and of n + 1 if of n, holds up to any number.
LEMMA Induction ==
  ASSUME NEW n \in Nat, NEW S, 0 \in S, \A m \in 0..(n - 1) : m \in S => m + 1 \in S
  PROVE  \A m \in 0..n : m \in S
<1>1. SUFFICES ASSUME NEW l \in 0..n, l \notin S PROVE FALSE
  OBVIOUS
<1>2. PICK T : T = {m \in 0..n : m \notin S}
  OBVIOUS
<1>3. PICK m \in T : \A k \in T : m <= k
  BY <1>1, <1>2, Least
<1>4. m \in 1..n
  BY <1>2
<1>5. m - 1 \in 0..(n - 1) /\ m - 1 \in S /\ (m - 1) + 1 = m
  BY <1>2, <1>3, <1>4
<1>6. QED
  BY <1>2, <1>5

\* What the search finds from a byte on, if it is what the code says.
Search(ad, h, i) ==
  IF i = Len(ad) \/ ~Legal(ad, i) THEN <<>>
  ELSE IF OfRuuvi(ad, i) THEN Payload(ad, i)
  ELSE h[Skipped(ad, i)]

LEMMA SkipsAhead ==
  ASSUME NEW ad \in Seq(Octets), NEW i \in 0..Len(ad), i # Len(ad), Legal(ad, i)
  PROVE  Skipped(ad, i) \in (i + 1)..Len(ad)
<1>1. PICK n \in Octets : n = ad[i + 1]
  OBVIOUS
<1>2. n \in Nat /\ n # 0 /\ i + 1 + n <= Len(ad)
  <2>1. n \in Nat
    BY DEF Octets
  <2>2. QED
    BY <1>1, <2>1 DEF Legal
<1>3. QED
  BY <1>1, <1>2 DEF Skipped

\* There is such a search: it only looks ahead.
LEMMA SearchExists ==
  ASSUME NEW ad \in Seq(Octets)
  PROVE  \E h : h = [i \in 0..Len(ad) |-> Search(ad, h, i)]
<1> DEFINE L == Len(ad)
           Good(n, h) == h = [i \in (L - n)..L |-> Search(ad, h, i)]
           S == {n \in 0..L : \E h : Good(n, h)}
<1>1. L \in Nat
  OBVIOUS
<1>2. 0 \in S
  <2>1. PICK h : h = [i \in L..L |-> <<>>]
    OBVIOUS
  <2>2. \A i \in L..L : Search(ad, h, i) = <<>>
    BY <1>1 DEF Search
  <2>3. h = [i \in (L - 0)..L |-> Search(ad, h, i)]
    BY <1>1, <2>1, <2>2
  <2>4. QED
    BY <1>1, <2>3
<1>3. ASSUME NEW n \in 0..(L - 1), n \in S PROVE n + 1 \in S
  <2>1. PICK h : Good(n, h)
    BY <1>3
  <2>2. PICK j \in 0..(L - 1) : j = L - (n + 1)
    <3>1. L - (n + 1) \in 0..(L - 1)
      BY <1>1
    <3>2. QED
      BY <3>1
  <2>3. (j + 1)..L = (L - n)..L /\ j..L = {j} \cup ((j + 1)..L)
    BY <1>1, <2>2
  <2>4. PICK g : g = [i \in j..L |-> IF i = j THEN Search(ad, h, j) ELSE h[i]]
    OBVIOUS
  <2>5. ASSUME NEW i \in (j + 1)..L PROVE g[i] = Search(ad, g, i)
    <3>1. g[i] = h[i] /\ h[i] = Search(ad, h, i)
      BY <1>1, <2>1, <2>3, <2>4
    <3>2. i # L /\ Legal(ad, i) => Skipped(ad, i) \in (j + 1)..L
      BY <1>1, SkipsAhead
    <3>3. i # L /\ Legal(ad, i) => g[Skipped(ad, i)] = h[Skipped(ad, i)]
      BY <1>1, <2>4, <3>2
    <3>4. QED
      BY <3>1, <3>3 DEF Search
  <2>6. g[j] = Search(ad, g, j)
    <3>1. Legal(ad, j) => Skipped(ad, j) \in (j + 1)..L
      BY <1>1, SkipsAhead
    <3>2. Legal(ad, j) => g[Skipped(ad, j)] = h[Skipped(ad, j)]
      BY <1>1, <2>4, <3>1
    <3>3. QED
      BY <1>1, <2>4, <3>2 DEF Search
  <2>7. g = [i \in j..L |-> Search(ad, g, i)]
    BY <2>3, <2>4, <2>5, <2>6
  <2>8. QED
    BY <1>1, <2>2, <2>7
<1>4. L \in S
  <2>1. \A n \in 0..(L - 1) : n \in S => n + 1 \in S
    BY <1>3
  <2> HIDE DEF S
  <2>2. \A n \in 0..L : n \in S
    BY <1>1, <1>2, <2>1, Induction
  <2>3. QED
    BY <1>1, <2>2
<1>5. PICK h : Good(L, h)
  BY <1>4
<1>6. L - L = 0
  BY <1>1
<1>7. QED
  BY <1>5, <1>6

LEMMA SearchIs ==
  ASSUME NEW ad \in Seq(Octets)
  PROVE  \E h : h = [i \in 0..Len(ad) |-> Search(ad, h, i)] /\ ManufacturerData(ad) = h[0]
<1>1. \E h : h = [i \in 0..Len(ad) |-> Search(ad, h, i)]
  BY SearchExists
<1>2. \E h : h = [i \in 0..Len(ad) |->
        IF i = Len(ad) \/ ~Legal(ad, i) THEN <<>>
        ELSE IF OfRuuvi(ad, i) THEN Payload(ad, i)
        ELSE h[Skipped(ad, i)]]
  BY <1>1 DEF Search
<1>3. QED
  BY <1>2 DEF ManufacturerData, Search

\* A search that has come from byte i to the last element of pos.
Walk(ad, i, n, pos) ==
  /\ n \in Nat /\ pos \in [0..n -> 0..Len(ad)] /\ pos[0] = i
  /\ \A m \in 0..(n - 1) :
       /\ pos[m] # Len(ad) /\ Legal(ad, pos[m]) /\ ~OfRuuvi(ad, pos[m])
       /\ pos[m + 1] = Skipped(ad, pos[m])

\* What it has found there.
Finds(ad, i, p) ==
  \/ (i = Len(ad) \/ ~Legal(ad, i)) /\ p = <<>>
  \/ i # Len(ad) /\ Legal(ad, i) /\ OfRuuvi(ad, i) /\ p = Payload(ad, i)

LEMMA WalkFinds ==
  ASSUME NEW ad \in Seq(Octets), NEW n \in Nat, NEW pos, Walk(ad, 0, n, pos),
         NEW p, Finds(ad, pos[n], p)
  PROVE  ManufacturerData(ad) = p
<1>1. PICK h : h = [i \in 0..Len(ad) |-> Search(ad, h, i)] /\ ManufacturerData(ad) = h[0]
  BY SearchIs
<1>2. PICK S : S = {m \in 0..n : h[pos[m]] = h[0]}
  OBVIOUS
<1>3. pos[0] = 0 /\ \A m \in 0..n : pos[m] \in 0..Len(ad)
  BY DEF Walk
<1>4. 0 \in S
  BY <1>2, <1>3
<1>5. ASSUME NEW m \in 0..(n - 1), m \in S PROVE m + 1 \in S
  <2>1. h[pos[m]] = h[0] /\ m \in 0..n /\ m + 1 \in 0..n
    BY <1>2, <1>5
  <2>2. h[pos[m]] = Search(ad, h, pos[m])
    BY <1>1, <1>3, <2>1
  <2>3. Search(ad, h, pos[m]) = h[pos[m + 1]]
    BY DEF Walk, Search
  <2>4. QED
    BY <1>2, <2>1, <2>2, <2>3
<1>6. \A m \in 0..(n - 1) : m \in S => m + 1 \in S
  BY <1>5
<1>7. n \in S
  <2>1. \A m \in 0..n : m \in S
    BY <1>4, <1>6, Induction
  <2>2. QED
    BY <2>1
<1>8. h[0] = Search(ad, h, pos[n])
  BY <1>1, <1>2, <1>3, <1>7
<1>9. QED
  BY <1>1, <1>8 DEF Search, Finds

\* For every string of bytes the search walks from structure to structure, by their
\* lengths, past those that are not of Ruuvi, and returns the payload of the first that
\* is; or nothing, where the bytes or the legal structures end before.
THEOREM FirstOfRuuvi ==
  ASSUME NEW ad \in Seq(Octets)
  PROVE  \E n, pos :
           Walk(ad, 0, n, pos) /\ Finds(ad, pos[n], ManufacturerData(ad))
<1>1. PICK L \in Nat : L = Len(ad)
  OBVIOUS
<1> DEFINE Stops(i) == \E n, pos, p : Walk(ad, i, n, pos) /\ Finds(ad, pos[n], p)
<1>2. ASSUME NEW i \in 0..L, \A j \in (i + 1)..L : Stops(j) PROVE Stops(i)
  <2>1. CASE i = L \/ ~Legal(ad, i) \/ OfRuuvi(ad, i)
    <3>1. PICK pos : pos = [m \in 0..0 |-> i]
      OBVIOUS
    <3>2. pos[0] = i /\ Walk(ad, i, 0, pos)
      BY <1>1, <3>1 DEF Walk
    <3>3. \E p : Finds(ad, i, p)
      BY <1>1, <2>1 DEF Finds
    <3>4. QED
      BY <3>2, <3>3
  <2>2. CASE i # L /\ Legal(ad, i) /\ ~OfRuuvi(ad, i)
    <3>1. PICK j \in (i + 1)..L : j = Skipped(ad, i)
      BY <1>1, <2>2, SkipsAhead
    <3>2. PICK n, pos, p : Walk(ad, j, n, pos) /\ Finds(ad, pos[n], p)
      BY <1>2
    <3>3. n \in Nat
      BY <3>2 DEF Walk
    <3>4. PICK q : q = [m \in 0..(n + 1) |-> IF m = 0 THEN i ELSE pos[m - 1]]
      OBVIOUS
    <3>5. q[0] = i /\ \A m \in 0..n : q[m + 1] = pos[m] /\ pos[m] \in 0..L
      BY <1>1, <3>2, <3>4 DEF Walk
    <3>6. q \in [0..(n + 1) -> 0..L]
      BY <3>2, <3>4, <1>1 DEF Walk
    <3>7. ASSUME NEW m \in 0..n
          PROVE  /\ q[m] # L /\ Legal(ad, q[m]) /\ ~OfRuuvi(ad, q[m])
                 /\ q[m + 1] = Skipped(ad, q[m])
      <4>1. CASE m = 0
        BY <2>2, <3>1, <3>2, <3>5, <4>1 DEF Walk
      <4>2. CASE m # 0
        <5>1. m - 1 \in 0..(n - 1) /\ m - 1 \in 0..n /\ (m - 1) + 1 = m
          BY <3>3, <4>2
        <5>2. q[m] = pos[m - 1] /\ q[m + 1] = pos[(m - 1) + 1]
          BY <3>5, <5>1
        <5>3. QED
          BY <1>1, <3>2, <5>1, <5>2 DEF Walk
      <4>3. QED
        BY <4>1, <4>2
    <3>8. Walk(ad, i, n + 1, q)
      BY <1>1, <3>3, <3>5, <3>6, <3>7 DEF Walk
    <3>9. q[n + 1] = pos[n]
      BY <3>3, <3>5
    <3>10. n + 1 \in Nat
      BY <3>3
    <3>11. QED
      BY <3>2, <3>8, <3>9, <3>10
  <2>3. QED
    BY <2>1, <2>2
<1>3. Stops(0)
  <2>1. PICK S : S = {m \in 0..L : ~Stops(L - m)}
    OBVIOUS
  <2>2. SUFFICES ASSUME ~Stops(0) PROVE FALSE
    OBVIOUS
  <2>3. L \in S
    <3>1. L - L = 0 /\ L \in 0..L
      OBVIOUS
    <3>2. QED
      BY <2>1, <2>2, <3>1
  <2>4. PICK m \in S : \A k \in S : m <= k
    <3> HIDE DEF Stops
    <3>1. S \subseteq Nat
      BY <2>1
    <3>2. QED
      BY <2>3, <3>1, Least
  <2>5. m \in 0..L /\ ~Stops(L - m)
    BY <2>1
  <2>6. PICK i \in 0..L : i = L - m
    BY <2>5
  <2>7. ASSUME NEW j \in (i + 1)..L PROVE Stops(j)
    <3>1. L - j \in 0..L /\ L - j < m /\ L - (L - j) = j
      BY <2>5, <2>6
    <3>2. L - j \notin S
      BY <2>4, <2>5, <3>1
    <3>3. Stops(L - (L - j))
      BY <2>1, <3>1, <3>2
    <3>4. QED
      BY <3>1, <3>3
  <2>8. Stops(i)
    BY <1>2, <2>7
  <2>9. QED
    BY <2>5, <2>6, <2>8
<1>4. PICK n, pos, p : Walk(ad, 0, n, pos) /\ Finds(ad, pos[n], p)
  BY <1>3
<1>5. ManufacturerData(ad) = p
  <2>1. n \in Nat
    BY <1>4 DEF Walk
  <2>2. QED
    BY <1>4, <2>1, WalkFinds
<1>6. QED
  BY <1>4, <1>5

LEMMA ManufacturerType ==
  ASSUME NEW ad \in Seq(Octets)
  PROVE  ManufacturerData(ad) \in Seq(Octets)
<1>1. PICK n, pos : Walk(ad, 0, n, pos) /\ Finds(ad, pos[n], ManufacturerData(ad))
  BY FirstOfRuuvi
<1>2. PICK i \in 0..Len(ad) : i = pos[n]
  BY <1>1 DEF Walk
<1>3. CASE ManufacturerData(ad) = <<>>
  BY <1>3
<1>4. CASE i # Len(ad) /\ Legal(ad, i) /\ ManufacturerData(ad) = Payload(ad, i)
  <2>1. PICK k \in Octets : k = ad[i + 1]
    BY <1>4
  <2>2. k \in Nat /\ i + 1 + k <= Len(ad)
    <3>1. k \in Nat
      BY DEF Octets
    <3>2. QED
      BY <1>4, <2>1, <3>1 DEF Legal
  <2>3. SubSeq(ad, i + 5, i + 1 + k) \in Seq(Octets)
    BY <2>2
  <2>4. QED
    BY <1>4, <2>1, <2>3 DEF Payload
<1>5. QED
  BY <1>1, <1>2, <1>3, <1>4 DEF Finds

-----------------------------------------------------------------------------
(* The bits of a frame: what the sender packs is what the receiver unpacks. *)

Power(n) == 2 ^ n

\* A field has up to 24 bits.
LEMMA PowerType == \A n \in 0..24 : Power(n) \in Nat \ {0}
<1>1. /\ Power(0) = 1 /\ Power(1) = 2 /\ Power(2) = 4 /\ Power(3) = 8
      /\ Power(4) = 16 /\ Power(5) = 32 /\ Power(6) = 64 /\ Power(7) = 128
      /\ Power(8) = 256 /\ Power(9) = 512 /\ Power(10) = 1024 /\ Power(11) = 2048
      /\ Power(12) = 4096 /\ Power(13) = 8192 /\ Power(14) = 16384 /\ Power(15) = 32768
      /\ Power(16) = 65536 /\ Power(17) = 131072 /\ Power(18) = 262144 /\ Power(19) = 524288
      /\ Power(20) = 1048576 /\ Power(21) = 2097152 /\ Power(22) = 4194304 /\ Power(23) = 8388608
      /\ Power(24) = 16777216
  BY SMT DEF Power
<1>2. QED
  BY <1>1, SMT

\* A bit of a number, counted from the lowest, and what is above its n lowest bits.
BitOf(v, n) == (v \div 2 ^ n) % 2
Above(v, n) == v \div 2 ^ n

LEMMA BitType ==
  ASSUME NEW v \in Nat, NEW n \in 0..24
  PROVE  BitOf(v, n) \in {0, 1} /\ Above(v, n) \in Nat
<1>1. \A m \in Nat \ {0} : (v \div m) % 2 \in {0, 1} /\ v \div m \in Nat
  BY SMT
<1>2. BitOf(v, n) = (v \div Power(n)) % 2 /\ Above(v, n) = v \div Power(n)
  BY DEF BitOf, Above, Power
<1>3. QED
  BY <1>1, <1>2, PowerType

\* What is above a bit, and the bit.
LEMMA Halving ==
  ASSUME NEW v \in Nat, NEW n \in 0..23
  PROVE  Above(v, n) = 2 * Above(v, n + 1) + BitOf(v, n)
<1> DEFINE Halved(a, b) == Above(v, a) = 2 * Above(v, b) + BitOf(v, a)
<1>1. Halved(0, 1) /\ Halved(1, 2) /\ Halved(2, 3) /\ Halved(3, 4)
  BY SMT DEF Above, BitOf
<1>2. Halved(4, 5) /\ Halved(5, 6) /\ Halved(6, 7) /\ Halved(7, 8)
  BY SMT DEF Above, BitOf
<1>3. Halved(8, 9) /\ Halved(9, 10) /\ Halved(10, 11) /\ Halved(11, 12)
  BY SMT DEF Above, BitOf
<1>4. Halved(12, 13) /\ Halved(13, 14) /\ Halved(14, 15) /\ Halved(15, 16)
  BY SMT DEF Above, BitOf
<1>5. Halved(16, 17) /\ Halved(17, 18) /\ Halved(18, 19) /\ Halved(19, 20)
  BY SMT DEF Above, BitOf
<1>6. Halved(20, 21) /\ Halved(21, 22) /\ Halved(22, 23) /\ Halved(23, 24)
  BY SMT DEF Above, BitOf
<1> HIDE DEF Halved
<1>7. Halved(n, n + 1)
  BY <1>1, <1>2, <1>3, <1>4, <1>5, <1>6, SMT
<1>8. QED
  BY <1>7 DEF Halved

\* Eight bits, the lowest of them bit n.
Eight(v, n) ==
  128 * BitOf(v, n + 7) + 64 * BitOf(v, n + 6) + 32 * BitOf(v, n + 5) + 16 * BitOf(v, n + 4)
    + 8 * BitOf(v, n + 3) + 4 * BitOf(v, n + 2) + 2 * BitOf(v, n + 1) + BitOf(v, n)

\* The eight bits from bit n on take it to what is above them.
LEMMA EightIs ==
  ASSUME NEW v \in Nat, NEW n \in 0..16
  PROVE  Above(v, n) = 256 * Above(v, n + 8) + Eight(v, n)
<1>1. /\ Above(v, n) = 2 * Above(v, n + 1) + BitOf(v, n)
      /\ Above(v, n + 1) = 2 * Above(v, n + 2) + BitOf(v, n + 1)
      /\ Above(v, n + 2) = 2 * Above(v, n + 3) + BitOf(v, n + 2)
      /\ Above(v, n + 3) = 2 * Above(v, n + 4) + BitOf(v, n + 3)
      /\ Above(v, n + 4) = 2 * Above(v, n + 5) + BitOf(v, n + 4)
      /\ Above(v, n + 5) = 2 * Above(v, n + 6) + BitOf(v, n + 5)
      /\ Above(v, n + 6) = 2 * Above(v, n + 7) + BitOf(v, n + 6)
      /\ Above(v, n + 7) = 2 * Above(v, n + 8) + BitOf(v, n + 7)
  BY Halving, SMT
<1>2. \A m \in 0..8 : Above(v, n + m) \in Nat /\ BitOf(v, n + m) \in Nat
  <2>1. TAKE m \in 0..8
  <2>2. PICK h \in 0..24 : h = n + m
    OBVIOUS
  <2>3. Above(v, h) \in Nat /\ BitOf(v, h) \in {0, 1}
    BY BitType
  <2>4. QED
    BY <2>2, <2>3
<1>3. /\ Above(v, n + 1) \in Nat /\ Above(v, n + 2) \in Nat /\ Above(v, n + 3) \in Nat
      /\ Above(v, n + 4) \in Nat /\ Above(v, n + 5) \in Nat /\ Above(v, n + 6) \in Nat
      /\ Above(v, n + 7) \in Nat /\ Above(v, n + 8) \in Nat
  BY <1>2
<1>4. /\ BitOf(v, n) \in Nat
      /\ BitOf(v, n + 1) \in Nat /\ BitOf(v, n + 2) \in Nat /\ BitOf(v, n + 3) \in Nat
      /\ BitOf(v, n + 4) \in Nat /\ BitOf(v, n + 5) \in Nat /\ BitOf(v, n + 6) \in Nat
      /\ BitOf(v, n + 7) \in Nat
  BY <1>2
<1>5. QED
  BY <1>1, <1>3, <1>4, SMT DEF Eight

\* A frame as the sender can have it.
Sendable(s) ==
  /\ s.format \in Formats /\ s.fill \in {0, 1} /\ s.size \in 0..Size[s.format]
  /\ \A k \in Fields(s.format) : s.raw[k] \in Nat /\ s.raw[k] < Power(Layout[s.format][k][2])

\* The first bit of a field.
Starts(f, k) == Layout[f][k][1]

\* The fields of a table are within the frame, and apart.
LEMMA Places ==
  ASSUME NEW f \in Formats
  PROVE  /\ \A k \in Fields(f) :
              /\ Starts(f, k) \in Nat /\ End(f, k) \in Nat /\ Starts(f, k) < End(f, k)
              /\ End(f, k) <= 8 * Size[f] /\ End(f, k) - Starts(f, k) <= 24
         /\ \A k, l \in Fields(f) : k # l => End(f, k) <= Starts(f, l) \/ End(f, l) <= Starts(f, k)
<1>1. CASE f = "F5"
  <2>1. /\ Layout[f]["acceleration_x"] = <<56, 16>>
        /\ Layout[f]["acceleration_y"] = <<72, 16>>
        /\ Layout[f]["acceleration_z"] = <<88, 16>>
        /\ Layout[f]["battery_voltage"] = <<104, 11>>
        /\ Layout[f]["tx_power"] = <<115, 5>>
        /\ Layout[f]["movement_counter"] = <<120, 8>>
        /\ Layout[f]["sequence"] = <<128, 16>>
    BY <1>1 DEF Layout, Common, With
  <2>2. /\ Starts(f, "id") = 0 /\ End(f, "id") = 8
        /\ Starts(f, "temperature") = 8 /\ End(f, "temperature") = 24
        /\ Starts(f, "humidity") = 24 /\ End(f, "humidity") = 40
        /\ Starts(f, "pressure") = 40 /\ End(f, "pressure") = 56
        /\ Starts(f, "acceleration_x") = 56 /\ End(f, "acceleration_x") = 72
        /\ Starts(f, "acceleration_y") = 72 /\ End(f, "acceleration_y") = 88
        /\ Starts(f, "acceleration_z") = 88 /\ End(f, "acceleration_z") = 104
        /\ Starts(f, "battery_voltage") = 104 /\ End(f, "battery_voltage") = 115
        /\ Starts(f, "tx_power") = 115 /\ End(f, "tx_power") = 120
        /\ Starts(f, "movement_counter") = 120 /\ End(f, "movement_counter") = 128
        /\ Starts(f, "sequence") = 128 /\ End(f, "sequence") = 144
    BY <2>1, CommonLayout DEF Starts, End
  <2>3. Fields(f) = {"id", "temperature", "humidity", "pressure", "acceleration_x",
                     "acceleration_y", "acceleration_z", "battery_voltage", "tx_power",
                     "movement_counter", "sequence"}
    BY <1>1 DEF Fields, Layout, Common, With
  <2>4. Size[f] = 24
    BY <1>1 DEF Size
  <2>5. QED
    BY <2>2, <2>3, <2>4
<1>2. CASE f = "F6"
  <2>1. /\ Layout[f]["pm2_5"] = <<56, 16>>
        /\ Layout[f]["co2"] = <<72, 16>>
        /\ Layout[f]["voc_index"] = <<88, 9>>
        /\ Layout[f]["nox_index"] = <<97, 9>>
        /\ Layout[f]["sequence"] = <<112, 8>>
    BY <1>2 DEF Layout, Common, With
  <2>2. /\ Starts(f, "id") = 0 /\ End(f, "id") = 8
        /\ Starts(f, "temperature") = 8 /\ End(f, "temperature") = 24
        /\ Starts(f, "humidity") = 24 /\ End(f, "humidity") = 40
        /\ Starts(f, "pressure") = 40 /\ End(f, "pressure") = 56
        /\ Starts(f, "pm2_5") = 56 /\ End(f, "pm2_5") = 72
        /\ Starts(f, "co2") = 72 /\ End(f, "co2") = 88
        /\ Starts(f, "voc_index") = 88 /\ End(f, "voc_index") = 97
        /\ Starts(f, "nox_index") = 97 /\ End(f, "nox_index") = 106
        /\ Starts(f, "sequence") = 112 /\ End(f, "sequence") = 120
    BY <2>1, CommonLayout DEF Starts, End
  <2>3. Fields(f) = {"id", "temperature", "humidity", "pressure", "pm2_5", "co2", "voc_index",
                     "nox_index", "sequence"}
    BY <1>2 DEF Fields, Layout, Common, With
  <2>4. Size[f] = 20
    BY <1>2 DEF Size
  <2>5. QED
    BY <2>2, <2>3, <2>4
<1>3. CASE f = "E1"
  <2>1. /\ Layout[f]["pm1_0"] = <<56, 16>>
        /\ Layout[f]["pm2_5"] = <<72, 16>>
        /\ Layout[f]["pm4_0"] = <<88, 16>>
        /\ Layout[f]["pm10_0"] = <<104, 16>>
        /\ Layout[f]["co2"] = <<120, 16>>
        /\ Layout[f]["voc_index"] = <<136, 9>>
        /\ Layout[f]["nox_index"] = <<145, 9>>
        /\ Layout[f]["luminosity"] = <<154, 22>>
        /\ Layout[f]["sequence"] = <<200, 24>>
    BY <1>3 DEF Layout, Common, With
  <2>2. /\ Starts(f, "id") = 0 /\ End(f, "id") = 8
        /\ Starts(f, "temperature") = 8 /\ End(f, "temperature") = 24
        /\ Starts(f, "humidity") = 24 /\ End(f, "humidity") = 40
        /\ Starts(f, "pressure") = 40 /\ End(f, "pressure") = 56
        /\ Starts(f, "pm1_0") = 56 /\ End(f, "pm1_0") = 72
        /\ Starts(f, "pm2_5") = 72 /\ End(f, "pm2_5") = 88
        /\ Starts(f, "pm4_0") = 88 /\ End(f, "pm4_0") = 104
        /\ Starts(f, "pm10_0") = 104 /\ End(f, "pm10_0") = 120
        /\ Starts(f, "co2") = 120 /\ End(f, "co2") = 136
        /\ Starts(f, "voc_index") = 136 /\ End(f, "voc_index") = 145
        /\ Starts(f, "nox_index") = 145 /\ End(f, "nox_index") = 154
        /\ Starts(f, "luminosity") = 154 /\ End(f, "luminosity") = 176
        /\ Starts(f, "sequence") = 200 /\ End(f, "sequence") = 224
    BY <2>1, CommonLayout DEF Starts, End
  <2>3. Fields(f) = {"id", "temperature", "humidity", "pressure", "pm1_0", "pm2_5", "pm4_0",
                     "pm10_0", "co2", "voc_index", "nox_index", "luminosity", "sequence"}
    BY <1>3 DEF Fields, Layout, Common, With
  <2>4. Size[f] = 40
    BY <1>3 DEF Size
  <2>5. QED
    BY <2>2, <2>3, <2>4
<1>4. QED
  BY <1>1, <1>2, <1>3 DEF Formats

\* Above the bits of a number there is nothing.
LEMMA Nought ==
  ASSUME NEW v \in Nat
  PROVE  /\ Above(v, 0) = v
         /\ v < 32 => Above(v, 5) = 0
         /\ v < 256 => Above(v, 8) = 0
         /\ v < 512 => Above(v, 9) = 0
         /\ v < 2048 => Above(v, 11) = 0
         /\ v < 65536 => Above(v, 16) = 0
         /\ v < 4194304 => Above(v, 22) = 0
         /\ v < 16777216 => Above(v, 24) = 0
BY SMT DEF Above

LEMMA EightType ==
  ASSUME NEW v \in Nat
  PROVE  \A n \in {0, 8, 16} : Eight(v, n) \in Nat
<1>1. \A n \in {0, 8, 16}, m \in 0..7 : BitOf(v, n + m) \in Nat
  <2>1. TAKE n \in {0, 8, 16}, m \in 0..7
  <2>2. PICK h \in 0..24 : h = n + m
    OBVIOUS
  <2>3. BitOf(v, h) \in {0, 1}
    BY BitType
  <2>4. QED
    BY <2>2, <2>3
<1>2. \A n \in {0, 8, 16} :
        /\ BitOf(v, n) \in Nat
        /\ BitOf(v, n + 1) \in Nat /\ BitOf(v, n + 2) \in Nat /\ BitOf(v, n + 3) \in Nat
        /\ BitOf(v, n + 4) \in Nat /\ BitOf(v, n + 5) \in Nat /\ BitOf(v, n + 6) \in Nat
        /\ BitOf(v, n + 7) \in Nat
  <2>1. \A n \in {0, 8, 16} : n + 0 = n
    OBVIOUS
  <2>2. QED
    BY <1>1, <2>1
<1>3. QED
  BY <1>2 DEF Eight

\* A number is the sum of its bits.
LEMMA Spelled ==
  ASSUME NEW v \in Nat
  PROVE  /\ v < 256 => v = Eight(v, 0)
         /\ v < 65536 => v = 256 * Eight(v, 8) + Eight(v, 0)
         /\ v < 16777216 => v = 65536 * Eight(v, 16) + 256 * Eight(v, 8) + Eight(v, 0)
<1>1. \A n \in {0, 8, 16} : Eight(v, n) \in Nat
  BY EightType
<1>2. Above(v, 8) \in Nat /\ Above(v, 16) \in Nat
  BY BitType
<1>3. /\ Above(v, 0) = 256 * Above(v, 8) + Eight(v, 0)
      /\ Above(v, 8) = 256 * Above(v, 16) + Eight(v, 8)
      /\ Above(v, 16) = 256 * Above(v, 24) + Eight(v, 16)
  <2>1. 0 + 8 = 8 /\ 8 + 8 = 16 /\ 16 + 8 = 24
    OBVIOUS
  <2>2. QED
    BY <2>1, EightIs
<1>4. QED
  BY <1>1, <1>2, <1>3, Nought, SMT

\* A bit of the frame within a field is that bit of its number.
LEMMA BitIs ==
  ASSUME NEW s, Sendable(s), NEW k \in Fields(s.format), NEW q \in Nat,
         Starts(s.format, k) <= q, q < End(s.format, k)
  PROVE  Bit(s, q) = BitOf(s.raw[k], End(s.format, k) - 1 - q)
<1>1. PICK f \in Formats : f = s.format
  BY DEF Sendable
<1>2. q \in 0..(8 * Size[f] - 1)
  <2>1. End(f, k) \in Nat /\ End(f, k) <= 8 * Size[f] /\ Size[f] \in Nat
    BY <1>1, Places DEF Size, Formats
  <2>2. QED
    BY <1>1, <2>1
<1>3. Owner[f][q] = {l \in Fields(f) : Starts(f, l) <= q /\ q < End(f, l)}
  BY <1>2 DEF Owner, Starts
<1>4. \A l \in Owner[f][q] : l = k
  <2>1. TAKE l \in Owner[f][q]
  <2>2. /\ Starts(f, l) \in Nat /\ End(f, l) \in Nat /\ Starts(f, k) \in Nat /\ End(f, k) \in Nat
        /\ l # k => End(f, k) <= Starts(f, l) \/ End(f, l) <= Starts(f, k)
    BY <1>1, <1>3, Places
  <2>3. QED
    BY <1>1, <1>3, <2>2
<1>5. k \in Owner[f][q]
  BY <1>1, <1>3
<1>6. (CHOOSE l \in Owner[f][q] : TRUE) = k
  BY <1>4, <1>5
<1>7. QED
  BY <1>1, <1>5, <1>6 DEF Bit, BitOf

LEMMA BitIsBit ==
  ASSUME NEW s, Sendable(s), NEW q \in Nat, q < 8 * Size[s.format]
  PROVE  Bit(s, q) \in {0, 1}
<1>1. PICK f \in Formats : f = s.format
  BY DEF Sendable
<1>2. q \in 0..(8 * Size[f] - 1)
  BY <1>1 DEF Size, Formats
<1>3. Owner[f][q] = {l \in Fields(f) : Starts(f, l) <= q /\ q < End(f, l)}
  BY <1>2 DEF Owner, Starts
<1>4. CASE Owner[f][q] = {}
  BY <1>1, <1>4 DEF Bit, Sendable
<1>5. ASSUME NEW k \in Owner[f][q] PROVE Bit(s, q) \in {0, 1}
  <2>1. k \in Fields(f) /\ Starts(f, k) <= q /\ q < End(f, k)
    BY <1>3, <1>5
  <2>2. Bit(s, q) = BitOf(s.raw[k], End(f, k) - 1 - q)
    BY <1>1, <2>1, BitIs
  <2>3. End(f, k) - 1 - q \in 0..24
    <3>1. Starts(f, k) \in Nat /\ End(f, k) \in Nat /\ End(f, k) - Starts(f, k) <= 24
      BY <2>1, Places
    <3>2. QED
      BY <2>1, <3>1
  <2>4. s.raw[k] \in Nat
    BY <1>1, <2>1 DEF Sendable
  <2>5. QED
    BY <2>2, <2>3, <2>4, BitType
<1>6. QED
  BY <1>4, <1>5

\* The bytes of a frame.
LEMMA FrameType ==
  ASSUME NEW s, Sendable(s)
  PROVE  /\ Frame(s) \in Seq(Octets) /\ Len(Frame(s)) = s.size
         /\ \A i \in Nat : i < s.size =>
              Byte(Frame(s), i) =
                128 * Bit(s, 8 * i) + 64 * Bit(s, 8 * i + 1) + 32 * Bit(s, 8 * i + 2)
                  + 16 * Bit(s, 8 * i + 3) + 8 * Bit(s, 8 * i + 4) + 4 * Bit(s, 8 * i + 5)
                  + 2 * Bit(s, 8 * i + 6) + Bit(s, 8 * i + 7)
<1> DEFINE Eights(p) == 128 * Bit(s, p) + 64 * Bit(s, p + 1) + 32 * Bit(s, p + 2)
                  + 16 * Bit(s, p + 3) + 8 * Bit(s, p + 4) + 4 * Bit(s, p + 5)
                  + 2 * Bit(s, p + 6) + Bit(s, p + 7)
<1>1. s.size \in Nat /\ Size[s.format] \in Nat /\ s.size <= Size[s.format]
  BY DEF Sendable, Size, Formats
<1>2. Frame(s) = [b \in 1..s.size |-> Eights(8 * (b - 1))]
  <2>1. \A b \in 1..s.size : 8 * (b - 1) + 0 = 8 * (b - 1)
    BY <1>1
  <2>2. QED
    BY <2>1 DEF Frame
<1>3. ASSUME NEW b \in 1..s.size PROVE Eights(8 * (b - 1)) \in Octets
  <2>1. PICK p \in Nat : p = 8 * (b - 1) /\ p + 8 <= 8 * Size[s.format]
    BY <1>1
  <2>2. \A m \in 0..7 : p + m \in Nat /\ p + m < 8 * Size[s.format]
    BY <1>1, <2>1
  <2>3. \A m \in 0..7 : Bit(s, p + m) \in {0, 1}
    BY <2>2, BitIsBit
  <2>4. p + 0 = p
    OBVIOUS
  <2>5. /\ Bit(s, p) \in {0, 1} /\ Bit(s, p + 1) \in {0, 1} /\ Bit(s, p + 2) \in {0, 1}
        /\ Bit(s, p + 3) \in {0, 1} /\ Bit(s, p + 4) \in {0, 1} /\ Bit(s, p + 5) \in {0, 1}
        /\ Bit(s, p + 6) \in {0, 1} /\ Bit(s, p + 7) \in {0, 1}
    BY <2>3, <2>4
  <2>6. 0 <= Eights(p) /\ Eights(p) <= 255 /\ Eights(p) \in Int
    BY <2>5
  <2>7. Eights(p) \in Octets
    BY <2>6 DEF Octets
  <2>8. QED
    BY <2>1, <2>7
<1> HIDE DEF Eights
<1>4. Frame(s) \in Seq(Octets) /\ Len(Frame(s)) = s.size
  BY <1>1, <1>2, <1>3
<1>5. ASSUME NEW i \in Nat, i < s.size PROVE Byte(Frame(s), i) = Eights(8 * i)
  <2>1. PICK b \in 1..s.size : b = i + 1 /\ b - 1 = i
    BY <1>1, <1>5
  <2>2. Frame(s)[b] = Eights(8 * (b - 1))
    BY <1>2
  <2>3. QED
    BY <1>4, <1>5, <2>1, <2>2 DEF Byte
<1>6. QED
  BY <1>4, <1>5 DEF Eights

LEMMA PowerIs ==
  /\ Power(5) = 32 /\ Power(8) = 256 /\ Power(9) = 512 /\ Power(11) = 2048
  /\ Power(16) = 65536 /\ Power(22) = 4194304 /\ Power(24) = 16777216
BY SMT DEF Power

\* A byte within a field.
LEMMA ByteWithin ==
  ASSUME NEW s, Sendable(s), NEW k \in Fields(s.format), NEW i \in Nat, NEW n \in Nat, i < s.size,
         Starts(s.format, k) <= 8 * i, End(s.format, k) = 8 * i + 8 + n
  PROVE  Byte(Frame(s), i) = Eight(s.raw[k], n)
<1>1. PICK f \in Formats : f = s.format
  BY DEF Sendable
<1>2. Starts(f, k) \in Nat /\ End(f, k) <= 8 * Size[f] /\ Size[f] \in Nat
  BY <1>1, Places DEF Size, Formats
<1>3. \A m \in 0..7 : Bit(s, 8 * i + m) = BitOf(s.raw[k], n + 7 - m)
  <2>1. TAKE m \in 0..7
  <2>2. PICK q \in Nat : q = 8 * i + m
    OBVIOUS
  <2>3. Starts(f, k) <= q /\ q < End(f, k) /\ End(f, k) - 1 - q = n + 7 - m
    BY <1>1, <1>2, <2>2
  <2>4. QED
    BY <1>1, <2>2, <2>3, BitIs
<1>4. 8 * i + 0 = 8 * i /\ n + 7 - 0 = n + 7 /\ n + 7 - 1 = n + 6 /\ n + 7 - 2 = n + 5
      /\ n + 7 - 3 = n + 4 /\ n + 7 - 4 = n + 3 /\ n + 7 - 5 = n + 2 /\ n + 7 - 6 = n + 1
      /\ n + 7 - 7 = n
  OBVIOUS
<1>5. /\ Bit(s, 8 * i) = BitOf(s.raw[k], n + 7) /\ Bit(s, 8 * i + 1) = BitOf(s.raw[k], n + 6)
      /\ Bit(s, 8 * i + 2) = BitOf(s.raw[k], n + 5) /\ Bit(s, 8 * i + 3) = BitOf(s.raw[k], n + 4)
      /\ Bit(s, 8 * i + 4) = BitOf(s.raw[k], n + 3) /\ Bit(s, 8 * i + 5) = BitOf(s.raw[k], n + 2)
      /\ Bit(s, 8 * i + 6) = BitOf(s.raw[k], n + 1) /\ Bit(s, 8 * i + 7) = BitOf(s.raw[k], n)
  <2>1. /\ 0 \in 0..7 /\ 1 \in 0..7 /\ 2 \in 0..7 /\ 3 \in 0..7
        /\ 4 \in 0..7 /\ 5 \in 0..7 /\ 6 \in 0..7 /\ 7 \in 0..7
    OBVIOUS
  <2>2. QED
    BY <1>3, <1>4, <2>1, Zenon
<1>6. QED
  BY <1>5, FrameType, SMTT(30) DEF Eight

\* The same of a frame that is not cut short.
LEMMA WholeByte ==
  ASSUME NEW s, Sendable(s), s.size = Size[s.format],
         NEW k \in Fields(s.format), NEW i \in Nat, NEW n \in Nat,
         Starts(s.format, k) <= 8 * i, End(s.format, k) = 8 * i + 8 + n
  PROVE  Byte(Frame(s), i) = Eight(s.raw[k], n)
<1>1. End(s.format, k) <= 8 * Size[s.format] /\ Size[s.format] \in Nat
  BY Places DEF Sendable, Size, Formats
<1>2. i < s.size
  BY <1>1
<1>3. QED
  BY <1>2, ByteWithin

\* Fields of one byte, of two and of three.
LEMMA WholeField ==
  ASSUME NEW s, Sendable(s), s.size = Size[s.format],
         NEW k \in Fields(s.format), NEW i \in Nat, Layout[s.format][k][1] = 8 * i
  PROVE  /\ Layout[s.format][k][2] = 8 => Byte(Frame(s), i) = s.raw[k]
         /\ Layout[s.format][k][2] = 16 => U16(Frame(s), i) = s.raw[k]
         /\ Layout[s.format][k][2] = 24 => U24(Frame(s), i) = s.raw[k]
<1>1. PICK v \in Nat : v = s.raw[k] /\ v < Power(Layout[s.format][k][2])
  BY DEF Sendable
<1>2. Starts(s.format, k) = 8 * i /\ End(s.format, k) = 8 * i + Layout[s.format][k][2]
  BY DEF Starts, End
<1>3. CASE Layout[s.format][k][2] = 8
  <2>1. v < 256
    BY <1>1, <1>3, PowerIs
  <2>2. Byte(Frame(s), i) = Eight(v, 0)
    <3>1. 8 * i <= 8 * i /\ 8 * i + 8 = 8 * i + 8 + 0
      OBVIOUS
    <3>2. QED
      BY <1>1, <1>2, <1>3, <3>1, WholeByte
  <2>3. QED
    BY <1>1, <1>3, <2>1, <2>2, Spelled
<1>4. CASE Layout[s.format][k][2] = 16
  <2>1. v < 65536
    BY <1>1, <1>4, PowerIs
  <2>2. Byte(Frame(s), i) = Eight(v, 8)
    <3>1. 8 * i <= 8 * i /\ 8 * i + 16 = 8 * i + 8 + 8
      OBVIOUS
    <3>2. QED
      BY <1>1, <1>2, <1>4, <3>1, WholeByte
  <2>3. Byte(Frame(s), i + 1) = Eight(v, 0)
    <3>1. PICK j \in Nat : j = i + 1
      OBVIOUS
    <3>2. Starts(s.format, k) <= 8 * j /\ End(s.format, k) = 8 * j + 8 + 0
      BY <1>2, <1>4, <3>1
    <3>3. Byte(Frame(s), j) = Eight(v, 0)
      BY <1>1, <3>2, WholeByte
    <3>4. QED
      BY <3>1, <3>3
  <2>4. U16(Frame(s), i) = 256 * Eight(v, 8) + Eight(v, 0)
    BY <2>2, <2>3 DEF U16
  <2>5. QED
    BY <1>1, <1>4, <2>1, <2>4, Spelled
<1>5. CASE Layout[s.format][k][2] = 24
  <2>1. v < 16777216
    BY <1>1, <1>5, PowerIs
  <2>2. Byte(Frame(s), i) = Eight(v, 16)
    <3>1. 8 * i <= 8 * i /\ 8 * i + 24 = 8 * i + 8 + 16
      OBVIOUS
    <3>2. QED
      BY <1>1, <1>2, <1>5, <3>1, WholeByte
  <2>3. Byte(Frame(s), i + 1) = Eight(v, 8)
    <3>1. PICK j \in Nat : j = i + 1
      OBVIOUS
    <3>2. Starts(s.format, k) <= 8 * j /\ End(s.format, k) = 8 * j + 8 + 8
      BY <1>2, <1>5, <3>1
    <3>3. Byte(Frame(s), j) = Eight(v, 8)
      BY <1>1, <3>2, WholeByte
    <3>4. QED
      BY <3>1, <3>3
  <2>4. Byte(Frame(s), i + 2) = Eight(v, 0)
    <3>1. PICK j \in Nat : j = i + 2
      OBVIOUS
    <3>2. Starts(s.format, k) <= 8 * j /\ End(s.format, k) = 8 * j + 8 + 0
      BY <1>2, <1>5, <3>1
    <3>3. Byte(Frame(s), j) = Eight(v, 0)
      BY <1>1, <3>2, WholeByte
    <3>4. QED
      BY <3>1, <3>3
  <2>5. i + 1 + 1 = i + 2
    OBVIOUS
  <2>6. U24(Frame(s), i) = 65536 * Eight(v, 16) + (256 * Eight(v, 8) + Eight(v, 0))
    BY <2>2, <2>3, <2>4, <2>5 DEF U24, U16
  <2>7. PICK a, b, c : a = Eight(v, 16) /\ b = Eight(v, 8) /\ c = Eight(v, 0)
    OBVIOUS
  <2>8. v = 65536 * a + 256 * b + c
    BY <2>1, <2>7, Spelled
  <2>9. a \in Nat /\ b \in Nat /\ c \in Nat
    BY <2>7, EightType
  <2>10. QED
    BY <1>1, <1>5, <2>6, <2>7, <2>8, <2>9
<1>6. QED
  BY <1>3, <1>4, <1>5

LEMMA BitSmall ==
  ASSUME NEW v \in Nat
  PROVE  \A n \in Nat : n <= 24 =>
           BitOf(v, n) \in Nat /\ BitOf(v, n) <= 1 /\ Above(v, n) \in Nat
<1>1. TAKE n \in Nat
<1>2. HAVE n <= 24
<1>3. n \in 0..24
  BY <1>2
<1>4. BitOf(v, n) \in {0, 1} /\ Above(v, n) \in Nat
  BY <1>3, BitType
<1>5. QED
  BY <1>4

\* The bits of the fields that are not whole bytes.
LEMMA PartSpelled ==
  ASSUME NEW v \in Nat
  PROVE  /\ v < 32 =>
              v = 16 * BitOf(v, 4) + 8 * BitOf(v, 3) + 4 * BitOf(v, 2) + 2 * BitOf(v, 1)
                    + BitOf(v, 0)
         /\ v < 512 =>
              /\ v = 2 * Eight(v, 1) + BitOf(v, 0)
              /\ v = 256 * BitOf(v, 8) + 128 * BitOf(v, 7) + 64 * BitOf(v, 6) + 32 * BitOf(v, 5)
                       + 16 * BitOf(v, 4) + 8 * BitOf(v, 3) + 4 * BitOf(v, 2) + 2 * BitOf(v, 1)
                       + BitOf(v, 0)
         /\ v < 2048 => v = 8 * Eight(v, 3) + 4 * BitOf(v, 2) + 2 * BitOf(v, 1) + BitOf(v, 0)
         /\ v < 4194304 =>
              v = 65536 * (32 * BitOf(v, 21) + 16 * BitOf(v, 20) + 8 * BitOf(v, 19)
                             + 4 * BitOf(v, 18) + 2 * BitOf(v, 17) + BitOf(v, 16))
                    + 256 * Eight(v, 8) + Eight(v, 0)
<1>1. \A n \in Nat : n <= 24 => Above(v, n) \in Nat /\ BitOf(v, n) \in Nat
  BY BitSmall
<1>2. \A n \in 0..23 : Above(v, n) = 2 * Above(v, n + 1) + BitOf(v, n)
  BY Halving
<1>3. /\ Above(v, 0) = 2 * Above(v, 1) + BitOf(v, 0)
      /\ Above(v, 1) = 2 * Above(v, 2) + BitOf(v, 1)
      /\ Above(v, 2) = 2 * Above(v, 3) + BitOf(v, 2)
      /\ Above(v, 3) = 2 * Above(v, 4) + BitOf(v, 3)
      /\ Above(v, 4) = 2 * Above(v, 5) + BitOf(v, 4)
      /\ Above(v, 5) = 2 * Above(v, 6) + BitOf(v, 5)
      /\ Above(v, 6) = 2 * Above(v, 7) + BitOf(v, 6)
      /\ Above(v, 7) = 2 * Above(v, 8) + BitOf(v, 7)
      /\ Above(v, 8) = 2 * Above(v, 9) + BitOf(v, 8)
  <2>1. /\ 0 + 1 = 1 /\ 1 + 1 = 2 /\ 2 + 1 = 3 /\ 3 + 1 = 4 /\ 4 + 1 = 5 /\ 5 + 1 = 6
        /\ 6 + 1 = 7 /\ 7 + 1 = 8 /\ 8 + 1 = 9
    OBVIOUS
  <2>2. QED
    BY <1>2, <2>1
<1>4. /\ Above(v, 16) = 2 * Above(v, 17) + BitOf(v, 16)
      /\ Above(v, 17) = 2 * Above(v, 18) + BitOf(v, 17)
      /\ Above(v, 18) = 2 * Above(v, 19) + BitOf(v, 18)
      /\ Above(v, 19) = 2 * Above(v, 20) + BitOf(v, 19)
      /\ Above(v, 20) = 2 * Above(v, 21) + BitOf(v, 20)
      /\ Above(v, 21) = 2 * Above(v, 22) + BitOf(v, 21)
  <2>1. 16 + 1 = 17 /\ 17 + 1 = 18 /\ 18 + 1 = 19 /\ 19 + 1 = 20 /\ 20 + 1 = 21 /\ 21 + 1 = 22
    OBVIOUS
  <2>2. QED
    BY <1>2, <2>1
<1>5. /\ Above(v, 1) = 256 * Above(v, 9) + Eight(v, 1)
      /\ Above(v, 3) = 256 * Above(v, 11) + Eight(v, 3)
      /\ Above(v, 0) = 256 * Above(v, 8) + Eight(v, 0)
      /\ Above(v, 8) = 256 * Above(v, 16) + Eight(v, 8)
  <2>1. 1 + 8 = 9 /\ 3 + 8 = 11 /\ 0 + 8 = 8 /\ 8 + 8 = 16
    OBVIOUS
  <2>2. QED
    BY <2>1, EightIs
<1>6. /\ BitOf(v, 0) \in Nat /\ BitOf(v, 1) \in Nat /\ BitOf(v, 2) \in Nat /\ BitOf(v, 3) \in Nat
      /\ BitOf(v, 4) \in Nat /\ BitOf(v, 5) \in Nat /\ BitOf(v, 6) \in Nat /\ BitOf(v, 7) \in Nat
      /\ BitOf(v, 8) \in Nat /\ BitOf(v, 16) \in Nat /\ BitOf(v, 17) \in Nat
      /\ BitOf(v, 18) \in Nat /\ BitOf(v, 19) \in Nat /\ BitOf(v, 20) \in Nat
      /\ BitOf(v, 21) \in Nat
  BY <1>1
<1>7. /\ Above(v, 1) \in Nat /\ Above(v, 2) \in Nat /\ Above(v, 3) \in Nat /\ Above(v, 4) \in Nat
      /\ Above(v, 5) \in Nat /\ Above(v, 6) \in Nat /\ Above(v, 7) \in Nat /\ Above(v, 8) \in Nat
      /\ Above(v, 9) \in Nat /\ Above(v, 16) \in Nat /\ Above(v, 17) \in Nat
      /\ Above(v, 18) \in Nat /\ Above(v, 19) \in Nat /\ Above(v, 20) \in Nat
      /\ Above(v, 21) \in Nat /\ Above(v, 22) \in Nat
  BY <1>1
<1>8. PICK e0 \in Nat, e8 \in Nat : e0 = Eight(v, 0) /\ e8 = Eight(v, 8)
  BY EightType
<1>9. PICK e1 \in Int, e3 \in Int : e1 = Eight(v, 1) /\ e3 = Eight(v, 3)
  <2>1. \A n \in {1, 3} :
          /\ BitOf(v, n) \in Nat /\ BitOf(v, n + 1) \in Nat /\ BitOf(v, n + 2) \in Nat
          /\ BitOf(v, n + 3) \in Nat /\ BitOf(v, n + 4) \in Nat /\ BitOf(v, n + 5) \in Nat
          /\ BitOf(v, n + 6) \in Nat /\ BitOf(v, n + 7) \in Nat
    BY <1>1
  <2>2. Eight(v, 1) \in Int /\ Eight(v, 3) \in Int
    BY <2>1 DEF Eight
  <2>3. QED
    BY <2>2
<1>10. v < 32 =>
         v = 16 * BitOf(v, 4) + 8 * BitOf(v, 3) + 4 * BitOf(v, 2) + 2 * BitOf(v, 1) + BitOf(v, 0)
  <2>1. Above(v, 0) = v /\ (v < 32 => Above(v, 5) = 0)
    BY Nought
  <2>2. Above(v, 2) = 8 * Above(v, 5) + 4 * BitOf(v, 4) + 2 * BitOf(v, 3) + BitOf(v, 2)
    BY <1>3, <1>6, <1>7
  <2>3. Above(v, 0) = 4 * Above(v, 2) + 2 * BitOf(v, 1) + BitOf(v, 0)
    BY <1>3, <1>6, <1>7
  <2>4. QED
    BY <1>6, <1>7, <2>1, <2>2, <2>3
<1>11. v < 512 =>
         /\ v = 2 * Eight(v, 1) + BitOf(v, 0)
         /\ v = 256 * BitOf(v, 8) + 128 * BitOf(v, 7) + 64 * BitOf(v, 6) + 32 * BitOf(v, 5)
                  + 16 * BitOf(v, 4) + 8 * BitOf(v, 3) + 4 * BitOf(v, 2) + 2 * BitOf(v, 1)
                  + BitOf(v, 0)
  <2>1. Above(v, 0) = v /\ (v < 512 => Above(v, 9) = 0)
    BY Nought, SMT
  <2>2. v < 512 => v = 2 * Eight(v, 1) + BitOf(v, 0)
    BY <1>3, <1>5, <1>6, <1>7, <1>9, <2>1, SMT
  <2>3. Eight(v, 1) = 128 * BitOf(v, 8) + 64 * BitOf(v, 7) + 32 * BitOf(v, 6) + 16 * BitOf(v, 5)
          + 8 * BitOf(v, 4) + 4 * BitOf(v, 3) + 2 * BitOf(v, 2) + BitOf(v, 1)
    <3>1. /\ 1 + 1 = 2 /\ 1 + 2 = 3 /\ 1 + 3 = 4 /\ 1 + 4 = 5 /\ 1 + 5 = 6 /\ 1 + 6 = 7
          /\ 1 + 7 = 8
      OBVIOUS
    <3>2. QED
      BY <3>1 DEF Eight
  <2>4. QED
    BY <1>6, <1>9, <2>2, <2>3
<1>12. v < 2048 => v = 8 * Eight(v, 3) + 4 * BitOf(v, 2) + 2 * BitOf(v, 1) + BitOf(v, 0)
  <2>1. Above(v, 0) = v /\ (v < 2048 => Above(v, 11) = 0)
    BY Nought
  <2>2. QED
    BY <1>3, <1>5, <1>6, <1>7, <1>9, <2>1, SMT
<1>13. v < 4194304 =>
         v = 65536 * (32 * BitOf(v, 21) + 16 * BitOf(v, 20) + 8 * BitOf(v, 19)
                        + 4 * BitOf(v, 18) + 2 * BitOf(v, 17) + BitOf(v, 16))
               + 256 * Eight(v, 8) + Eight(v, 0)
  <2>1. Above(v, 0) = v /\ (v < 4194304 => Above(v, 22) = 0)
    BY Nought
  <2>2. QED
    BY <1>4, <1>5, <1>6, <1>7, <1>8, <2>1, SMT
<1>14. QED
  BY <1>10, <1>11, <1>12, <1>13, SMT

\* Two fields of nine bits, one after the other, from byte i on.
LEMMA NineField ==
  ASSUME NEW s, Sendable(s), s.size = Size[s.format], NEW i \in Nat, i + 2 < s.size,
         NEW k \in Fields(s.format), Layout[s.format][k] = <<8 * i, 9>>,
         NEW l \in Fields(s.format), Layout[s.format][l] = <<8 * i + 9, 9>>
  PROVE  First9(Frame(s), i) = s.raw[k] /\ Second9(Frame(s), i) = s.raw[l]
<1>1. PICK v \in Nat : v = s.raw[k] /\ v < 512
  BY PowerIs, SMT DEF Sendable
<1>2. PICK w \in Nat : w = s.raw[l] /\ w < 512
  BY PowerIs, SMT DEF Sendable
<1>3. /\ Starts(s.format, k) = 8 * i /\ End(s.format, k) = 8 * i + 8 + 1
      /\ Starts(s.format, l) = 8 * i + 9 /\ End(s.format, l) = 8 * i + 18
  BY DEF Starts, End
<1>4. Byte(Frame(s), i) = Eight(v, 1)
  BY <1>1, <1>3, WholeByte
<1>5. PICK q \in Nat : q = 8 * (i + 1)
  OBVIOUS
<1>6. Bit(s, q) = BitOf(v, 0)
  <2>1. Starts(s.format, k) <= q /\ q < End(s.format, k) /\ End(s.format, k) - 1 - q = 0
    BY <1>3, <1>5
  <2>2. QED
    BY <1>1, <2>1, BitIs
<1>7. \A m \in 1..9 : Bit(s, q + m) = BitOf(w, 9 - m)
  <2>1. TAKE m \in 1..9
  <2>2. PICK p \in Nat : p = q + m
    BY <1>5
  <2>3. Starts(s.format, l) <= p /\ p < End(s.format, l) /\ End(s.format, l) - 1 - p = 9 - m
    BY <1>3, <1>5, <2>2
  <2>4. QED
    BY <1>2, <2>2, <2>3, BitIs
<1>8. /\ Bit(s, q + 1) = BitOf(w, 8) /\ Bit(s, q + 2) = BitOf(w, 7) /\ Bit(s, q + 3) = BitOf(w, 6)
      /\ Bit(s, q + 4) = BitOf(w, 5) /\ Bit(s, q + 5) = BitOf(w, 4) /\ Bit(s, q + 6) = BitOf(w, 3)
      /\ Bit(s, q + 7) = BitOf(w, 2) /\ Bit(s, q + 8) = BitOf(w, 1) /\ Bit(s, q + 9) = BitOf(w, 0)
  <2>1. /\ 9 - 1 = 8 /\ 9 - 2 = 7 /\ 9 - 3 = 6 /\ 9 - 4 = 5 /\ 9 - 5 = 4 /\ 9 - 6 = 3
        /\ 9 - 7 = 2 /\ 9 - 8 = 1 /\ 9 - 9 = 0
    OBVIOUS
  <2>2. QED
    BY <1>7, <2>1
<1>0. \A n \in Nat : n <= 24 =>
        BitOf(v, n) \in Nat /\ BitOf(v, n) <= 1 /\ BitOf(w, n) \in Nat /\ BitOf(w, n) <= 1
  BY BitSmall
<1>9. PICK b0 \in Nat, c1 \in Nat, c0 \in Nat :
        /\ b0 = BitOf(v, 0) /\ c1 = BitOf(w, 1) /\ c0 = BitOf(w, 0)
        /\ b0 <= 1 /\ c1 <= 1 /\ c0 <= 1
  <2>1. /\ BitOf(v, 0) \in Nat /\ BitOf(v, 0) <= 1
        /\ BitOf(w, 1) \in Nat /\ BitOf(w, 1) <= 1
        /\ BitOf(w, 0) \in Nat /\ BitOf(w, 0) <= 1
    BY <1>0
  <2>2. QED
    BY <2>1
<1>10. PICK c8 \in Nat, c7 \in Nat, c6 \in Nat, c5 \in Nat :
         /\ c8 = BitOf(w, 8) /\ c7 = BitOf(w, 7) /\ c6 = BitOf(w, 6) /\ c5 = BitOf(w, 5)
         /\ c8 <= 1 /\ c7 <= 1 /\ c6 <= 1 /\ c5 <= 1
  <2>1. /\ BitOf(w, 8) \in Nat /\ BitOf(w, 8) <= 1
        /\ BitOf(w, 7) \in Nat /\ BitOf(w, 7) <= 1
        /\ BitOf(w, 6) \in Nat /\ BitOf(w, 6) <= 1
        /\ BitOf(w, 5) \in Nat /\ BitOf(w, 5) <= 1
    BY <1>0
  <2>2. QED
    BY <2>1
<1>11. PICK c4 \in Nat, c3 \in Nat, c2 \in Nat :
         /\ c4 = BitOf(w, 4) /\ c3 = BitOf(w, 3) /\ c2 = BitOf(w, 2)
         /\ c4 <= 1 /\ c3 <= 1 /\ c2 <= 1
  <2>1. /\ BitOf(w, 4) \in Nat /\ BitOf(w, 4) <= 1
        /\ BitOf(w, 3) \in Nat /\ BitOf(w, 3) <= 1
        /\ BitOf(w, 2) \in Nat /\ BitOf(w, 2) <= 1
    BY <1>0
  <2>2. QED
    BY <2>1
<1>12. PICK r \in Nat : r = 64 * c8 + 32 * c7 + 16 * c6 + 8 * c5 + 4 * c4 + 2 * c3 + c2 /\ r <= 127
  BY <1>10, <1>11
<1>13. Byte(Frame(s), i + 1) = 128 * b0 + r
  <2>1. PICK j \in Nat : j = i + 1 /\ j < s.size /\ 8 * j = q
    <3>1. s.size \in Nat
      BY DEF Sendable, Size, Formats
    <3>2. QED
      BY <1>5, <3>1
  <2>2. Byte(Frame(s), j) = 128 * Bit(s, q) + 64 * Bit(s, q + 1) + 32 * Bit(s, q + 2)
          + 16 * Bit(s, q + 3) + 8 * Bit(s, q + 4) + 4 * Bit(s, q + 5)
          + 2 * Bit(s, q + 6) + Bit(s, q + 7)
    BY <2>1, FrameType, ZenonT(60)
  <2>3. QED
    BY <1>6, <1>8, <1>9, <1>10, <1>11, <1>12, <2>1, <2>2
<1>14. PICK x \in Nat : Byte(Frame(s), i + 2) = 128 * c1 + 64 * c0 + x /\ x <= 63
  <2>1. PICK j \in Nat : j = i + 2 /\ j < s.size /\ 8 * j = q + 8 /\ 8 * j + 1 = q + 9
    <3>1. s.size \in Nat
      BY DEF Sendable, Size, Formats
    <3>2. QED
      BY <1>5, <3>1
  <2>2. Byte(Frame(s), j) = 128 * Bit(s, 8 * j) + 64 * Bit(s, 8 * j + 1) + 32 * Bit(s, 8 * j + 2)
          + 16 * Bit(s, 8 * j + 3) + 8 * Bit(s, 8 * j + 4) + 4 * Bit(s, 8 * j + 5)
          + 2 * Bit(s, 8 * j + 6) + Bit(s, 8 * j + 7)
    BY <2>1, FrameType
  <2>3. PICK x2 \in Nat, x3 \in Nat, x4 \in Nat, x5 \in Nat, x6 \in Nat, x7 \in Nat :
          /\ x2 = Bit(s, 8 * j + 2) /\ x3 = Bit(s, 8 * j + 3) /\ x4 = Bit(s, 8 * j + 4)
          /\ x5 = Bit(s, 8 * j + 5) /\ x6 = Bit(s, 8 * j + 6) /\ x7 = Bit(s, 8 * j + 7)
          /\ x2 <= 1 /\ x3 <= 1 /\ x4 <= 1 /\ x5 <= 1 /\ x6 <= 1 /\ x7 <= 1
    <3>1. \A m \in 2..7 : Bit(s, 8 * j + m) \in Nat /\ Bit(s, 8 * j + m) <= 1
      <4>1. TAKE m \in 2..7
      <4>2. PICK p \in Nat : p = 8 * j + m /\ p < 8 * Size[s.format]
        <5>1. Size[s.format] \in Nat
          BY DEF Sendable, Size, Formats
        <5>2. QED
          BY <2>1, <5>1
      <4>3. Bit(s, p) \in {0, 1}
        BY <4>2, BitIsBit
      <4>4. QED
        BY <4>2, <4>3
    <3>2. /\ Bit(s, 8 * j + 2) \in Nat /\ Bit(s, 8 * j + 2) <= 1
          /\ Bit(s, 8 * j + 3) \in Nat /\ Bit(s, 8 * j + 3) <= 1
          /\ Bit(s, 8 * j + 4) \in Nat /\ Bit(s, 8 * j + 4) <= 1
          /\ Bit(s, 8 * j + 5) \in Nat /\ Bit(s, 8 * j + 5) <= 1
          /\ Bit(s, 8 * j + 6) \in Nat /\ Bit(s, 8 * j + 6) <= 1
          /\ Bit(s, 8 * j + 7) \in Nat /\ Bit(s, 8 * j + 7) <= 1
      BY <3>1
    <3>3. QED
      BY <3>2
  <2>4. PICK x \in Nat :
          x = 32 * x2 + 16 * x3 + 8 * x4 + 4 * x5 + 2 * x6 + x7 /\ x <= 63
    BY <2>3
  <2>5. Bit(s, 8 * j) = c1 /\ Bit(s, 8 * j + 1) = c0
    BY <1>8, <1>9, <2>1
  <2>6. Byte(Frame(s), j) = 128 * c1 + 64 * c0 + x
    BY <2>2, <2>3, <2>4, <2>5
  <2>7. QED
    BY <2>1, <2>4, <2>6
<1>15. (128 * b0 + r) \div 128 = b0 /\ (128 * b0 + r) % 128 = r
  <2>1. \A b \in Nat, t \in Nat : t <= 127 => (128 * b + t) \div 128 = b /\ (128 * b + t) % 128 = t
    BY SMT
  <2>2. b0 \in Nat /\ r \in Nat /\ r <= 127
    BY <1>9, <1>12
  <2>3. QED
    BY <2>1, <2>2
<1>16. (128 * c1 + 64 * c0 + x) \div 64 = 2 * c1 + c0
  BY <1>9, <1>14
<1>17. First9(Frame(s), i) = 2 * Eight(v, 1) + b0
  BY <1>4, <1>13, <1>15 DEF First9
<1>18. Second9(Frame(s), i) = 4 * r + (2 * c1 + c0)
  BY <1>13, <1>14, <1>15, <1>16 DEF Second9
<1>19. v = 2 * Eight(v, 1) + b0
  BY <1>1, <1>9, PartSpelled, SMT
<1>20. w = 256 * c8 + 128 * c7 + 64 * c6 + 32 * c5 + 16 * c4 + 8 * c3 + 4 * c2 + 2 * c1 + c0
  BY <1>2, <1>9, <1>10, <1>11, PartSpelled, SMT
<1>21. 4 * r + (2 * c1 + c0) = w
  BY <1>9, <1>10, <1>11, <1>12, <1>20
<1>22. QED
  BY <1>1, <1>2, <1>17, <1>18, <1>19, <1>21

LEMMA BitNumbers ==
  ASSUME NEW v \in Nat
  PROVE  /\ BitOf(v, 0) \in Nat /\ BitOf(v, 1) \in Nat /\ BitOf(v, 2) \in Nat
         /\ BitOf(v, 3) \in Nat /\ BitOf(v, 4) \in Nat
         /\ BitOf(v, 16) \in Nat /\ BitOf(v, 17) \in Nat /\ BitOf(v, 18) \in Nat
         /\ BitOf(v, 19) \in Nat /\ BitOf(v, 20) \in Nat /\ BitOf(v, 21) \in Nat
<1>1. \A n \in Nat : n <= 24 => BitOf(v, n) \in Nat
  BY BitSmall
<1>2. QED
  BY <1>1

\* The battery voltage and the transmission power, which share a byte.
LEMMA PowerFields ==
  ASSUME NEW s, Sendable(s), s.size = Size[s.format], s.format = "F5"
  PROVE  /\ U16(Frame(s), 13) \div 32 = s.raw["battery_voltage"]
         /\ U16(Frame(s), 13) % 32 = s.raw["tx_power"]
<1>1. /\ "battery_voltage" \in Fields("F5") /\ "tx_power" \in Fields("F5")
      /\ Layout["F5"]["battery_voltage"] = <<104, 11>> /\ Layout["F5"]["tx_power"] = <<115, 5>>
  BY DEF Fields, Layout, With, Common
<1>2. s.size = 24
  BY DEF Size
<1>3. PICK v \in Nat : v = s.raw["battery_voltage"] /\ v < 2048
  BY <1>1, PowerIs, SMT DEF Sendable
<1>4. PICK w \in Nat : w = s.raw["tx_power"] /\ w < 32
  BY <1>1, PowerIs, SMT DEF Sendable
<1>5. /\ Starts("F5", "battery_voltage") = 104 /\ End("F5", "battery_voltage") = 115
      /\ Starts("F5", "tx_power") = 115 /\ End("F5", "tx_power") = 120
  BY <1>1 DEF Starts, End
<1>6. Byte(Frame(s), 13) = Eight(v, 3)
  <2>1. 104 <= 8 * 13 /\ 115 = 8 * 13 + 8 + 3
    OBVIOUS
  <2>2. QED
    BY <1>1, <1>3, <1>5, <2>1, WholeByte
<1>7. /\ Bit(s, 112) = BitOf(v, 2) /\ Bit(s, 113) = BitOf(v, 1) /\ Bit(s, 114) = BitOf(v, 0)
  <2>1. \A q \in Nat : 112 <= q /\ q <= 114 => Bit(s, q) = BitOf(v, 114 - q)
    <3>1. TAKE q \in Nat
    <3>2. HAVE 112 <= q /\ q <= 114
    <3>3. 104 <= q /\ q < 115 /\ 115 - 1 - q = 114 - q
      BY <3>2
    <3>4. QED
      BY <1>1, <1>3, <1>5, <3>3, BitIs
  <2>2. 114 - 112 = 2 /\ 114 - 113 = 1 /\ 114 - 114 = 0
    OBVIOUS
  <2>3. QED
    BY <2>1, <2>2
<1>8. /\ Bit(s, 115) = BitOf(w, 4) /\ Bit(s, 116) = BitOf(w, 3) /\ Bit(s, 117) = BitOf(w, 2)
      /\ Bit(s, 118) = BitOf(w, 1) /\ Bit(s, 119) = BitOf(w, 0)
  <2>1. \A q \in Nat : 115 <= q /\ q <= 119 => Bit(s, q) = BitOf(w, 119 - q)
    <3>1. TAKE q \in Nat
    <3>2. HAVE 115 <= q /\ q <= 119
    <3>3. 115 <= q /\ q < 120 /\ 120 - 1 - q = 119 - q
      BY <3>2
    <3>4. QED
      BY <1>1, <1>4, <1>5, <3>3, BitIs
  <2>2. 119 - 115 = 4 /\ 119 - 116 = 3 /\ 119 - 117 = 2 /\ 119 - 118 = 1 /\ 119 - 119 = 0
    OBVIOUS
  <2>3. QED
    BY <2>1, <2>2
<1>9. PICK a \in Nat, b \in Nat :
        a = Eight(v, 3) /\ b = 4 * BitOf(v, 2) + 2 * BitOf(v, 1) + BitOf(v, 0)
  <2>1. Byte(Frame(s), 13) \in Nat
    BY FrameType, ByteType
  <2>2. BitOf(v, 2) \in Nat /\ BitOf(v, 1) \in Nat /\ BitOf(v, 0) \in Nat
    BY BitNumbers
  <2>3. QED
    BY <1>6, <2>1, <2>2
<1>10. Byte(Frame(s), 14) = 32 * b + w
  <2>1. Byte(Frame(s), 14) = 128 * BitOf(v, 2) + 64 * BitOf(v, 1) + 32 * BitOf(v, 0)
          + 16 * BitOf(w, 4) + 8 * BitOf(w, 3) + 4 * BitOf(w, 2) + 2 * BitOf(w, 1) + BitOf(w, 0)
    <3>1. /\ 8 * 14 = 112 /\ 112 + 1 = 113 /\ 112 + 2 = 114 /\ 112 + 3 = 115 /\ 112 + 4 = 116
          /\ 112 + 5 = 117 /\ 112 + 6 = 118 /\ 112 + 7 = 119 /\ 14 < 24
      OBVIOUS
    <3>2. Byte(Frame(s), 14) = 128 * Bit(s, 112) + 64 * Bit(s, 113) + 32 * Bit(s, 114)
            + 16 * Bit(s, 115) + 8 * Bit(s, 116) + 4 * Bit(s, 117) + 2 * Bit(s, 118) + Bit(s, 119)
      BY <1>2, <3>1, FrameType
    <3>3. QED
      BY <1>7, <1>8, <3>2
  <2>2. BitOf(v, 2) \in Nat /\ BitOf(v, 1) \in Nat /\ BitOf(v, 0) \in Nat
    BY BitNumbers
  <2>3. /\ BitOf(w, 4) \in Nat /\ BitOf(w, 3) \in Nat /\ BitOf(w, 2) \in Nat
        /\ BitOf(w, 1) \in Nat /\ BitOf(w, 0) \in Nat
    BY BitNumbers
  <2>4. w = 16 * BitOf(w, 4) + 8 * BitOf(w, 3) + 4 * BitOf(w, 2) + 2 * BitOf(w, 1) + BitOf(w, 0)
    BY <1>4, PartSpelled, SMT
  <2>5. QED
    BY <1>9, <2>1, <2>2, <2>3, <2>4
<1>11. v = 8 * a + b
  <2>1. v = 8 * Eight(v, 3) + 4 * BitOf(v, 2) + 2 * BitOf(v, 1) + BitOf(v, 0)
    BY <1>3, PartSpelled, SMT
  <2>2. BitOf(v, 2) \in Nat /\ BitOf(v, 1) \in Nat /\ BitOf(v, 0) \in Nat
    BY BitNumbers
  <2>3. QED
    BY <1>9, <2>1, <2>2
<1>12. U16(Frame(s), 13) = 32 * v + w
  <2>1. 13 + 1 = 14
    OBVIOUS
  <2>2. U16(Frame(s), 13) = 256 * a + (32 * b + w)
    BY <1>6, <1>9, <1>10, <2>1 DEF U16
  <2>3. QED
    BY <1>9, <1>11, <2>2
<1>13. (32 * v + w) \div 32 = v /\ (32 * v + w) % 32 = w
  BY <1>3, <1>4
<1>14. QED
  BY <1>3, <1>4, <1>12, <1>13

\* The luminosity, which shares a byte with the NOx index.
LEMMA LightField ==
  ASSUME NEW s, Sendable(s), s.size = Size[s.format], s.format = "E1"
  PROVE  Luminosity(Frame(s)) = s.raw["luminosity"]
<1>1. "luminosity" \in Fields("E1") /\ Layout["E1"]["luminosity"] = <<154, 22>>
  BY DEF Fields, Layout, With, Common
<1>2. s.size = 40
  BY DEF Size
<1>3. PICK v \in Nat : v = s.raw["luminosity"] /\ v < 4194304
  BY <1>1, PowerIs, SMT DEF Sendable
<1>4. Starts("E1", "luminosity") = 154 /\ End("E1", "luminosity") = 176
  BY <1>1 DEF Starts, End
<1>5. Byte(Frame(s), 20) = Eight(v, 8) /\ Byte(Frame(s), 21) = Eight(v, 0)
  <2>1. 154 <= 8 * 20 /\ 176 = 8 * 20 + 8 + 8 /\ 154 <= 8 * 21 /\ 176 = 8 * 21 + 8 + 0
    OBVIOUS
  <2>2. QED
    BY <1>1, <1>3, <1>4, <2>1, WholeByte
<1>6. /\ Bit(s, 154) = BitOf(v, 21) /\ Bit(s, 155) = BitOf(v, 20) /\ Bit(s, 156) = BitOf(v, 19)
      /\ Bit(s, 157) = BitOf(v, 18) /\ Bit(s, 158) = BitOf(v, 17) /\ Bit(s, 159) = BitOf(v, 16)
  <2>1. \A q \in Nat : 154 <= q /\ q <= 159 => Bit(s, q) = BitOf(v, 175 - q)
    <3>1. TAKE q \in Nat
    <3>2. HAVE 154 <= q /\ q <= 159
    <3>3. 154 <= q /\ q < 176 /\ 176 - 1 - q = 175 - q
      BY <3>2
    <3>4. QED
      BY <1>1, <1>3, <1>4, <3>3, BitIs
  <2>2. /\ 175 - 154 = 21 /\ 175 - 155 = 20 /\ 175 - 156 = 19 /\ 175 - 157 = 18
        /\ 175 - 158 = 17 /\ 175 - 159 = 16
    OBVIOUS
  <2>3. QED
    BY <2>1, <2>2
<1>7. PICK h \in Nat : h = 2 * Bit(s, 152) + Bit(s, 153)
  <2>1. Bit(s, 152) \in {0, 1} /\ Bit(s, 153) \in {0, 1}
    BY BitIsBit DEF Size
  <2>2. Bit(s, 152) \in Nat /\ Bit(s, 153) \in Nat
    BY <2>1
  <2>3. QED
    BY <2>2
<1>8. PICK l \in Nat : l = 32 * BitOf(v, 21) + 16 * BitOf(v, 20) + 8 * BitOf(v, 19)
                             + 4 * BitOf(v, 18) + 2 * BitOf(v, 17) + BitOf(v, 16)
  <2>1. /\ BitOf(v, 21) \in Nat /\ BitOf(v, 20) \in Nat /\ BitOf(v, 19) \in Nat
        /\ BitOf(v, 18) \in Nat /\ BitOf(v, 17) \in Nat /\ BitOf(v, 16) \in Nat
    BY BitNumbers
  <2>2. QED
    BY <2>1
<1>9. PICK a \in Nat, b \in Nat : a = Eight(v, 8) /\ b = Eight(v, 0)
  BY EightType
<1>10. v = 65536 * l + 256 * a + b
  BY <1>3, <1>8, <1>9, PartSpelled, SMT
<1>11. Byte(Frame(s), 19) = 64 * h + l
  <2>1. /\ 8 * 19 = 152 /\ 152 + 1 = 153 /\ 152 + 2 = 154 /\ 152 + 3 = 155 /\ 152 + 4 = 156
        /\ 152 + 5 = 157 /\ 152 + 6 = 158 /\ 152 + 7 = 159 /\ 19 < 40
    OBVIOUS
  <2>2. Byte(Frame(s), 19) = 128 * Bit(s, 152) + 64 * Bit(s, 153) + 32 * Bit(s, 154)
          + 16 * Bit(s, 155) + 8 * Bit(s, 156) + 4 * Bit(s, 157) + 2 * Bit(s, 158) + Bit(s, 159)
    BY <1>2, <2>1, FrameType
  <2>3. /\ BitOf(v, 21) \in Nat /\ BitOf(v, 20) \in Nat /\ BitOf(v, 19) \in Nat
        /\ BitOf(v, 18) \in Nat /\ BitOf(v, 17) \in Nat /\ BitOf(v, 16) \in Nat
    BY BitNumbers
  <2>4. Bit(s, 152) \in {0, 1} /\ Bit(s, 153) \in {0, 1}
    BY BitIsBit DEF Size
  <2>5. Bit(s, 152) \in Nat /\ Bit(s, 153) \in Nat
    BY <2>4
  <2>6. QED
    BY <1>6, <1>7, <1>8, <2>2, <2>3, <2>5
<1>12. U24(Frame(s), 19) = 4194304 * h + v
  <2>1. 19 + 1 = 20 /\ 20 + 1 = 21
    OBVIOUS
  <2>2. U24(Frame(s), 19) = 65536 * (64 * h + l) + (256 * a + b)
    BY <1>5, <1>9, <1>11, <2>1, SMT DEF U24, U16
  <2>3. QED
    BY <1>10, <2>2, SMT
<1>13. (4194304 * h + v) % 4194304 = v
  BY <1>3, SMT
<1>14. QED
  BY <1>3, <1>12, <1>13, SMT DEF Luminosity

\* The first byte of a frame is its format.
LEMMA FirstByte ==
  ASSUME NEW s, Sendable(s), 0 < s.size
  PROVE  Frame(s) # <<>> /\ Frame(s)[1] = s.raw["id"]
<1>1. "id" \in Fields(s.format) /\ Layout[s.format]["id"] = <<0, 8>>
  BY CommonLayout DEF Sendable
<1>2. PICK v \in Nat : v = s.raw["id"] /\ v < 256
  BY <1>1, PowerIs, SMT DEF Sendable
<1>3. Starts(s.format, "id") = 0 /\ End(s.format, "id") = 8
  BY <1>1 DEF Starts, End
<1>4. Byte(Frame(s), 0) = Eight(v, 0)
  <2>1. 0 <= 8 * 0 /\ 8 = 8 * 0 + 8 + 0
    OBVIOUS
  <2>2. QED
    BY <1>1, <1>2, <1>3, <2>1, ByteWithin
<1>5. Frame(s) \in Seq(Octets) /\ Len(Frame(s)) = s.size
  BY FrameType
<1>6. Byte(Frame(s), 0) = Frame(s)[1]
  <2>1. 0 + 1 = 1
    OBVIOUS
  <2>2. QED
    BY <1>5, <2>1 DEF Byte
<1>7. Frame(s) # <<>>
  BY <1>5
<1>8. QED
  BY <1>2, <1>4, <1>6, <1>7, Spelled

\* The sender packs its fields bit by bit, the highest first; what the receiver shifts and
\* masks out of the bytes is what was packed, for every field of every format, whatever the
\* other fields and the bits of no field are.
THEOREM EveryFieldUnpacked ==
  ASSUME NEW s, Sendable(s), s.size = Size[s.format]
  PROVE  /\ IsFrame(Frame(s), s.format) <=> s.raw["id"] = Id[s.format]
         /\ \A k \in Fields(s.format) \ {"id"} : Raw(s.format, Frame(s), k) = s.raw[k]
<1>1. PICK f \in Formats : f = s.format
  BY DEF Sendable
<1>2. PICK d \in Seq(Octets) : d = Frame(s) /\ Len(d) = s.size
  BY FrameType
<1>3. IsFrame(d, f) <=> s.raw["id"] = Id[f]
  <2>1. 0 < s.size /\ s.size >= MinLength[f]
    BY <1>1 DEF Size, MinLength, Formats
  <2>2. QED
    BY <1>1, <1>2, <2>1, FirstByte DEF IsFrame
<1>4. \A k \in {"temperature", "humidity", "pressure"} : Raw(f, d, k) = s.raw[k]
  <2>1. /\ "temperature" \in Fields(f) /\ "humidity" \in Fields(f) /\ "pressure" \in Fields(f)
        /\ Layout[f]["temperature"] = <<8, 16>> /\ Layout[f]["humidity"] = <<24, 16>>
        /\ Layout[f]["pressure"] = <<40, 16>>
    BY CommonLayout
  <2>2. 8 = 8 * 1 /\ 24 = 8 * 3 /\ 40 = 8 * 5
    OBVIOUS
  <2>3. /\ U16(d, 1) = s.raw["temperature"] /\ U16(d, 3) = s.raw["humidity"]
        /\ U16(d, 5) = s.raw["pressure"]
    BY <1>1, <1>2, <2>1, <2>2, WholeField
  <2>4. QED
    BY <2>3, CommonRaw
<1>5. CASE f = "F5"
  <2>1. /\ Layout[f]["acceleration_x"] = <<56, 16>> /\ Layout[f]["acceleration_y"] = <<72, 16>>
        /\ Layout[f]["acceleration_z"] = <<88, 16>> /\ Layout[f]["movement_counter"] = <<120, 8>>
        /\ Layout[f]["sequence"] = <<128, 16>>
    BY <1>5 DEF Layout, With, Common
  <2>2. 56 = 8 * 7 /\ 72 = 8 * 9 /\ 88 = 8 * 11 /\ 120 = 8 * 15 /\ 128 = 8 * 16
    OBVIOUS
  <2>3. /\ "acceleration_x" \in Fields(f) /\ "acceleration_y" \in Fields(f)
        /\ "acceleration_z" \in Fields(f) /\ "movement_counter" \in Fields(f)
        /\ "sequence" \in Fields(f)
    BY <1>5, F5Raw
  <2>4. /\ U16(d, 7) = s.raw["acceleration_x"] /\ U16(d, 9) = s.raw["acceleration_y"]
        /\ U16(d, 11) = s.raw["acceleration_z"] /\ Byte(d, 15) = s.raw["movement_counter"]
        /\ U16(d, 16) = s.raw["sequence"]
    BY <1>1, <1>2, <2>1, <2>2, <2>3, WholeField, SMTT(30)
  <2>5. /\ U16(d, 13) \div 32 = s.raw["battery_voltage"] /\ U16(d, 13) % 32 = s.raw["tx_power"]
    BY <1>1, <1>2, <1>5, PowerFields
  <2>6. QED
    BY <1>1, <1>2, <1>3, <1>4, <1>5, <2>4, <2>5, F5Raw
<1>6. CASE f = "F6"
  <2>1. /\ Layout[f]["pm2_5"] = <<56, 16>> /\ Layout[f]["co2"] = <<72, 16>>
        /\ Layout[f]["voc_index"] = <<88, 9>> /\ Layout[f]["nox_index"] = <<97, 9>>
        /\ Layout[f]["sequence"] = <<112, 8>>
    BY <1>6 DEF Layout, With, Common
  <2>2. 56 = 8 * 7 /\ 72 = 8 * 9 /\ 88 = 8 * 11 /\ 97 = 8 * 11 + 9 /\ 112 = 8 * 14
    OBVIOUS
  <2>3. /\ "pm2_5" \in Fields(f) /\ "co2" \in Fields(f) /\ "voc_index" \in Fields(f)
        /\ "nox_index" \in Fields(f) /\ "sequence" \in Fields(f)
    BY <1>6, F6Raw
  <2>4. U16(d, 7) = s.raw["pm2_5"] /\ U16(d, 9) = s.raw["co2"] /\ Byte(d, 14) = s.raw["sequence"]
    BY <1>1, <1>2, <2>1, <2>2, <2>3, WholeField, SMTT(30)
  <2>5. First9(d, 11) = s.raw["voc_index"] /\ Second9(d, 11) = s.raw["nox_index"]
    <3>1. 11 + 2 < s.size
      BY <1>1, <1>6 DEF Size
    <3>2. QED
      BY <1>1, <1>2, <2>1, <2>2, <2>3, <3>1, NineField
  <2>6. QED
    BY <1>1, <1>2, <1>3, <1>4, <1>6, <2>4, <2>5, F6Raw
<1>7. CASE f = "E1"
  <2>1. U16(d, 7) = s.raw["pm1_0"] /\ U16(d, 9) = s.raw["pm2_5"]
    <3>1. /\ "pm1_0" \in Fields(f) /\ Layout[f]["pm1_0"] = <<56, 16>> /\ 56 = 8 * 7
          /\ "pm2_5" \in Fields(f) /\ Layout[f]["pm2_5"] = <<72, 16>> /\ 72 = 8 * 9
      BY <1>7 DEF Layout, With, Common, Fields
    <3>2. QED
      BY <1>1, <1>2, <3>1, WholeField
  <2>2. U16(d, 11) = s.raw["pm4_0"] /\ U16(d, 13) = s.raw["pm10_0"]
    <3>1. /\ "pm4_0" \in Fields(f) /\ Layout[f]["pm4_0"] = <<88, 16>> /\ 88 = 8 * 11
          /\ "pm10_0" \in Fields(f) /\ Layout[f]["pm10_0"] = <<104, 16>> /\ 104 = 8 * 13
      BY <1>7 DEF Layout, With, Common, Fields
    <3>2. QED
      BY <1>1, <1>2, <3>1, WholeField
  <2>3. U16(d, 15) = s.raw["co2"] /\ U24(d, 25) = s.raw["sequence"]
    <3>1. /\ "co2" \in Fields(f) /\ Layout[f]["co2"] = <<120, 16>> /\ 120 = 8 * 15
          /\ "sequence" \in Fields(f) /\ Layout[f]["sequence"] = <<200, 24>> /\ 200 = 8 * 25
      BY <1>7 DEF Layout, With, Common, Fields
    <3>2. QED
      BY <1>1, <1>2, <3>1, WholeField, SMTT(30)
  <2>4. First9(d, 17) = s.raw["voc_index"] /\ Second9(d, 17) = s.raw["nox_index"]
    <3>1. /\ "voc_index" \in Fields(f) /\ Layout[f]["voc_index"] = <<8 * 17, 9>>
          /\ "nox_index" \in Fields(f) /\ Layout[f]["nox_index"] = <<8 * 17 + 9, 9>>
      BY <1>7 DEF Layout, With, Common, Fields
    <3>2. 17 + 2 < s.size
      BY <1>1, <1>7 DEF Size
    <3>3. QED
      BY <1>1, <1>2, <3>1, <3>2, NineField
  <2>5. Luminosity(d) = s.raw["luminosity"]
    BY <1>1, <1>2, <1>7, LightField
  <2>6. QED
    BY <1>1, <1>2, <1>3, <1>4, <1>7, <2>1, <2>2, <2>3, <2>4, <2>5, E1Raw
<1>8. QED
  BY <1>5, <1>6, <1>7 DEF Formats

-----------------------------------------------------------------------------
(* The structures of an advertisement.                                     *)

\* The first n of some strings of bytes, one after the other, and all of them.
JoinedTo(seqs, n, F) ==
  /\ F \in [0..n -> Seq(Octets)] /\ F[0] = <<>>
  /\ \A m \in 0..(n - 1) : F[m + 1] = F[m] \o seqs[m + 1]

Joined(seqs, F) == JoinedTo(seqs, Len(seqs), F)

\* There are such joined strings, for any number of strings.
LEMMA JoinedExists ==
  ASSUME NEW seqs \in Seq(Seq(Octets))
  PROVE  \E F : Joined(seqs, F)
<1> DEFINE S == {n \in 0..Len(seqs) : \E F : JoinedTo(seqs, n, F)}
<1>1. PICK L \in Nat : L = Len(seqs)
  OBVIOUS
<1>2. 0 \in S
  <2>1. JoinedTo(seqs, 0, [n \in 0..0 |-> <<>>])
    <3>1. [n \in 0..0 |-> <<>>] \in [0..0 -> Seq(Octets)]
      OBVIOUS
    <3>2. QED
      BY <3>1 DEF JoinedTo
  <2>2. QED
    BY <1>1, <2>1
<1>3. ASSUME NEW n \in 0..(L - 1), n \in S PROVE n + 1 \in S
  <2>1. PICK F : JoinedTo(seqs, n, F)
    BY <1>3
  <2>2. PICK G : G = [m \in 0..(n + 1) |-> IF m = n + 1 THEN F[n] \o seqs[n + 1] ELSE F[m]]
    OBVIOUS
  <2>3. n \in Nat /\ n + 1 \in 1..L
    BY <1>1
  <2>4. F[n] \in Seq(Octets) /\ seqs[n + 1] \in Seq(Octets)
    BY <1>1, <2>1, <2>3 DEF JoinedTo
  <2>5. F[n] \o seqs[n + 1] \in Seq(Octets)
    BY <2>4
  <2>6. G \in [0..(n + 1) -> Seq(Octets)]
    <3>1. \A m \in 0..(n + 1) : m # n + 1 => m \in 0..n
      BY <2>3
    <3>2. QED
      BY <2>1, <2>2, <2>5, <3>1 DEF JoinedTo
  <2>7. \A m \in 0..n : G[m] = F[m] /\ (m # n => G[m + 1] = F[m + 1])
    <3>1. TAKE m \in 0..n
    <3>2. m \in 0..(n + 1) /\ m # n + 1 /\ (m # n => m + 1 \in 0..(n + 1) /\ m + 1 # n + 1)
      BY <2>3
    <3>3. QED
      BY <2>2, <3>2
  <2>8. G[n + 1] = G[n] \o seqs[n + 1]
    <3>1. n + 1 \in 0..(n + 1) /\ n \in 0..n
      BY <2>3
    <3>2. QED
      BY <2>2, <2>7, <3>1
  <2>9. \A m \in 0..n : G[m + 1] = G[m] \o seqs[m + 1]
    <3>1. TAKE m \in 0..n
    <3>2. CASE m = n
      BY <2>8, <3>2
    <3>3. CASE m # n
      <4>1. m \in 0..(n - 1)
        BY <2>3, <3>3
      <4>2. QED
        BY <2>1, <2>7, <3>3, <4>1 DEF JoinedTo
    <3>4. QED
      BY <3>2, <3>3
  <2>10. G[0] = <<>> /\ n + 1 - 1 = n
    BY <2>1, <2>3, <2>7 DEF JoinedTo
  <2>11. JoinedTo(seqs, n + 1, G)
    <3>1. \A m \in 0..((n + 1) - 1) : G[m + 1] = G[m] \o seqs[m + 1]
      <4>1. TAKE m \in 0..((n + 1) - 1)
      <4>2. m \in 0..n
        BY <2>3
      <4>3. QED
        BY <2>9, <4>2
    <3>2. QED
      BY <2>6, <2>10, <3>1 DEF JoinedTo
  <2>12. QED
    BY <1>1, <2>3, <2>11
<1>4. \A n \in 0..(L - 1) : n \in S => n + 1 \in S
  BY <1>3
<1> HIDE DEF S
<1>5. L \in S
  <2>1. \A n \in 0..L : n \in S
    BY <1>1, <1>2, <1>4, Induction
  <2>2. QED
    BY <2>1
<1>6. QED
  BY <1>1, <1>5 DEF S, Joined

\* FlattenSeq joins them.
LEMMA Flattened ==
  ASSUME NEW seqs \in Seq(Seq(Octets)), NEW F, Joined(seqs, F)
  PROVE  FlattenSeq(seqs) = F[Len(seqs)]
<1>1. PICK L \in Nat : L = Len(seqs)
  OBVIOUS
<1>2. CASE L = 0
  <2>1. seqs = <<>>
    BY <1>1, <1>2, EmptySeq
  <2>2. QED
    BY <1>1, <1>2, <2>1 DEF FlattenSeq, Joined, JoinedTo
<1>3. CASE L # 0
  <2> DEFINE Flat(f, i) == IF i = 1 THEN seqs[i] ELSE f[i - 1] \o seqs[i]
  <2>1. \A i \in 1..L : F[i] = F[i - 1] \o seqs[i]
    <3>1. TAKE i \in 1..L
    <3>2. i - 1 \in 0..(L - 1) /\ (i - 1) + 1 = i
      OBVIOUS
    <3>3. QED
      BY <1>1, <3>2 DEF Joined, JoinedTo
  <2>2. PICK h : h = [i \in 1..L |-> F[i]]
    OBVIOUS
  <2>3. \A i \in 1..L : F[i] = Flat(h, i)
    <3>1. TAKE i \in 1..L
    <3>2. CASE i = 1
      <4>1. F[i] = F[0] \o seqs[i] /\ F[0] = <<>> /\ seqs[i] \in Seq(Octets)
        <5>1. i - 1 = 0
          BY <3>2
        <5>2. F[i] = F[i - 1] \o seqs[i]
          BY <2>1
        <5>3. F[0] = <<>> /\ seqs[i] \in Seq(Octets)
          BY <1>1 DEF Joined, JoinedTo
        <5>4. QED
          BY <5>1, <5>2, <5>3
      <4>2. F[i] = seqs[i]
        BY <4>1
      <4>3. QED
        BY <3>2, <4>2
    <3>3. CASE i # 1
      <4>1. i - 1 \in 1..L
        BY <3>3
      <4>2. QED
        BY <2>1, <2>2, <3>3, <4>1
    <3>4. QED
      BY <3>2, <3>3
  <2>4. h = [i \in 1..L |-> Flat(h, i)]
    BY <2>2, <2>3
  <2>5. PICK f : f = [i \in 1..L |-> Flat(f, i)] /\ FlattenSeq(seqs) = f[L]
    <3>1. PICK f : f = CHOOSE g : g = [i \in 1..L |-> Flat(g, i)]
      OBVIOUS
    <3>2. f = [i \in 1..L |-> Flat(f, i)]
      BY <2>4, <3>1
    <3>3. FlattenSeq(seqs) = f[L]
      BY <1>1, <1>3, <3>1 DEF FlattenSeq
    <3>4. QED
      BY <3>2, <3>3
  <2>6. PICK S : S = {n \in 0..L : n = 0 \/ f[n] = F[n]}
    OBVIOUS
  <2>7. ASSUME NEW n \in 0..(L - 1), n \in S PROVE n + 1 \in S
    <3>1. n + 1 \in 1..L /\ n + 1 - 1 = n /\ n + 1 \in 0..L
      OBVIOUS
    <3>2. f[n + 1] = Flat(f, n + 1) /\ F[n + 1] = Flat(h, n + 1)
      BY <2>3, <2>5, <3>1
    <3>3. n # 0 => f[n] = F[n] /\ h[n] = F[n]
      <4>1. n # 0 => n \in 1..L
        OBVIOUS
      <4>2. QED
        BY <2>2, <2>6, <2>7, <4>1
    <3>4. f[n + 1] = F[n + 1]
      BY <3>1, <3>2, <3>3
    <3>5. QED
      BY <2>6, <3>1, <3>4
  <2>8. L \in S
    <3>1. \A n \in 0..(L - 1) : n \in S => n + 1 \in S
      BY <2>7
    <3>2. 0 \in S
      BY <2>6
    <3>3. \A n \in 0..L : n \in S
      BY <3>1, <3>2, Induction
    <3>4. QED
      BY <3>3
  <2>9. QED
    BY <1>1, <1>3, <2>5, <2>6, <2>8
<1>4. QED
  BY <1>2, <1>3

\* The bytes u are in ad, after p others.
At(ad, p, u) == p + Len(u) <= Len(ad) /\ \A j \in 1..Len(u) : ad[p + j] = u[j]

\* What is behind a string is found after it, and what is in it stays where it is.
LEMMA AtConcat ==
  ASSUME NEW a \in Seq(Octets), NEW b \in Seq(Octets)
  PROVE  /\ a \o b \in Seq(Octets) /\ Len(a \o b) = Len(a) + Len(b)
         /\ At(a \o b, Len(a), b)
         /\ \A u \in Seq(Octets), p \in Nat : At(a, p, u) => At(a \o b, p, u)
<1>1. PICK c : c = a \o b
  OBVIOUS
<1>2. PICK l \in Nat, m \in Nat : l = Len(a) /\ m = Len(b)
  OBVIOUS
<1>3. /\ c \in Seq(Octets) /\ Len(c) = l + m
      /\ \A i \in 1..(l + m) : c[i] = IF i <= l THEN a[i] ELSE b[i - l]
  BY <1>1, <1>2, ConcatProperties
<1>4. At(c, l, b)
  <2>1. \A j \in 1..m : l + j \in 1..(l + m) /\ ~(l + j <= l) /\ (l + j) - l = j
    OBVIOUS
  <2>2. QED
    BY <1>2, <1>3, <2>1, SMTT(30) DEF At
<1>5. ASSUME NEW u \in Seq(Octets), NEW p \in Nat, At(a, p, u) PROVE At(c, p, u)
  <2>1. PICK k \in Nat : k = Len(u)
    OBVIOUS
  <2>2. p + k <= l /\ \A j \in 1..k : a[p + j] = u[j]
    BY <1>2, <1>5, <2>1 DEF At
  <2>3. \A j \in 1..k : p + j \in 1..(l + m) /\ p + j <= l
    BY <2>2
  <2>4. QED
    BY <1>3, <2>1, <2>2, <2>3, SMTT(30) DEF At
<1>6. QED
  BY <1>1, <1>2, <1>3, <1>4, <1>5

\* Each of the joined strings is found after those before it.
LEMMA JoinedPlaces ==
  ASSUME NEW seqs \in Seq(Seq(Octets)), NEW F, Joined(seqs, F), NEW n, n = Len(seqs)
  PROVE  /\ \A m \in 0..n : F[m] \in Seq(Octets)
         /\ \A m \in 0..(n - 1) : /\ Len(F[m + 1]) = Len(F[m]) + Len(seqs[m + 1])
                                  /\ At(F[n], Len(F[m]), seqs[m + 1])
<1>1. n \in Nat
  OBVIOUS
<1>2. \A m \in 0..n : F[m] \in Seq(Octets) /\ Len(F[m]) \in Nat
  BY DEF Joined, JoinedTo
<1>3. ASSUME NEW m \in 0..(n - 1)
      PROVE  /\ F[m + 1] = F[m] \o seqs[m + 1] /\ seqs[m + 1] \in Seq(Octets)
             /\ F[m] \in Seq(Octets) /\ F[m + 1] \in Seq(Octets)
  <2>1. m + 1 \in 1..n /\ m \in 0..n /\ m + 1 \in 0..n
    BY <1>1
  <2>2. F[m + 1] = F[m] \o seqs[m + 1]
    BY DEF Joined, JoinedTo
  <2>3. seqs[m + 1] \in Seq(Octets)
    BY <2>1, ElementOfSeq
  <2>4. QED
    BY <1>2, <2>1, <2>2, <2>3
<1>4. ASSUME NEW m \in 0..(n - 1)
      PROVE  Len(F[m + 1]) = Len(F[m]) + Len(seqs[m + 1]) /\ At(F[n], Len(F[m]), seqs[m + 1])
  <2>0. F[m + 1] = F[m] \o seqs[m + 1] /\ seqs[m + 1] \in Seq(Octets) /\ F[m] \in Seq(Octets)
    BY <1>3
  <2>1. PICK u \in Seq(Octets), p \in Nat : u = seqs[m + 1] /\ p = Len(F[m])
    <3>1. Len(F[m]) \in Nat
      BY <2>0
    <3>2. QED
      BY <2>0, <3>1
  <2>2. Len(F[m + 1]) = p + Len(u) /\ At(F[m + 1], p, u)
    BY <2>0, <2>1, AtConcat
  <2>3. PICK S : S = {k \in 0..n : k < m + 1 \/ At(F[k], p, u)}
    OBVIOUS
  <2>4. 0 \in S
    BY <1>1, <2>3
  <2>5. ASSUME NEW k \in 0..(n - 1), k \in S PROVE k + 1 \in S
    <3>1. k + 1 \in 0..n
      BY <1>1
    <3>2. CASE k + 1 < m + 1
      BY <2>3, <3>1, <3>2
    <3>3. CASE k + 1 = m + 1
      BY <2>2, <2>3, <3>1, <3>3
    <3>4. CASE k + 1 > m + 1
      <4>1. At(F[k], p, u)
        BY <2>3, <2>5, <3>4
      <4>2. F[k + 1] = F[k] \o seqs[k + 1] /\ seqs[k + 1] \in Seq(Octets) /\ F[k] \in Seq(Octets)
        BY <1>3
      <4>3. At(F[k + 1], p, u)
        BY <4>1, <4>2, AtConcat
      <4>4. QED
        BY <2>3, <3>1, <4>3
    <3>5. QED
      BY <3>2, <3>3, <3>4
  <2>6. n \in S
    <3>1. \A k \in 0..(n - 1) : k \in S => k + 1 \in S
      BY <2>5
    <3>2. \A k \in 0..n : k \in S
      BY <1>1, <2>4, <3>1, Induction
    <3>3. QED
      BY <1>1, <3>2
  <2>7. At(F[n], p, u)
    BY <1>1, <2>3, <2>6
  <2>8. QED
    BY <2>1, <2>2, <2>7
<1>5. QED
  BY <1>2, <1>4

LEMMA ByteOctet ==
  ASSUME NEW n \in Nat, n <= 255
  PROVE  n \in Octets
BY DEF Octets

\* The structures are bytes, at most six.
LEMMA Structures ==
  /\ DOMAIN Structure = {"flags", "other", "short", "padding", "broken"}
  /\ \A x \in DOMAIN Structure :
       Structure[x] \in Seq(Octets) /\ 1 <= Len(Structure[x]) /\ Len(Structure[x]) <= 6
<1>1. DOMAIN Structure = {"flags", "other", "short", "padding", "broken"}
  BY DEF Structure
<1>2. /\ 0 \in Octets /\ 1 \in Octets /\ 2 \in Octets /\ 4 \in Octets /\ 5 \in Octets
      /\ 6 \in Octets /\ 76 \in Octets /\ 153 \in Octets /\ 255 \in Octets
  BY ByteOctet
<1>4. Structure["flags"] \in Seq(Octets) /\ Len(Structure["flags"]) = 3
  <2>1. Structure["flags"] = <<2, 1, 6>>
    BY DEF Structure
  <2>2. <<2, 1, 6>> \in Seq(Octets) /\ Len(<<2, 1, 6>>) = 3
    BY <1>2
  <2>3. QED
    BY <2>1, <2>2
<1>5. Structure["other"] \in Seq(Octets) /\ Len(Structure["other"]) = 6
  <2>1. Structure["other"] = <<5, 255, 76, 0, 153, 4>>
    BY DEF Structure
  <2>2. <<5, 255, 76, 0, 153, 4>> \in Seq(Octets) /\ Len(<<5, 255, 76, 0, 153, 4>>) = 6
    BY <1>2
  <2>3. QED
    BY <2>1, <2>2
<1>6. Structure["short"] \in Seq(Octets) /\ Len(Structure["short"]) = 3
  <2>1. Structure["short"] = <<2, 255, 153>>
    BY DEF Structure
  <2>2. <<2, 255, 153>> \in Seq(Octets) /\ Len(<<2, 255, 153>>) = 3
    BY <1>2
  <2>3. QED
    BY <2>1, <2>2
<1>7. Structure["padding"] \in Seq(Octets) /\ Len(Structure["padding"]) = 1
  <2>1. Structure["padding"] = <<0>>
    BY DEF Structure
  <2>2. <<0>> \in Seq(Octets) /\ Len(<<0>>) = 1
    BY <1>2
  <2>3. QED
    BY <2>1, <2>2
<1>8. Structure["broken"] \in Seq(Octets) /\ Len(Structure["broken"]) = 4
  <2>1. Structure["broken"] = <<255, 255, 153, 4>>
    BY DEF Structure
  <2>2. <<255, 255, 153, 4>> \in Seq(Octets) /\ Len(<<255, 255, 153, 4>>) = 4
    BY <1>2
  <2>3. QED
    BY <2>1, <2>2
<1>9. ASSUME NEW x \in DOMAIN Structure
      PROVE  Structure[x] \in Seq(Octets) /\ 1 <= Len(Structure[x]) /\ Len(Structure[x]) <= 6
  <2>1. x \in {"flags", "other", "short", "padding", "broken"}
    BY <1>1
  <2>2. Structure[x] \in Seq(Octets)
    BY <1>4, <1>5, <1>6, <1>7, <1>8, <2>1
  <2>3. PICK l : l = Len(Structure[x])
    OBVIOUS
  <2>4. l = 3 \/ l = 6 \/ l = 1 \/ l = 4
    BY <1>4, <1>5, <1>6, <1>7, <1>8, <2>1, <2>3
  <2>5. l \in Nat /\ 1 <= l /\ l <= 6
    BY <2>4
  <2>6. QED
    BY <2>2, <2>3, <2>5
<1>10. QED
  BY <1>1, <1>9

\* The flags and the data of others are passed by; padding, and a structure that is cut
\* off, end the search.
LEMMA PassedBy ==
  ASSUME NEW ad \in Seq(Octets), NEW p \in Nat, NEW x \in {"flags", "other", "short"},
         At(ad, p, Structure[x])
  PROVE  /\ p # Len(ad) /\ Legal(ad, p) /\ ~OfRuuvi(ad, p)
         /\ Skipped(ad, p) = p + Len(Structure[x])
<1>1. Len(ad) \in Nat
  OBVIOUS
<1>2. CASE x = "flags"
  <2>1. Structure[x] = <<2, 1, 6>>
    BY <1>2 DEF Structure
  <2>2. p + 3 <= Len(ad) /\ ad[p + 1] = 2
    BY <2>1 DEF At
  <2>3. QED
    BY <1>1, <2>1, <2>2 DEF Legal, OfRuuvi, Skipped
<1>3. CASE x = "short"
  <2>1. Structure[x] = <<2, 255, 153>>
    BY <1>3 DEF Structure
  <2>2. p + 3 <= Len(ad) /\ ad[p + 1] = 2
    BY <2>1 DEF At
  <2>3. QED
    BY <1>1, <2>1, <2>2 DEF Legal, OfRuuvi, Skipped
<1>4. CASE x = "other"
  <2>1. Structure[x] = <<5, 255, 76, 0, 153, 4>>
    BY <1>4 DEF Structure
  <2>2. p + 6 <= Len(ad) /\ ad[p + 1] = 5 /\ ad[p + 3] = 76
    BY <2>1 DEF At
  <2>3. SubSeq(ad, p + 2, p + 4)[2] = ad[p + 3]
    <3>1. p + 2 \in 1..Len(ad) /\ p + 4 \in 1..Len(ad) /\ 2 \in 1..((p + 4) - (p + 2) + 1)
          /\ (p + 2) + 2 - 1 = p + 3
      BY <1>1, <2>2
    <3>2. QED
      BY <3>1
  <2>4. SubSeq(ad, p + 2, p + 4) # <<255, 153, 4>>
    <3>1. PICK t : t = SubSeq(ad, p + 2, p + 4)
      OBVIOUS
    <3>2. t[2] = 76
      BY <2>2, <2>3, <3>1
    <3>3. t # <<255, 153, 4>>
      BY <3>2
    <3>4. QED
      BY <3>1, <3>3
  <2>5. QED
    BY <1>1, <2>1, <2>2, <2>4 DEF Legal, OfRuuvi, Skipped
<1>5. QED
  BY <1>2, <1>3, <1>4

LEMMA EndsThere ==
  ASSUME NEW ad \in Seq(Octets), Len(ad) <= 255, NEW p \in Nat, NEW x \in {"padding", "broken"},
         At(ad, p, Structure[x])
  PROVE  ~Legal(ad, p)
<1>1. Len(ad) \in Nat
  OBVIOUS
<1>2. CASE x = "padding"
  <2>1. Structure[x] = <<0>>
    BY <1>2 DEF Structure
  <2>2. ad[p + 1] = 0
    BY <2>1 DEF At
  <2>3. QED
    BY <2>2 DEF Legal
<1>3. CASE x = "broken"
  <2>1. Structure[x] = <<255, 255, 153, 4>>
    BY <1>3 DEF Structure
  <2>2. ad[p + 1] = 255
    BY <2>1 DEF At
  <2>3. QED
    BY <1>1, <2>2 DEF Legal
<1>4. QED
  BY <1>2, <1>3

\* The bytes of some structures.
Bytes(t) == FlattenSeq([i \in DOMAIN t |-> Structure[t[i]]])

\* F[m] are those of the first m.
Firsts(t, F) ==
  /\ \A m \in 0..Len(t) : F[m] \in Seq(Octets)
  /\ F[0] = <<>> /\ F[Len(t)] = Bytes(t)
  /\ \A m \in 0..(Len(t) - 1) : /\ Len(F[m + 1]) = Len(F[m]) + Len(Structure[t[m + 1]])
                                /\ At(Bytes(t), Len(F[m]), Structure[t[m + 1]])

\* There are such first structures.
LEMMA FirstsExist ==
  ASSUME NEW t \in Seq(DOMAIN Structure)
  PROVE  Bytes(t) \in Seq(Octets) /\ \E F : Firsts(t, F)
<1>1. PICK n \in Nat : n = Len(t) /\ DOMAIN t = 1..n
  OBVIOUS
<1>2. PICK seqs : seqs = [i \in DOMAIN t |-> Structure[t[i]]]
  OBVIOUS
<1>3. \A i \in 1..n : seqs[i] = Structure[t[i]] /\ Structure[t[i]] \in Seq(Octets)
  <2>1. \A i \in 1..n : t[i] \in DOMAIN Structure
    BY <1>1, ElementOfSeq
  <2>2. QED
    BY <1>1, <1>2, <2>1, Structures
<1>4. seqs \in Seq(Seq(Octets)) /\ Len(seqs) = n
  <2>1. seqs = [i \in 1..n |-> seqs[i]]
    BY <1>1, <1>2
  <2>2. QED
    BY <1>3, <2>1
<1>5. PICK F : Joined(seqs, F)
  BY <1>4, JoinedExists
<1>6. Bytes(t) = F[n]
  BY <1>2, <1>4, <1>5, Flattened DEF Bytes
<1>7. /\ \A m \in 0..n : F[m] \in Seq(Octets)
      /\ \A m \in 0..(n - 1) : /\ Len(F[m + 1]) = Len(F[m]) + Len(seqs[m + 1])
                               /\ At(F[n], Len(F[m]), seqs[m + 1])
  BY <1>4, <1>5, JoinedPlaces
<1>8. \A m \in 0..(n - 1) : seqs[m + 1] = Structure[t[m + 1]]
  <2>1. \A m \in 0..(n - 1) : m + 1 \in 1..n
    OBVIOUS
  <2>2. QED
    BY <1>3, <2>1
<1>9. F[0] = <<>> /\ n \in 0..n
  BY <1>5 DEF Joined, JoinedTo
<1>10. Firsts(t, F)
  BY <1>1, <1>6, <1>7, <1>8, <1>9 DEF Firsts
<1>11. QED
  BY <1>6, <1>7, <1>9, <1>10

\* A search comes as far as there are structures to pass by.
LEMMA WalksBy ==
  ASSUME NEW t \in Seq(DOMAIN Structure), NEW F, Firsts(t, F),
         NEW ad \in Seq(Octets),
         \A u \in Seq(Octets), p \in Nat : At(Bytes(t), p, u) => At(ad, p, u),
         NEW n \in 0..Len(t), \A m \in 1..n : t[m] \in {"flags", "other", "short"}
  PROVE  \E pos : Walk(ad, 0, n, pos) /\ pos[n] = Len(F[n])
<1>1. PICK pos : pos = [m \in 0..n |-> Len(F[m])]
  OBVIOUS
<1>2. n \in Nat /\ Len(t) \in Nat /\ n <= Len(t)
  OBVIOUS
<1>3. ASSUME NEW m \in 0..(n - 1)
      PROVE  /\ pos[m] \in Nat /\ pos[m] # Len(ad) /\ Legal(ad, pos[m]) /\ ~OfRuuvi(ad, pos[m])
             /\ pos[m + 1] = Skipped(ad, pos[m])
  <2>1. /\ m \in 0..n /\ m + 1 \in 0..n /\ m + 1 \in 1..n /\ m \in 0..(Len(t) - 1)
        /\ m \in 0..Len(t) /\ m + 1 \in 1..Len(t)
    BY <1>2
  <2>2. pos[m] = Len(F[m]) /\ pos[m + 1] = Len(F[m + 1]) /\ F[m] \in Seq(Octets)
    BY <1>1, <2>1 DEF Firsts
  <2>3. PICK x \in {"flags", "other", "short"} : x = t[m + 1]
    BY <2>1
  <2>4. pos[m] \in Nat
    BY <2>2
  <2>5. Len(F[m + 1]) = Len(F[m]) + Len(Structure[x]) /\ At(Bytes(t), Len(F[m]), Structure[x])
    BY <2>1, <2>3 DEF Firsts
  <2>6. Structure[x] \in Seq(Octets)
    BY <2>3, Structures
  <2>7. At(ad, pos[m], Structure[x])
    BY <2>2, <2>4, <2>5, <2>6
  <2>8. PICK q \in Nat : q = pos[m]
    BY <2>4
  <2>9. q # Len(ad) /\ Legal(ad, q) /\ ~OfRuuvi(ad, q) /\ Skipped(ad, q) = q + Len(Structure[x])
    BY <2>3, <2>7, <2>8, PassedBy
  <2>10. QED
    BY <2>2, <2>5, <2>8, <2>9
<1>4. \A m \in 0..n : pos[m] \in 0..Len(ad)
  <2>1. TAKE m \in 0..n
  <2>2. CASE m = 0
    <3>1. pos[m] = Len(F[0]) /\ F[0] = <<>>
      BY <1>1, <2>2 DEF Firsts
    <3>2. QED
      BY <3>1
  <2>3. CASE m # 0
    <3>1. PICK k \in 0..(n - 1) : m = k + 1
      <4>1. m - 1 \in 0..(n - 1) /\ m = (m - 1) + 1
        BY <1>2, <2>3
      <4>2. QED
        BY <4>1
    <3>2. pos[k] \in Nat /\ Legal(ad, pos[k]) /\ pos[m] = Skipped(ad, pos[k]) /\ pos[k] # Len(ad)
      BY <1>3, <3>1
    <3>3. Skipped(ad, pos[k]) <= Len(ad)
      BY <3>2 DEF Legal, Skipped
    <3>4. pos[m] \in Nat
      <4>1. m \in 0..Len(t) /\ pos[m] = Len(F[m])
        BY <1>1, <1>2
      <4>2. F[m] \in Seq(Octets)
        BY <4>1 DEF Firsts
      <4>3. QED
        BY <4>1, <4>2
    <3>5. QED
      BY <3>2, <3>3, <3>4
  <2>4. QED
    BY <2>2, <2>3
<1>5. pos[0] = 0 /\ pos[n] = Len(F[n])
  <2>1. 0 \in 0..n /\ n \in 0..n /\ F[0] = <<>>
    BY <1>2 DEF Firsts
  <2>2. QED
    BY <1>1, <2>1
<1>6. Walk(ad, 0, n, pos)
  BY <1>1, <1>2, <1>3, <1>4, <1>5 DEF Walk
<1>7. QED
  BY <1>5, <1>6

\* Nothing before the frame ends the search.
Clear(s) == ToSet(s.before) \cap {"padding", "broken"} = {}

\* Where the structures and the frame are in an advertisement.
LEMMA Advertised ==
  ASSUME NEW s, Sendable(s), s.before \in Seq(DOMAIN Structure), s.after \in Seq(DOMAIN Structure),
         NEW ad, ad = Advertisement(s), NEW p, p = Len(Bytes(s.before))
  PROVE  /\ ad \in Seq(Octets) /\ p \in Nat
         /\ Len(ad) = p + 4 + s.size + Len(Bytes(s.after))
         /\ \A u \in Seq(Octets), q \in Nat : At(Bytes(s.before), q, u) => At(ad, q, u)
         /\ At(ad, p, <<s.size + 3, 255, 153, 4>>)
         /\ At(ad, p + 4, Frame(s))
<1>1. PICK a \in Seq(Octets), b \in Seq(Octets) : a = Bytes(s.before) /\ b = Bytes(s.after)
  BY FirstsExist
<1>2. PICK h : h = <<s.size + 3, 255, 153, 4>>
  OBVIOUS
<1>3. s.size \in Nat /\ s.size <= 40
  BY DEF Sendable, Size, Formats
<1>4. h \in Seq(Octets) /\ Len(h) = 4
  <2>1. s.size + 3 \in Octets /\ 255 \in Octets /\ 153 \in Octets /\ 4 \in Octets
    BY <1>3, ByteOctet
  <2>2. QED
    BY <1>2, <2>1
<1>5. PICK d \in Seq(Octets) : d = Frame(s) /\ Len(d) = s.size
  BY FrameType
<1>6. ad = a \o h \o d \o b
  BY <1>1, <1>2, <1>5 DEF Advertisement, Bytes
<1>7. PICK x : x = a \o h
  OBVIOUS
<1>8. PICK y : y = x \o d
  OBVIOUS
<1>9. /\ x \in Seq(Octets) /\ Len(x) = p + 4 /\ At(x, p, h) /\ p \in Nat
      /\ \A u \in Seq(Octets), q \in Nat : At(a, q, u) => At(x, q, u)
  <2>1. p = Len(a) /\ p \in Nat
    BY <1>1
  <2>2. x \in Seq(Octets) /\ Len(x) = Len(a) + Len(h) /\ At(x, Len(a), h)
    BY <1>4, <1>7, AtConcat
  <2>3. \A u \in Seq(Octets), q \in Nat : At(a, q, u) => At(x, q, u)
    BY <1>4, <1>7, AtConcat
  <2>4. QED
    BY <1>4, <2>1, <2>2, <2>3
<1>10. /\ y \in Seq(Octets) /\ Len(y) = p + 4 + s.size /\ At(y, p + 4, d)
       /\ \A u \in Seq(Octets), q \in Nat : At(x, q, u) => At(y, q, u)
  BY <1>5, <1>8, <1>9, AtConcat, ZenonT(60)
<1>11. /\ ad \in Seq(Octets) /\ Len(ad) = p + 4 + s.size + Len(b)
       /\ \A u \in Seq(Octets), q \in Nat : At(y, q, u) => At(ad, q, u)
  <2>1. ad = y \o b
    BY <1>6, <1>7, <1>8
  <2>2. ad \in Seq(Octets) /\ Len(ad) = Len(y) + Len(b)
    BY <1>10, <2>1, AtConcat
  <2>3. \A u \in Seq(Octets), q \in Nat : At(y, q, u) => At(ad, q, u)
    BY <1>10, <2>1, AtConcat
  <2>4. QED
    BY <1>10, <2>2, <2>3
<1>12. At(ad, p, h) /\ At(ad, p + 4, d)
  BY <1>4, <1>9, <1>10, <1>11
<1>13. \A u \in Seq(Octets), q \in Nat : At(a, q, u) => At(ad, q, u)
  BY <1>9, <1>10, <1>11
<1>14. QED
  BY <1>1, <1>2, <1>5, <1>9, <1>11, <1>12, <1>13

\* A structure of Ruuvi's gives its payload.
LEMMA RuuviThere ==
  ASSUME NEW ad \in Seq(Octets), NEW p \in Nat, NEW z \in Nat, NEW d \in Seq(Octets), Len(d) = z,
         At(ad, p, <<z + 3, 255, 153, 4>>), At(ad, p + 4, d)
  PROVE  p # Len(ad) /\ Legal(ad, p) /\ OfRuuvi(ad, p) /\ Payload(ad, p) = d
<1>1. PICK l \in Nat : l = Len(ad)
  OBVIOUS
<1>2. PICK h : h = <<z + 3, 255, 153, 4>>
  OBVIOUS
<1>3. Len(h) = 4 /\ h[1] = z + 3 /\ h[2] = 255 /\ h[3] = 153 /\ h[4] = 4
  BY <1>2
<1>4. \A j \in 1..4 : ad[p + j] = h[j]
  BY <1>2, <1>3 DEF At
<1>5. ad[p + 1] = z + 3 /\ ad[p + 2] = 255 /\ ad[p + 3] = 153 /\ ad[p + 4] = 4
  BY <1>3, <1>4
<1>6. p + 4 + z <= l /\ \A i \in 1..z : ad[p + 4 + i] = d[i]
  BY <1>1 DEF At
<1>7. p # l /\ Legal(ad, p)
  <2>1. z + 3 # 0 /\ p + 1 + (z + 3) <= l /\ p # l
    BY <1>6
  <2>2. QED
    BY <1>1, <1>5, <2>1 DEF Legal
<1>8. SubSeq(ad, p + 2, p + 4) = <<255, 153, 4>>
  <2>1. PICK u : u = SubSeq(ad, p + 2, p + 4)
    OBVIOUS
  <2>2. p + 2 \in 1..(l + 1) /\ p + 4 \in (p + 1)..l /\ (p + 4) - (p + 2) + 1 = 3
    BY <1>6
  <2>3. /\ u \in Seq(Octets) /\ Len(u) = 3
        /\ \A i \in 1..3 : u[i] = ad[(p + 2) + i - 1]
    <3>1. \A i \in 1..l : ad[i] \in Octets
      BY <1>1, ElementOfSeq
    <3>2. u = [i \in 1..3 |-> ad[i + (p + 2) - 1]]
      BY <1>1, <2>1, <2>2
    <3>3. \A i \in 1..3 : i + (p + 2) - 1 \in 1..l /\ i + (p + 2) - 1 = (p + 2) + i - 1
      BY <1>6
    <3>4. \A i \in 1..3 : u[i] = ad[i + (p + 2) - 1] /\ u[i] \in Octets
      BY <3>1, <3>2, <3>3
    <3>5. u \in Seq(Octets) /\ Len(u) = 3
      BY <3>2, <3>4
    <3>6. QED
      BY <3>3, <3>4, <3>5
  <2>4. u[1] = 255 /\ u[2] = 153 /\ u[3] = 4
    <3>1. (p + 2) + 1 - 1 = p + 2 /\ (p + 2) + 2 - 1 = p + 3 /\ (p + 2) + 3 - 1 = p + 4
      OBVIOUS
    <3>2. QED
      BY <1>5, <2>3, <3>1
  <2>5. u = <<255, 153, 4>>
    BY <2>3, <2>4
  <2>6. QED
    BY <2>1, <2>5
<1>9. OfRuuvi(ad, p)
  <2>1. z + 3 >= 3
    OBVIOUS
  <2>2. QED
    BY <1>5, <1>8, <2>1 DEF OfRuuvi
<1>10. Payload(ad, p) = d
  <2>1. PICK u : u = SubSeq(ad, p + 5, p + 4 + z)
    OBVIOUS
  <2>2. Payload(ad, p) = u
    <3>1. p + 1 + (z + 3) = p + 4 + z
      OBVIOUS
    <3>2. QED
      BY <1>5, <2>1, <3>1 DEF Payload
  <2>3. (p + 4 + z) - (p + 5) + 1 = z
    OBVIOUS
  <2>4. u = [i \in 1..z |-> ad[i + (p + 5) - 1]]
    BY <1>1, <2>1, <2>3
  <2>5. \A i \in 1..z : i + (p + 5) - 1 = p + 4 + i
    OBVIOUS
  <2>6. \A i \in 1..z : u[i] = d[i]
    BY <1>6, <2>4, <2>5
  <2>7. \A i \in 1..z : d[i] \in Octets
    BY ElementOfSeq
  <2>8. u \in Seq(Octets) /\ Len(u) = z
    <3>1. \A i \in 1..z : u[i] \in Octets
      BY <2>6, <2>7
    <3>2. u = [i \in 1..z |-> u[i]]
      BY <2>4
    <3>3. u \in [1..z -> Octets]
      BY <3>1, <3>2
    <3>4. u \in Seq(Octets)
      BY <3>3, SeqDef
    <3>5. DOMAIN u = 1..z /\ Len(u) \in Nat /\ DOMAIN u = 1..Len(u)
      BY <3>3, <3>4, LenProperties
    <3>6. QED
      BY <3>4, <3>5
  <2>9. QED
    BY <2>2, <2>6, <2>8, SeqEqual
<1>11. QED
  BY <1>1, <1>7, <1>9, <1>10

\* The sender's frame is found behind any number of structures, unless padding or a
\* structure that is cut off is among them: then nothing is.  What comes after the frame
\* does not matter.
THEOREM FrameFound ==
  ASSUME NEW s, Sendable(s), s.before \in Seq(DOMAIN Structure), s.after \in Seq(DOMAIN Structure),
         NEW ad, ad = Advertisement(s), Len(ad) <= 255
  PROVE  ManufacturerData(ad) = IF Clear(s) THEN Frame(s) ELSE <<>>
<1>1. PICK t \in Seq(DOMAIN Structure) : t = s.before
  OBVIOUS
<1>2. PICK F : Firsts(t, F)
  BY FirstsExist
<1>3. PICK n \in Nat : n = Len(t) /\ DOMAIN t = 1..n
  OBVIOUS
<1>4. PICK p : p = Len(Bytes(t))
  OBVIOUS
<1>5. /\ ad \in Seq(Octets) /\ p \in Nat
      /\ Len(ad) = p + 4 + s.size + Len(Bytes(s.after))
      /\ \A u \in Seq(Octets), q \in Nat : At(Bytes(t), q, u) => At(ad, q, u)
      /\ At(ad, p, <<s.size + 3, 255, 153, 4>>)
      /\ At(ad, p + 4, Frame(s))
  BY <1>1, <1>4, Advertised
<1>6. \A m \in 1..n : t[m] \in {"flags", "other", "short", "padding", "broken"}
  BY <1>3, ElementOfSeq, Structures
<1>7. Clear(s) <=> \A m \in 1..n : t[m] \in {"flags", "other", "short"}
  <2>1. ToSet(t) = {t[m] : m \in 1..n}
    BY <1>3 DEF ToSet
  <2>2. QED
    BY <1>1, <1>6, <2>1 DEF Clear
<1>8. CASE Clear(s)
  <2>1. PICK pos : Walk(ad, 0, n, pos) /\ pos[n] = Len(F[n])
    <3>1. n \in 0..Len(t)
      BY <1>3
    <3>2. QED
      BY <1>2, <1>5, <1>7, <1>8, <3>1, WalksBy
  <2>2. pos[n] = p
    BY <1>2, <1>3, <1>4, <2>1 DEF Firsts
  <2>3. PICK d \in Seq(Octets) : d = Frame(s) /\ Len(d) = s.size
    BY FrameType
  <2>4. PICK z \in Nat : z = s.size /\ z <= 40
    BY DEF Sendable, Size, Formats
  <2>5. p # Len(ad) /\ Legal(ad, p) /\ OfRuuvi(ad, p) /\ Payload(ad, p) = d
    <3>1. Len(d) = z /\ At(ad, p, <<z + 3, 255, 153, 4>>) /\ At(ad, p + 4, d)
      BY <1>5, <2>3, <2>4
    <3>2. ad \in Seq(Octets) /\ p \in Nat
      BY <1>5
    <3>3. QED
      BY <3>1, <3>2, RuuviThere
  <2>6. Finds(ad, pos[n], d)
    BY <2>2, <2>5 DEF Finds
  <2>7. ManufacturerData(ad) = d
    BY <1>5, <2>1, <2>6, WalkFinds
  <2>8. QED
    BY <1>8, <2>3, <2>7
<1>9. CASE ~Clear(s)
  <2>1. PICK S : S = {m \in Nat : m \in 0..(n - 1) /\ t[m + 1] \in {"padding", "broken"}}
    OBVIOUS
  <2>2. S # {}
    <3>1. PICK m \in 1..n : t[m] \in {"padding", "broken"}
      BY <1>6, <1>7, <1>9
    <3>2. m - 1 \in 0..(n - 1) /\ (m - 1) + 1 = m
      OBVIOUS
    <3>3. m - 1 \in S
      BY <2>1, <3>1, <3>2
    <3>4. QED
      BY <3>3
  <2>3. PICK k \in S : \A m \in S : k <= m
    BY <2>1, <2>2, Least
  <2>4. k \in 0..(n - 1) /\ t[k + 1] \in {"padding", "broken"}
    BY <2>1
  <2>5. \A m \in 1..k : t[m] \in {"flags", "other", "short"}
    <3>1. TAKE m \in 1..k
    <3>2. m - 1 \in 0..(n - 1) /\ (m - 1) + 1 = m /\ m - 1 < k /\ m \in 1..n
      BY <2>4
    <3>3. m - 1 \notin S
      BY <2>3, <2>4, <3>2
    <3>4. QED
      BY <1>6, <2>1, <3>2, <3>3
  <2>6. PICK pos : Walk(ad, 0, k, pos) /\ pos[k] = Len(F[k])
    <3>1. k \in 0..Len(t)
      BY <1>3, <2>4
    <3>2. QED
      BY <1>2, <1>5, <2>5, <3>1, WalksBy
  <2>7. PICK q \in Nat : q = pos[k]
    <3>1. pos[k] \in 0..Len(ad)
      BY <2>4, <2>6 DEF Walk
    <3>2. QED
      BY <3>1
  <2>8. PICK x \in {"padding", "broken"} : x = t[k + 1]
    BY <2>4
  <2>9. At(ad, q, Structure[x])
    <3>1. At(Bytes(t), q, Structure[x])
      BY <1>2, <1>3, <2>4, <2>6, <2>7, <2>8 DEF Firsts
    <3>2. Structure[x] \in Seq(Octets)
      BY <2>8, Structures
    <3>3. QED
      BY <1>5, <3>1, <3>2
  <2>10. ~Legal(ad, q)
    BY <1>5, <2>8, <2>9, EndsThere
  <2>11. Finds(ad, pos[k], <<>>)
    BY <2>7, <2>10 DEF Finds
  <2>12. k \in Nat
    BY <2>4
  <2>13. ManufacturerData(ad) = <<>>
    BY <1>5, <2>6, <2>11, <2>12, WalkFinds
  <2>14. QED
    BY <1>9, <2>13
<1>10. QED
  BY <1>8, <1>9

\* Two structures are at most twelve bytes.
LEMMA ShortEnough ==
  ASSUME NEW s, Sendable(s), s.before \in SeqOf(DOMAIN Structure, 2),
         s.after \in SeqOf(DOMAIN Structure, 2)
  PROVE  /\ s.before \in Seq(DOMAIN Structure) /\ s.after \in Seq(DOMAIN Structure)
         /\ Len(Advertisement(s)) <= 255
<1>1. \A t \in SeqOf(DOMAIN Structure, 2) :
        t \in Seq(DOMAIN Structure) /\ Len(t) \in 0..2
  <2>1. TAKE t \in SeqOf(DOMAIN Structure, 2)
  <2>2. PICK m \in 0..2 : t \in [1..m -> DOMAIN Structure]
    BY DEF SeqOf
  <2>3. m \in Nat
    OBVIOUS
  <2>4. t \in Seq(DOMAIN Structure)
    BY <2>2, <2>3, SeqDef
  <2>5. DOMAIN t = 1..m /\ Len(t) \in Nat /\ DOMAIN t = 1..Len(t)
    BY <2>2, <2>4, LenProperties
  <2>6. Len(t) = m
    BY <2>3, <2>5
  <2>7. QED
    BY <2>4, <2>6
<1>2. ASSUME NEW t \in Seq(DOMAIN Structure), Len(t) \in 0..2 PROVE Len(Bytes(t)) <= 12
  <2>1. PICK F : Firsts(t, F)
    BY FirstsExist
  <2>2. PICK n \in 0..2 : n = Len(t)
    BY <1>2
  <2>3. ASSUME NEW m \in 0..(n - 1)
        PROVE  Len(F[m]) \in Nat /\ Len(F[m + 1]) \in Nat /\ Len(F[m + 1]) <= Len(F[m]) + 6
    <3>1. m \in 0..n /\ m + 1 \in 0..n /\ m + 1 \in 1..n
      BY <2>2
    <3>2. F[m] \in Seq(Octets) /\ F[m + 1] \in Seq(Octets)
      BY <2>1, <2>2, <3>1 DEF Firsts
    <3>3. t[m + 1] \in DOMAIN Structure
      BY <2>2, <3>1, ElementOfSeq
    <3>4. PICK l \in Nat : l = Len(Structure[t[m + 1]]) /\ l <= 6
      BY <3>3, Structures
    <3>5. Len(F[m + 1]) = Len(F[m]) + l
      BY <2>1, <2>2, <3>4 DEF Firsts
    <3>6. PICK a \in Nat, b \in Nat : a = Len(F[m]) /\ b = Len(F[m + 1])
      BY <3>2
    <3>7. b = a + l
      BY <3>4, <3>5, <3>6
    <3>8. b \in Nat /\ b <= a + 6
      BY <3>4, <3>7
    <3>9. QED
      BY <3>6, <3>8
  <2>4. Len(F[0]) = 0 /\ Bytes(t) = F[n]
    BY <2>1, <2>2 DEF Firsts
  <2>5. CASE n = 0
    BY <2>4, <2>5
  <2>6. CASE n = 1
    <3>1. 0 \in 0..(n - 1) /\ 0 + 1 = n
      BY <2>6
    <3>2. Len(F[n]) \in Nat /\ Len(F[n]) <= Len(F[0]) + 6
      BY <2>3, <3>1
    <3>3. QED
      BY <2>4, <3>2
  <2>7. CASE n = 2
    <3>1. 0 \in 0..(n - 1) /\ 0 + 1 = 1 /\ 1 \in 0..(n - 1) /\ 1 + 1 = n
      BY <2>7
    <3>2. Len(F[1]) \in Nat /\ Len(F[1]) <= Len(F[0]) + 6
      BY <2>3, <3>1
    <3>3. Len(F[n]) \in Nat /\ Len(F[n]) <= Len(F[1]) + 6
      BY <2>3, <3>1
    <3>4. QED
      BY <2>4, <3>2, <3>3
  <2>8. QED
    BY <2>2, <2>5, <2>6, <2>7
<1>3. s.before \in Seq(DOMAIN Structure) /\ s.after \in Seq(DOMAIN Structure)
  BY <1>1
<1>4. PICK a \in Nat, b \in Nat :
        a = Len(Bytes(s.before)) /\ b = Len(Bytes(s.after)) /\ a <= 12 /\ b <= 12
  <2>1. Bytes(s.before) \in Seq(Octets) /\ Bytes(s.after) \in Seq(Octets)
    BY <1>3, FirstsExist
  <2>2. QED
    BY <1>1, <1>2, <1>3, <2>1
<1>5. Len(Advertisement(s)) = a + 4 + s.size + b
  BY <1>3, <1>4, Advertised
<1>6. s.size \in Nat /\ s.size <= 40
  BY DEF Sendable, Size, Formats
<1>7. QED
  BY <1>3, <1>4, <1>5, <1>6

-----------------------------------------------------------------------------
(* The specification: what is sent, and what is received.                  *)

LEMMA Widths ==
  ASSUME NEW f \in Formats, NEW k \in Fields(f)
  PROVE  /\ Layout[f][k][2] \in {5, 8, 9, 11, 16, 22, 24}
         /\ k = "id" => Layout[f][k][2] = 8
         /\ k \in {"temperature", "humidity"} => Layout[f][k][2] = 16
<1>1. CASE f = "F5"
  BY <1>1 DEF Layout, Common, With, Fields
<1>2. CASE f = "F6"
  BY <1>2 DEF Layout, Common, With, Fields
<1>3. CASE f = "E1"
  BY <1>3 DEF Layout, Common, With, Fields
<1>4. QED
  BY <1>1, <1>2, <1>3 DEF Formats

\* The numbers a field of w bits is sent with fit it.
Fits(n, w) == n \in Nat /\ n < Power(w)

LEMMA EdgesOfWidth ==
  ASSUME NEW w \in {5, 8, 9, 11, 16, 22, 24}
  PROVE  /\ Fits(0, w) /\ Fits(1, w) /\ Fits(2 ^ (w - 1) - 1, w) /\ Fits(2 ^ (w - 1), w)
         /\ Fits(2 ^ w - 2, w) /\ Fits(2 ^ w - 1, w) /\ Fits(2 ^ (w - 2) + 1, w)
<1>1. CASE w = 5
  <2>1. 2 ^ 5 = 32 /\ 2 ^ 4 = 16 /\ 2 ^ 3 = 8 /\ w - 1 = 4 /\ w - 2 = 3
    BY <1>1, SMT
  <2>2. QED
    BY <1>1, <2>1, SMT DEF Fits, Power
<1>2. CASE w = 8
  <2>1. 2 ^ 8 = 256 /\ 2 ^ 7 = 128 /\ 2 ^ 6 = 64 /\ w - 1 = 7 /\ w - 2 = 6
    BY <1>2, SMT
  <2>2. QED
    BY <1>2, <2>1, SMT DEF Fits, Power
<1>3. CASE w = 9
  <2>1. 2 ^ 9 = 512 /\ 2 ^ 8 = 256 /\ 2 ^ 7 = 128 /\ w - 1 = 8 /\ w - 2 = 7
    BY <1>3, SMT
  <2>2. QED
    BY <1>3, <2>1, SMT DEF Fits, Power
<1>4. CASE w = 11
  <2>1. 2 ^ 11 = 2048 /\ 2 ^ 10 = 1024 /\ 2 ^ 9 = 512 /\ w - 1 = 10 /\ w - 2 = 9
    BY <1>4, SMT
  <2>2. QED
    BY <1>4, <2>1, SMT DEF Fits, Power
<1>5. CASE w = 16
  <2>1. 2 ^ 16 = 65536 /\ 2 ^ 15 = 32768 /\ 2 ^ 14 = 16384 /\ w - 1 = 15 /\ w - 2 = 14
    BY <1>5, SMT
  <2>2. QED
    BY <1>5, <2>1, SMT DEF Fits, Power
<1>6. CASE w = 22
  <2>1. 2 ^ 22 = 4194304 /\ 2 ^ 21 = 2097152 /\ 2 ^ 20 = 1048576 /\ w - 1 = 21 /\ w - 2 = 20
    BY <1>6, SMT
  <2>2. QED
    BY <1>6, <2>1, SMT DEF Fits, Power
<1>7. CASE w = 24
  <2>1. 2 ^ 24 = 16777216 /\ 2 ^ 23 = 8388608 /\ 2 ^ 22 = 4194304 /\ w - 1 = 23 /\ w - 2 = 22
    BY <1>7, SMT
  <2>2. QED
    BY <1>7, <2>1, SMT DEF Fits, Power
<1>8. QED
  BY <1>1, <1>2, <1>3, <1>4, <1>5, <1>6, <1>7

\* What is sent fits its fields.
LEMMA OrdinaryFits ==
  ASSUME NEW f \in Formats
  PROVE  /\ Ordinary(f) \in [Fields(f) -> Nat] /\ Ordinary(f)["id"] = Id[f]
         /\ \A k \in Fields(f) : Fits(Ordinary(f)[k], Layout[f][k][2])
<1>1. "id" \in Fields(f) /\ Ordinary(f)["id"] = Id[f] /\ Id[f] \in Nat /\ Id[f] < 256
  <2>1. "id" \in Fields(f)
    BY CommonLayout
  <2>2. Ordinary(f)["id"] = Id[f]
    BY <2>1 DEF Ordinary, Pollutants
  <2>3. QED
    BY <2>1, <2>2 DEF Formats, Id
<1>2. ASSUME NEW k \in Fields(f) PROVE Fits(Ordinary(f)[k], Layout[f][k][2])
  <2>1. PICK w \in {5, 8, 9, 11, 16, 22, 24} : w = Layout[f][k][2]
    BY Widths
  <2>2. CASE k = "id"
    <3>1. w = 8
      BY <2>1, <2>2, Widths
    <3>2. QED
      BY <1>1, <2>1, <2>2, <3>1, PowerIs, SMT DEF Fits
  <2>3. CASE k = "humidity"
    <3>1. w = 16 /\ Ordinary(f)[k] = 20000
      BY <2>1, <2>3, Widths DEF Ordinary, Pollutants
    <3>2. QED
      BY <2>1, <3>1, PowerIs, SMT DEF Fits
  <2>4. CASE k \in Pollutants
    <3>1. Ordinary(f)[k] = 0
      BY <2>4 DEF Ordinary, Pollutants
    <3>2. QED
      BY <2>1, <3>1, EdgesOfWidth
  <2>5. CASE k \notin {"id", "humidity"} \cup Pollutants
    <3>1. Ordinary(f)[k] = 2 ^ (w - 2) + 1
      BY <2>1, <2>5 DEF Ordinary
    <3>2. QED
      BY <2>1, <3>1, EdgesOfWidth
  <2>6. QED
    BY <2>2, <2>3, <2>4, <2>5
<1>3. \A k \in Fields(f) : Ordinary(f)[k] \in Nat
  BY <1>2 DEF Fits
<1>4. Ordinary(f) = [k \in Fields(f) |-> Ordinary(f)[k]]
  BY DEF Ordinary
<1>5. Ordinary(f) \in [Fields(f) -> Nat]
  BY <1>3, <1>4
<1>6. QED
  BY <1>1, <1>2, <1>5

LEMMA EdgesFit ==
  ASSUME NEW f \in Formats, NEW k \in Fields(f), NEW v \in Edges(f, k)
  PROVE  Fits(v, Layout[f][k][2]) /\ (k = "id" => v \in {Id[f], 4})
<1>1. PICK w \in {5, 8, 9, 11, 16, 22, 24} : w = Layout[f][k][2]
  BY Widths
<1>2. CASE k = "id"
  <2>1. v \in {Id[f], 4}
    BY <1>2 DEF Edges
  <2>2. Id[f] \in Nat /\ Id[f] < 256
    BY DEF Formats, Id
  <2>3. w = 8
    BY <1>1, <1>2, Widths
  <2>4. QED
    BY <1>1, <2>1, <2>2, <2>3, PowerIs, SMT DEF Fits
<1>3. CASE k \in {"humidity", "temperature"}
  <2>1. w = 16
    BY <1>1, <1>3, Widths
  <2>2. v \in {0, 1, 39999, 40000, 40001, 65534, 65535, 17000, 17001, 32767, 32768, 32769,
               57535, 57536}
    BY <1>3 DEF Edges
  <2>3. QED
    BY <1>1, <1>3, <2>1, <2>2, PowerIs, SMT DEF Fits
<1>4. CASE k \notin {"id", "humidity", "temperature"}
  <2>1. v \in {0, 1, 2 ^ (w - 1) - 1, 2 ^ (w - 1), 2 ^ w - 2, 2 ^ w - 1}
    BY <1>1, <1>4 DEF Edges
  <2>2. QED
    BY <1>1, <1>4, <2>1, EdgesOfWidth, ZenonT(30)
<1>5. QED
  BY <1>2, <1>3, <1>4

\* What the sender sends: a frame, and up to two structures before it and after it.
Framed(s) ==
  /\ Sendable(s) /\ s.raw \in [Fields(s.format) -> Nat] /\ s.raw["id"] \in {Id[s.format], 4}
  /\ s.before \in SeqOf(DOMAIN Structure, 2) /\ s.after \in SeqOf(DOMAIN Structure, 2)

\* The inductive invariant: what the receiver has is what Parse returns for what was found
\* in the advertisement of what was sent.
IInv ==
  /\ extended \in BOOLEAN
  /\ \/ sent = Nothing /\ got = Refused("none")
     \/ Framed(sent) /\ got = Parse(ManufacturerData(Advertisement(sent)), extended)

\* The numbers a frame of format f can be sent with.
Loaded(f, raw) ==
  /\ raw \in [Fields(f) -> Nat] /\ raw["id"] \in {Id[f], 4}
  /\ \A k \in Fields(f) : Fits(raw[k], Layout[f][k][2])

\* A frame of such numbers, cut off or not, among up to two structures each side.
LEMMA FramedIf ==
  ASSUME NEW f \in Formats, NEW raw, Loaded(f, raw), NEW fill \in {0, 1}, NEW n \in 0..Size[f],
         NEW before \in SeqOf(DOMAIN Structure, 2), NEW after \in SeqOf(DOMAIN Structure, 2),
         NEW s, s = [format |-> f, raw |-> raw, fill |-> fill, size |-> n, before |-> before,
                     after |-> after]
  PROVE  Framed(s)
<1>1. /\ s.format = f /\ s.raw = raw /\ s.fill = fill /\ s.size = n /\ s.before = before
      /\ s.after = after
  OBVIOUS
<1>2. \A k \in Fields(f) : raw[k] \in Nat /\ raw[k] < Power(Layout[f][k][2])
  BY DEF Loaded, Fits
<1>3. Sendable(s)
  BY <1>1, <1>2 DEF Sendable
<1>4. QED
  BY <1>1, <1>3 DEF Framed, Loaded

LEMMA FewStructures ==
  /\ <<>> \in SeqOf(DOMAIN Structure, 2)
  /\ <<"flags">> \in SeqOf(DOMAIN Structure, 2)
<1>1. <<>> \in [1..0 -> DOMAIN Structure]
  OBVIOUS
<1>2. "flags" \in DOMAIN Structure
  BY Structures
<1>3. <<"flags">> \in [1..1 -> DOMAIN Structure]
  BY <1>2
<1>4. 0 \in 0..2 /\ 1 \in 0..2
  OBVIOUS
<1>5. QED
  BY <1>1, <1>3, <1>4 DEF SeqOf

LEMMA OrdinaryLoaded ==
  ASSUME NEW f \in Formats
  PROVE  Loaded(f, Ordinary(f))
BY OrdinaryFits DEF Loaded

\* A field of a frame takes another value.
LEMMA LoadedExcept ==
  ASSUME NEW f \in Formats, NEW raw, Loaded(f, raw), NEW k \in Fields(f), NEW v,
         Fits(v, Layout[f][k][2]), k = "id" => v \in {Id[f], 4}
  PROVE  Loaded(f, [raw EXCEPT ![k] = v])
<1>1. PICK r : r = [raw EXCEPT ![k] = v]
  OBVIOUS
<1>2. v \in Nat /\ raw \in [Fields(f) -> Nat]
  BY DEF Fits, Loaded
<1>3. /\ r \in [Fields(f) -> Nat] /\ r[k] = v
      /\ \A l \in Fields(f) : l # k => r[l] = raw[l]
  BY <1>1, <1>2
<1>4. "id" \in Fields(f)
  BY CommonLayout
<1>5. r["id"] \in {Id[f], 4}
  BY <1>3, <1>4 DEF Loaded
<1>6. \A l \in Fields(f) : Fits(r[l], Layout[f][l][2])
  BY <1>3 DEF Loaded
<1>7. QED
  BY <1>1, <1>3, <1>5, <1>6 DEF Loaded

LEMMA FormatsInit == Init => IInv
BY DEF Init, IInv

\* What is received keeps the invariant.
LEMMA ReceivedKeeps ==
  ASSUME IInv, NEW s, Framed(s), Receive(s)
  PROVE  IInv'
BY DEF IInv, Receive

\* Every action keeps the invariant: what it sends fits the fields.
LEMMA FormatsStep == IInv /\ [Next]_vars => IInv'
<1> SUFFICES ASSUME IInv, [Next]_vars PROVE IInv'
  OBVIOUS
<1>1. CASE Send
  <2>1. PICK f \in Formats, fill \in {0, 1} : \E k, l \in Fields(f) :
          \E v \in Edges(f, k), w \in Edges(f, l) :
            Receive(Whole(f, [Ordinary(f) EXCEPT ![k] = v, ![l] = w], fill))
    BY <1>1 DEF Send
  <2>2. PICK k \in Fields(f), l \in Fields(f) : \E v \in Edges(f, k), w \in Edges(f, l) :
            Receive(Whole(f, [Ordinary(f) EXCEPT ![k] = v, ![l] = w], fill))
    BY <2>1
  <2>3. PICK v \in Edges(f, k), w \in Edges(f, l) :
            Receive(Whole(f, [Ordinary(f) EXCEPT ![k] = v, ![l] = w], fill))
    BY <2>2
  <2>4. PICK raw : raw = [Ordinary(f) EXCEPT ![k] = v]
    OBVIOUS
  <2>5. Loaded(f, raw)
    <3>1. Fits(v, Layout[f][k][2]) /\ (k = "id" => v \in {Id[f], 4})
      BY EdgesFit
    <3>2. QED
      BY <2>4, <3>1, OrdinaryLoaded, LoadedExcept
  <2>6. PICK both : both = [raw EXCEPT ![l] = w]
    OBVIOUS
  <2>7. Loaded(f, both)
    <3>1. Fits(w, Layout[f][l][2]) /\ (l = "id" => w \in {Id[f], 4})
      BY EdgesFit
    <3>2. QED
      BY <2>5, <2>6, <3>1, LoadedExcept
  <2>8. Receive(Whole(f, both, fill))
    BY <2>3, <2>4, <2>6
  <2>9. Framed(Whole(f, both, fill))
    <3>1. Size[f] \in 0..Size[f]
      BY DEF Size, Formats
    <3>2. QED
      BY <2>7, <3>1, FewStructures, FramedIf DEF Whole
  <2>10. QED
    BY <2>8, <2>9, ReceivedKeeps
<1>2. CASE Cut
  <2>1. PICK f \in Formats : \E n \in 0..(Size[f] - 1) :
          Receive([Whole(f, Ordinary(f), 0) EXCEPT !.size = n])
    BY <1>2 DEF Cut
  <2>2. PICK n \in 0..(Size[f] - 1) : Receive([Whole(f, Ordinary(f), 0) EXCEPT !.size = n])
    BY <2>1
  <2>3. PICK s : s = [Whole(f, Ordinary(f), 0) EXCEPT !.size = n]
    OBVIOUS
  <2>4. s = [format |-> f, raw |-> Ordinary(f), fill |-> 0, size |-> n, before |-> <<"flags">>,
             after |-> <<>>]
    BY <2>3 DEF Whole
  <2>5. n \in 0..Size[f]
    BY DEF Size, Formats
  <2>6. Framed(s)
    BY <2>4, <2>5, OrdinaryLoaded, FewStructures, FramedIf
  <2>7. QED
    BY <2>2, <2>3, <2>6, ReceivedKeeps
<1>3. CASE Carry
  <2>1. PICK f \in Formats : \E before, after \in SeqOf(DOMAIN Structure, 2) :
          Receive([Whole(f, Ordinary(f), 0) EXCEPT !.before = before, !.after = after])
    BY <1>3 DEF Carry
  <2>2. PICK before \in SeqOf(DOMAIN Structure, 2), after \in SeqOf(DOMAIN Structure, 2) :
          Receive([Whole(f, Ordinary(f), 0) EXCEPT !.before = before, !.after = after])
    BY <2>1
  <2>3. PICK s : s = [Whole(f, Ordinary(f), 0) EXCEPT !.before = before, !.after = after]
    OBVIOUS
  <2>4. s = [format |-> f, raw |-> Ordinary(f), fill |-> 0, size |-> Size[f],
             before |-> before, after |-> after]
    BY <2>3 DEF Whole
  <2>5. Size[f] \in 0..Size[f]
    BY DEF Size, Formats
  <2>6. Framed(s)
    BY <2>4, <2>5, OrdinaryLoaded, FramedIf
  <2>7. QED
    BY <2>2, <2>3, <2>6, ReceivedKeeps
<1>4. CASE Rise
  <2>1. PICK k \in Pollutants \cap Fields(sent.format) :
          /\ sent.raw[k] + 1 < Unavailable(sent.format, k)
          /\ sent = Whole(sent.format, sent.raw, 0)
          /\ Receive([sent EXCEPT !.raw[k] = @ + 1])
    BY <1>4 DEF Rise
  <2>2. Framed(sent)
    BY <1>4 DEF Rise, IInv
  <2>3. PICK f \in Formats : f = sent.format
    BY <2>2 DEF Framed, Sendable
  <2>4. PICK raw : raw = sent.raw
    OBVIOUS
  <2>5. Loaded(f, raw)
    BY <2>2, <2>3, <2>4 DEF Framed, Sendable, Loaded, Fits
  <2>6. PICK w \in {5, 8, 9, 11, 16, 22, 24} : w = Layout[f][k][2]
    BY <2>1, <2>3, Widths
  <2>7. raw[k] \in Nat /\ raw[k] + 1 < 2 ^ w - 1
    BY <2>1, <2>3, <2>4, <2>5, <2>6 DEF Unavailable, Pollutants, Loaded
  <2>8. PICK v : v = raw[k] + 1
    OBVIOUS
  <2>9. Fits(v, w) /\ k # "id"
    <3>1. 2 ^ w - 1 \in Nat /\ 2 ^ w - 1 < Power(w) /\ Power(w) \in Nat
      <4>1. Fits(2 ^ w - 1, w)
        BY EdgesOfWidth
      <4>2. \A m \in {5, 8, 9, 11, 16, 22, 24} : Power(m) \in Nat
        BY PowerIs
      <4>3. QED
        BY <4>1, <4>2 DEF Fits
    <3>2. PICK a \in Nat, b \in Nat : a = 2 ^ w - 1 /\ b = Power(w)
      BY <3>1
    <3>3. v \in Nat /\ v < b
      BY <2>7, <2>8, <3>1, <3>2
    <3>4. QED
      BY <2>1, <3>2, <3>3 DEF Fits, Pollutants
  <2>10. PICK more : more = [raw EXCEPT ![k] = v]
    OBVIOUS
  <2>11. Loaded(f, more)
    BY <2>1, <2>3, <2>5, <2>6, <2>9, <2>10, LoadedExcept
  <2>12. PICK s : s = [sent EXCEPT !.raw[k] = @ + 1]
    OBVIOUS
  <2>13. s = [format |-> f, raw |-> more, fill |-> 0, size |-> Size[f],
              before |-> <<"flags">>, after |-> <<>>]
    BY <2>1, <2>3, <2>4, <2>8, <2>10, <2>12 DEF Whole
  <2>14. Size[f] \in 0..Size[f]
    BY DEF Size, Formats
  <2>15. Framed(s)
    BY <2>11, <2>13, <2>14, FewStructures, FramedIf
  <2>16. QED
    BY <2>1, <2>12, <2>15, ReceivedKeeps
<1>5. CASE Done
  BY <1>5 DEF Done, IInv
<1>6. CASE UNCHANGED vars
  BY <1>6 DEF vars, IInv
<1>7. QED
  BY <1>1, <1>2, <1>3, <1>4, <1>5, <1>6 DEF Next

LEMMA FormatsInvariant == Spec => []IInv
BY FormatsInit, FormatsStep, PTL DEF Spec

\* What the receiver finds of what was sent.
LEMMA Heard ==
  ASSUME NEW s, Framed(s), NEW d, d = ManufacturerData(Advertisement(s))
  PROVE  /\ d \in Seq(Octets)
         /\ d = IF Clear(s) THEN Frame(s) ELSE <<>>
<1>1. PICK ad : ad = Advertisement(s)
  OBVIOUS
<1>2. /\ Sendable(s) /\ s.before \in Seq(DOMAIN Structure) /\ s.after \in Seq(DOMAIN Structure)
      /\ Len(ad) <= 255
  BY <1>1, ShortEnough DEF Framed
<1>3. d = IF Clear(s) THEN Frame(s) ELSE <<>>
  BY <1>1, <1>2, FrameFound
<1>4. Frame(s) \in Seq(Octets) /\ <<>> \in Seq(Octets)
  BY <1>2, FrameType
<1>5. QED
  BY <1>3, <1>4

LEMMA NothingIsNoFrame == ~Framed(Nothing) /\ Refused("none").values = <<>>
BY DEF Nothing, Framed, Sendable, Formats, Refused

\* What Parse returns is in the range of its fields, whatever is sent.
THEOREM TypeCorrect == Spec => []TypeOK
<1>1. IInv => TypeOK
  <2> SUFFICES ASSUME IInv PROVE TypeOK
    OBVIOUS
  <2>1. extended \in BOOLEAN
    BY DEF IInv
  <2>2. CASE sent = Nothing /\ got = Refused("none")
    <3>1. got.error = "none" /\ got.values = <<>>
      BY <2>2 DEF Refused
    <3>2. InRange(got)
      BY <3>1 DEF InRange
    <3>3. QED
      BY <2>1, <2>2, <3>2 DEF TypeOK
  <2>3. CASE Framed(sent) /\ got = Parse(ManufacturerData(Advertisement(sent)), extended)
    <3>1. PICK d \in Seq(Octets) : d = ManufacturerData(Advertisement(sent))
      BY <2>3, Heard
    <3>2. InRange(Parse(d, extended))
      BY <2>1, StaysInRange
    <3>3. sent.raw \in [Fields(sent.format) -> Nat]
      BY <2>3 DEF Framed
    <3>4. QED
      BY <2>1, <2>3, <3>1, <3>2, <3>3 DEF TypeOK
  <2>4. QED
    BY <2>2, <2>3 DEF IInv
<1>2. QED
  BY <1>1, FormatsInvariant, PTL

\* Bytes of no format, or none, give no value.
LEMMA NoValues ==
  ASSUME NEW d, NEW ext, d = <<>> \/ ~\E f \in Formats : d[1] = Id[f]
  PROVE  DOMAIN Parse(d, ext).values = {}
<1>1. ParseFormat(d) = Refused("length") \/ ParseFormat(d) = Refused("format")
  BY DEF ParseFormat
<1>2. PICK e \in {"length", "format"} : ParseFormat(d) = Refused(e)
  BY <1>1
<1>3. Parse(d, ext) = Refused(e)
  BY <1>2 DEF Parse, Refused
<1>4. QED
  BY <1>3 DEF Refused

\* A complete frame is heard whole.
LEMMA HeardWhole ==
  ASSUME NEW s, Framed(s), Clear(s), s.size = Size[s.format], s.raw["id"] = Id[s.format],
         NEW f, f = s.format
  PROVE  /\ f \in Formats
         /\ \E d \in Seq(Octets) :
              /\ d = ManufacturerData(Advertisement(s)) /\ IsFrame(d, f)
              /\ \A k \in Fields(f) \ {"id"} : Raw(f, d, k) = s.raw[k]
<1>1. PICK d \in Seq(Octets) : d = ManufacturerData(Advertisement(s)) /\ d = Frame(s)
  BY Heard
<1>2. Sendable(s)
  BY DEF Framed
<1>3. /\ IsFrame(Frame(s), f)
      /\ \A k \in Fields(f) \ {"id"} : Raw(f, Frame(s), k) = s.raw[k]
  BY <1>2, EveryFieldUnpacked
<1>4. f \in Formats
  BY <1>2 DEF Sendable
<1>5. QED
  BY <1>1, <1>3, <1>4

\* The same of the frame that was sent last.
LEMMA ReceivedWhole ==
  ASSUME IInv, Complete, NEW f, f = sent.format
  PROVE  /\ f \in Formats /\ extended \in BOOLEAN
         /\ \E d \in Seq(Octets) :
              /\ IsFrame(d, f) /\ got = Parse(d, extended)
              /\ \A k \in Fields(f) \ {"id"} : Raw(f, d, k) = sent.raw[k]
<1>1. Framed(sent) /\ got = Parse(ManufacturerData(Advertisement(sent)), extended)
  BY DEF IInv, Complete
<1>2. Clear(sent) /\ sent.size = Size[f] /\ sent.raw["id"] = Id[f]
  BY DEF Complete, Found, Clear
<1>3. QED
  BY <1>1, <1>2, HeardWhole DEF IInv

\* In every state a complete frame has given the value of every field as the sender meant
\* it, and left out what is not available; from a frame cut short no value was made up.
THEOREM ReadingHolds == Spec => []ReadsWhatWasSent
<1>1. IInv => ReadsWhatWasSent
  <2> SUFFICES ASSUME IInv PROVE ReadsWhatWasSent
    OBVIOUS
  <2>1. \A k \in DOMAIN got.values :
          k \in Fields(sent.format) => End(sent.format, k) <= 8 * sent.size
    <3>1. CASE sent = Nothing /\ got = Refused("none")
      BY <3>1, NothingIsNoFrame
    <3>2. CASE Framed(sent) /\ got = Parse(ManufacturerData(Advertisement(sent)), extended)
      <4>1. PICK d \in Seq(Octets) :
              /\ d = ManufacturerData(Advertisement(sent))
              /\ d = IF Clear(sent) THEN Frame(sent) ELSE <<>>
        BY <3>2, Heard
      <4>2. got = Parse(d, extended) /\ extended \in BOOLEAN
        BY <3>2, <4>1 DEF IInv
      <4>3. CASE d = <<>> \/ ~\E f \in Formats : d[1] = Id[f]
        BY <4>2, <4>3, NoValues
      <4>4. CASE d # <<>> /\ \E f \in Formats : d[1] = Id[f]
        <5>1. d = Frame(sent) /\ Sendable(sent)
          BY <3>2, <4>1, <4>4 DEF Framed
        <5>2. Len(d) = sent.size
          BY <5>1, FrameType
        <5>3. PICK f \in Formats : f = sent.format
          BY <5>1 DEF Sendable
        <5>4. d[1] = sent.raw["id"]
          <6>1. sent.size \in Nat /\ sent.size # 0
            BY <4>4, <5>1, <5>2, <5>3 DEF Sendable, Size, Formats
          <6>2. 0 < sent.size
            BY <6>1
          <6>3. QED
            BY <5>1, <6>2, FirstByte
        <5>5. sent.raw["id"] \in {Id[f], 4}
          BY <3>2, <5>3 DEF Framed
        <5>6. d[1] = Id[f]
          <6>1. \A g \in Formats : Id[g] # 4
            BY DEF Formats, Id
          <6>2. QED
            BY <4>4, <5>4, <5>5, <6>1
        <5>7. \A k \in Fields(f) \cap DOMAIN Parse(d, extended).values : End(f, k) <= 8 * Len(d)
          BY <4>2, <4>4, <5>6, NothingMadeUp
        <5>8. QED
          BY <4>2, <5>2, <5>3, <5>7
      <4>5. QED
        BY <4>3, <4>4
    <3>3. QED
      BY <3>1, <3>2 DEF IInv
  <2>2. ASSUME Complete, NEW f, f = sent.format, NEW hot, hot = TooHot(sent.raw.temperature)
        PROVE  IF hot /\ f # "F6" THEN got.error = "temperature"
               ELSE /\ got.error = "none"
                    /\ \A k \in Fields(f) \ {"id"} :
                         /\ (k \in DOMAIN got.values) =
                              ~(Missing(f, k, sent.raw[k]) \/ (k = "temperature" /\ hot))
                         /\ k \in DOMAIN got.values => got.values[k] = Meaning(k, sent.raw[k])
    <3>1. f \in Formats /\ extended \in BOOLEAN
      BY <2>2, ReceivedWhole
    <3>2. PICK d \in Seq(Octets) :
            /\ IsFrame(d, f) /\ got = Parse(d, extended)
            /\ \A k \in Fields(f) \ {"id"} : Raw(f, d, k) = sent.raw[k]
      BY <2>2, ReceivedWhole
    <3>3. IF f # "F6" /\ TooHot(Raw(f, d, "temperature")) THEN got = Refused("temperature")
          ELSE /\ got.error = "none"
               /\ \A k \in Fields(f) \ {"id"} :
                    /\ k \in DOMAIN got.values <=>
                         ~Missing(f, k, Raw(f, d, k))
                         /\ ~(k = "temperature" /\ TooHot(Raw(f, d, k)))
                    /\ k \in DOMAIN got.values => got.values[k] = Meaning(k, Raw(f, d, k))
      BY <3>1, <3>2, ReadsTheTable
    <3>4. "temperature" \in Fields(f) \ {"id"}
      BY <3>1, CommonLayout
    <3>5. hot <=> TooHot(Raw(f, d, "temperature"))
      BY <2>2, <3>2, <3>4
    <3>6. CASE hot /\ f # "F6"
      BY <3>3, <3>5, <3>6 DEF Refused
    <3>7. CASE ~(hot /\ f # "F6")
      <4>1. got.error = "none"
        BY <3>3, <3>5, <3>7
      <4>2. ASSUME NEW k \in Fields(f) \ {"id"}
            PROVE  /\ (k \in DOMAIN got.values) =
                        ~(Missing(f, k, sent.raw[k]) \/ (k = "temperature" /\ hot))
                   /\ k \in DOMAIN got.values => got.values[k] = Meaning(k, sent.raw[k])
        <5>1. Raw(f, d, k) = sent.raw[k]
          BY <3>2
        <5>2. /\ k \in DOMAIN got.values <=>
                   ~Missing(f, k, sent.raw[k]) /\ ~(k = "temperature" /\ TooHot(sent.raw[k]))
              /\ k \in DOMAIN got.values => got.values[k] = Meaning(k, sent.raw[k])
          BY <3>3, <3>5, <3>7, <5>1
        <5>3. k = "temperature" => (hot <=> TooHot(sent.raw[k]))
          BY <2>2
        <5>4. QED
          BY <5>2, <5>3
      <4>3. QED
        BY <3>7, <4>1, <4>2
    <3>8. QED
      BY <3>6, <3>7
  <2>3. QED
    BY <2>1, <2>2 DEF ReadsWhatWasSent
<1>2. QED
  BY <1>1, FormatsInvariant, PTL

\* In every state a format 6 frame has said what the E1 frame of the same air says: the
\* E1 frame is put together as the sender does, and both are read.
THEOREM AgreementHolds == Spec => []FormatsAgree
<1>1. IInv => FormatsAgree
  <2> DEFINE raw == [k \in Fields("E1") |-> IF k \in Shared /\ ~Missing("F6", k, sent.raw[k])
                                              THEN sent.raw[k]
                                            ELSE IF k \in Pollutants THEN 0
                                            ELSE IF k \in Shared THEN Unavailable("E1", k)
                                            ELSE Ordinary("E1")[k]]
             e1 == Parse(Frame(Whole("E1", raw, 0)), extended)
  <2> SUFFICES ASSUME IInv, sent.format = "F6", Complete, ~TooHot(sent.raw.temperature)
               PROVE  /\ \A k \in (DOMAIN got.values \ {"sequence"}) :
                           k \in DOMAIN e1.values /\ e1.values[k] = got.values[k]
                      /\ \A k \in DOMAIN e1.values \cap (Shared \cup {"air_quality_index"}) :
                           k \in DOMAIN got.values \/ e1.values[k] = 0
    BY DEF FormatsAgree, Shared
  <2>1. PICK d \in Seq(Octets) :
          /\ IsFrame(d, "F6") /\ got = Parse(d, extended)
          /\ \A k \in Fields("F6") \ {"id"} : Raw("F6", d, k) = sent.raw[k]
    BY ReceivedWhole
  <2>2. extended \in BOOLEAN /\ Framed(sent)
    BY DEF IInv, Complete
  <2>3. "E1" \in Formats /\ "F6" \in Formats
    BY DEF Formats
  <2>4. "id" \notin Shared /\ "id" \notin Pollutants /\ "id" \in Fields("E1")
    BY SharedFields DEF Shared, Pollutants, Fields, Layout, With, Common
  <2>5. PICK r : r = raw
    OBVIOUS
  <2>6. /\ r = [k \in Fields("E1") |-> r[k]]
        /\ \A k \in Shared : ~Missing("F6", k, sent.raw[k]) => r[k] = sent.raw[k]
        /\ \A k \in Shared : Missing("F6", k, sent.raw[k]) =>
             r[k] = IF k \in Pollutants THEN 0 ELSE Unavailable("E1", k)
        /\ \A k \in Fields("E1") \ Shared :
             r[k] = IF k \in Pollutants THEN 0 ELSE Ordinary("E1")[k]
    BY <2>5, SharedFields
  <2> HIDE DEF raw
  <2>7. ASSUME NEW k \in Fields("E1") PROVE Fits(r[k], Layout["E1"][k][2])
    <3>1. PICK w \in {5, 8, 9, 11, 16, 22, 24} : w = Layout["E1"][k][2]
      BY <2>3, Widths
    <3>2. Fits(0, w) /\ Fits(2 ^ w - 1, w) /\ Fits(Ordinary("E1")[k], w)
      BY <2>3, <3>1, EdgesOfWidth, OrdinaryFits
    <3>3. CASE k \in Shared /\ ~Missing("F6", k, sent.raw[k])
      <4>1. k \in Fields("F6") /\ Layout["F6"][k][2] = w
        BY <3>1, <3>3, SharedFields DEF Shared, Layout, With, Common
      <4>2. sent.raw[k] \in Nat /\ sent.raw[k] < Power(w)
        BY <2>2, <4>1 DEF Framed, Sendable
      <4>3. QED
        BY <2>6, <3>1, <3>3, <4>2 DEF Fits
    <3>4. CASE k \in Shared /\ Missing("F6", k, sent.raw[k]) /\ k \notin Pollutants
      <4>1. r[k] = Unavailable("E1", k)
        BY <2>6, <3>4
      <4>2. CASE k = "temperature"
        <5>1. w = 16
          BY <2>3, <3>1, <4>2, Widths
        <5>2. Unavailable("E1", k) = 32768
          BY <4>2, SharedFields
        <5>3. QED
          BY <3>1, <4>1, <5>1, <5>2, PowerIs, SMT DEF Fits
      <4>3. CASE k # "temperature"
        <5>1. k \notin {"temperature", "acceleration_x", "acceleration_y", "acceleration_z"}
          BY <3>4, <4>3, SharedFields
        <5>2. Unavailable("E1", k) = 2 ^ w - 1
          BY <3>1, <5>1 DEF Unavailable
        <5>3. QED
          BY <3>1, <3>2, <4>1, <5>2
      <4>4. QED
        BY <4>2, <4>3
    <3>5. CASE ~(k \in Shared /\ ~Missing("F6", k, sent.raw[k])) /\ k \in Pollutants
      BY <2>6, <3>1, <3>2, <3>5
    <3>6. CASE k \notin Shared /\ k \notin Pollutants
      BY <2>6, <3>1, <3>2, <3>6
    <3>7. QED
      BY <3>3, <3>4, <3>5, <3>6
  <2>8. r["id"] = Id["E1"]
    BY <2>3, <2>4, <2>6, OrdinaryFits
  <2>9. PICK s : s = Whole("E1", r, 0)
    OBVIOUS
  <2>10. Sendable(s) /\ s.format = "E1" /\ s.raw = r /\ s.size = Size["E1"]
    <3>1. /\ s.format = "E1" /\ s.raw = r /\ s.fill = 0 /\ s.size = Size["E1"]
      BY <2>9 DEF Whole
    <3>2. Size["E1"] \in 0..Size["E1"]
      BY DEF Size
    <3>3. QED
      BY <2>3, <2>7, <3>1, <3>2 DEF Sendable, Fits
  <2>11. PICK e \in Seq(Octets) : e = Frame(s)
    BY <2>10, FrameType
  <2>12. IsFrame(e, "E1") /\ \A k \in Fields("E1") \ {"id"} : Raw("E1", e, k) = r[k]
    BY <2>8, <2>10, <2>11, EveryFieldUnpacked
  <2>13. SameAir(d, e)
    <3>1. ASSUME NEW k \in Shared
          PROVE  Raw("F6", d, k) = sent.raw[k] /\ Raw("E1", e, k) = r[k]
      <4>1. k \in Fields("F6") \ {"id"} /\ k \in Fields("E1") \ {"id"}
        BY <2>4, SharedFields DEF Shared
      <4>2. QED
        BY <2>1, <2>12, <4>1
    <3>2. QED
      BY <2>6, <3>1 DEF SameAir
  <2>14. ~TooHot(Raw("F6", d, "temperature"))
    <3>1. "temperature" \in Fields("F6") \ {"id"}
      BY SharedFields DEF Shared
    <3>2. QED
      BY <2>1, <3>1
  <2>15. PICK q : q = Parse(e, extended)
    OBVIOUS
  <2>16. /\ \A k \in DOMAIN got.values \ {"sequence"} :
              k \in DOMAIN q.values /\ q.values[k] = got.values[k]
         /\ \A k \in DOMAIN q.values \cap (Shared \cup {"air_quality_index"}) :
              k \in DOMAIN got.values \/ q.values[k] = 0
    BY <2>1, <2>2, <2>12, <2>13, <2>14, <2>15, BothFormatsAgree
  <2>17. q = e1
    BY <2>5, <2>9, <2>11, <2>15
  <2>18. QED
    BY <2>16, <2>17
<1>2. QED
  BY <1>1, FormatsInvariant, PTL

\* In every state each value of a frame that misses nothing has its sensor; of the
\* sensors announced all have a value when extended_values is set, and when it is not
\* exactly the calculated ones have none; no two sensors share an identity.
THEOREM SensorsHold == Spec => []SensorsMatchValues
<1>1. IInv => SensorsMatchValues
  <2>1. \A s, t \in Sensors : s.suffix = t.suffix => s = t
    BY SensorsMatch
  <2>2. ASSUME IInv, MissesNothing, NEW f, f = sent.format
        PROVE  /\ Valued(f, got) \subseteq Announced(f)
               /\ Announced(f) \ Valued(f, got) = IF extended THEN {} ELSE Calculated(f)
    <3>1. Complete
      BY <2>2 DEF MissesNothing
    <3>2. f \in Formats /\ extended \in BOOLEAN
      BY <2>2, <3>1, ReceivedWhole
    <3>3. PICK d \in Seq(Octets) : IsFrame(d, f) /\ got = Parse(d, extended)
      BY <2>2, <3>1, ReceivedWhole
    <3>4. got.error = "none" /\ Fields(f) \subseteq {"id"} \cup DOMAIN got.values
      BY <2>2 DEF MissesNothing
    <3>5. QED
      BY <3>2, <3>3, <3>4, SensorsMatch
  <2>3. QED
    BY <2>1, <2>2 DEF SensorsMatchValues
<1>2. QED
  BY <1>1, FormatsInvariant, PTL

\* Without the extended values only the fields are there.
LEMMA OnlyFields ==
  ASSUME NEW d \in Seq(Octets), NEW f \in Formats, IsFrame(d, f),
         f = "F6" \/ ~TooHot(Raw(f, d, "temperature")),
         NEW ext \in BOOLEAN, ~ext
  PROVE  DOMAIN Parse(d, ext).values \subseteq Fields(f)
<1>1. PICK r : r = ParseFormat(d)
  OBVIOUS
<1>2. Len(d) \in Nat /\ MinLength[f] \in Nat
  BY DEF MinLength, Formats
<1>3. r = Measured(Expected(f, d))
  BY <1>1, <1>2, ParsedFormat DEF IsFrame
<1>4. Parse(d, ext) = r
  BY <1>1 DEF Parse
<1>5. QED
  BY <1>3, <1>4, MeasuredExpected

\* A frame in which a pollutant rises is complete, and so is the next.
LEMMA RisesWhole ==
  ASSUME IInv, Rise
  PROVE  Complete /\ (Complete)' /\ UNCHANGED extended
<1>1. PICK k \in Pollutants \cap Fields(sent.format) :
        /\ sent = Whole(sent.format, sent.raw, 0)
        /\ [sent.raw EXCEPT ![k] = 0] = Ordinary(sent.format)
        /\ Receive([sent EXCEPT !.raw[k] = @ + 1])
  BY DEF Rise
<1>2. PICK f, raw : f = sent.format /\ raw = sent.raw
  OBVIOUS
<1>3. sent # Nothing /\ f \in Formats /\ raw \in [Fields(f) -> Nat]
  BY <1>2 DEF IInv, Rise, Framed, Sendable
<1>4. k # "id" /\ "id" \in Fields(f)
  BY <1>3, CommonLayout DEF Pollutants
<1>5. raw["id"] = Id[f]
  <2>1. [raw EXCEPT ![k] = 0]["id"] = raw["id"]
    BY <1>3, <1>4
  <2>2. QED
    BY <1>1, <1>2, <1>3, <2>1, OrdinaryFits
<1>6. PICK more : more = [raw EXCEPT ![k] = raw[k] + 1]
  OBVIOUS
<1>7. more["id"] = Id[f]
  BY <1>3, <1>4, <1>5, <1>6
<1>8. /\ sent = [format |-> f, raw |-> raw, fill |-> 0, size |-> Size[f],
                 before |-> <<"flags">>, after |-> <<>>]
      /\ sent' = [format |-> f, raw |-> more, fill |-> 0, size |-> Size[f],
                  before |-> <<"flags">>, after |-> <<>>]
  BY <1>1, <1>2, <1>6 DEF Whole, Receive
<1>9. ToSet(<<"flags">>) \cap {"padding", "broken"} = {}
  BY DEF ToSet
<1>10. f # "none"
  BY <1>3 DEF Formats
<1>11. sent # Nothing /\ sent' # Nothing
  BY <1>3, <1>8, <1>10 DEF Nothing
<1>12. Complete
  BY <1>2, <1>5, <1>8, <1>9, <1>11 DEF Complete, Found
<1>13. Complete'
  BY <1>7, <1>8, <1>9, <1>11 DEF Complete, Found
<1>14. UNCHANGED extended
  BY <1>1 DEF Receive
<1>15. QED
  BY <1>12, <1>13, <1>14

\* No step in which one pollutant rises by a unit makes the index fall or jump.  Only Rise
\* follows a frame by a frame, and both are complete.
THEOREM SmoothHolds == Spec => AqiIsSmooth
<1> DEFINE Worse == 
     /\ sent # Nothing /\ sent'.format = sent.format /\ sent'.size = sent.size
     /\ \E k \in Pollutants \cap Fields(sent.format) :
          /\ sent'.raw = [sent.raw EXCEPT ![k] = @ + 1]
          /\ ~Missing(sent.format, k, sent'.raw[k])
     /\ "air_quality_index" \in DOMAIN got.values
<1>1. IInv /\ IInv' /\ [Next]_vars =>
        [Worse => got'.values.air_quality_index - got.values.air_quality_index \in {0, 1}]_vars
  <2> SUFFICES ASSUME IInv, IInv', Next, Worse
               PROVE  got'.values.air_quality_index - got.values.air_quality_index \in {0, 1}
    OBVIOUS
  <2>1. PICK f \in Formats : f = sent.format /\ sent'.format = f
    BY DEF IInv, Framed, Sendable
  <2>2. Rise
    <3>1. sent # Nothing /\ sent' # Nothing
      BY <2>1 DEF Nothing, Formats
    <3>2. QED
      BY <3>1 DEF Next, Send, Cut, Carry, Done
  <2>3. Complete /\ (Complete)' /\ extended' = extended
    BY <2>2, RisesWhole
  <2>4. PICK d \in Seq(Octets) :
          /\ IsFrame(d, f) /\ got = Parse(d, extended)
          /\ \A k \in Fields(f) \ {"id"} : Raw(f, d, k) = sent.raw[k]
    BY <2>1, <2>3, ReceivedWhole
  <2>5. PICK e \in Seq(Octets) :
          /\ IsFrame(e, f) /\ got' = Parse(e, extended)
          /\ \A k \in Fields(f) \ {"id"} : Raw(f, e, k) = sent'.raw[k]
    <3>1. PICK s : s = sent'
      OBVIOUS
    <3>2. Clear(s) /\ s.size = Size[f] /\ s.raw["id"] = Id[f] /\ s.format = f /\ s # Nothing
      BY <2>1, <2>3, <3>1 DEF Complete, Found, Clear
    <3>3. Framed(s) /\ got' = Parse(ManufacturerData(Advertisement(s)), extended)
      BY <2>3, <3>1, <3>2 DEF IInv
    <3>4. s.size = Size[s.format] /\ s.raw["id"] = Id[s.format] /\ f = s.format
      BY <3>2
    <3>5. PICK e \in Seq(Octets) :
            /\ e = ManufacturerData(Advertisement(s)) /\ IsFrame(e, f)
            /\ \A k \in Fields(f) \ {"id"} : Raw(f, e, k) = s.raw[k]
      BY <3>2, <3>3, <3>4, HeardWhole
    <3>6. QED
      BY <3>1, <3>3, <3>5
  <2>6. PICK k \in Pollutants \cap Fields(f) :
          sent'.raw = [sent.raw EXCEPT ![k] = @ + 1] /\ ~Missing(f, k, sent'.raw[k])
    BY <2>1
  <2>7. k # "id" /\ k # "temperature" /\ k \in Fields(f) \ {"id"}
        /\ "temperature" \in Fields(f) \ {"id"} /\ "id" \notin Pollutants
    BY CommonLayout DEF Pollutants
  <2>8. DOMAIN sent.raw = Fields(f)
    BY <2>1, <2>3 DEF IInv, Complete, Framed
  <2>9. /\ OneRises(f, d, e, k) /\ Raw(f, e, "temperature") = Raw(f, d, "temperature")
    BY <2>4, <2>5, <2>6, <2>7, <2>8 DEF OneRises
  <2>10. extended \in BOOLEAN
    BY DEF IInv
  <2>11. got.error = "none" /\ (f = "F6" \/ ~TooHot(Raw(f, d, "temperature")))
    <3>1. CASE f # "F6" /\ TooHot(Raw(f, d, "temperature"))
      <4>1. got = Refused("temperature")
        BY <2>4, <2>10, <3>1, ReadsTheTable
      <4>2. DOMAIN got.values = {}
        BY <4>1 DEF Refused
      <4>3. QED
        BY <4>2
    <3>2. CASE ~(f # "F6" /\ TooHot(Raw(f, d, "temperature")))
      BY <2>4, <2>10, <3>2, ReadsTheTable
    <3>3. QED
      BY <3>1, <3>2
  <2>12. got'.error = "none"
    BY <2>5, <2>9, <2>10, <2>11, ReadsTheTable
  <2>13. extended = TRUE
    <3>1. CASE ~extended
      <4>1. DOMAIN got.values \subseteq Fields(f)
        BY <2>4, <2>10, <2>11, <3>1, OnlyFields
      <4>2. QED
        BY <4>1, KeysApart DEF DerivedKeys
    <3>2. QED
      BY <2>10, <3>1
  <2>14. PICK p, q : p = got /\ q = got'
    OBVIOUS
  <2>15. p = Parse(d, TRUE) /\ q = Parse(e, TRUE) /\ IsFrame(d, f) /\ IsFrame(e, f)
    BY <2>4, <2>5, <2>13, <2>14
  <2>16. p.error = "none" /\ q.error = "none" /\ "air_quality_index" \in DOMAIN p.values
    BY <2>11, <2>12, <2>14
  <2>17. q.values.air_quality_index - p.values.air_quality_index \in {0, 1}
    BY <2>1, <2>4, <2>5, <2>6, <2>9, <2>15, <2>16, IndexIsSmooth
  <2>18. QED
    BY <2>14, <2>17
<1>2. QED
  BY <1>1, FormatsInvariant, PTL DEF Spec, AqiIsSmooth
=============================================================================
