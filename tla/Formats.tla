------------------------------- MODULE Formats -------------------------------
(***************************************************************************)
(* From the bytes of a frame to the values of a measurement: Parse,        *)
(* ParseFormat5, ParseFormat6, ParseFormatE1, calculateExtendedValues and  *)
(* calculateAQI of src/src/parser, with manufacturerData of                *)
(* src/src/ble/hci_parse.go, which finds the frame in an advertisement, and *)
(* the sensors that PublishDiscovery of src/src/homeassistant announces.   *)
(*                                                                         *)
(* Values are kept in the units of the frame: temperatures in 0.005        *)
(* degrees, humidities in 0.0025 %, particles in 0.1 ug, light in 0.01 lux, *)
(* voltages in mV.  Of the derived values only the index is a number here; *)
(* the others are finite or not.                                           *)
(***************************************************************************)
EXTENDS Integers, SequencesExt

CONSTANT PollutantMax \* bound: how far a pollutant rises

ASSUME PollutantMaxAssumption == PollutantMax \in Nat

VARIABLES
  extended, \* extended_values of the configuration
  sent,     \* a frame: format, raw values of its fields, the bits of no field, length;
            \* and what comes before and after it in the advertisement
  got       \* what Parse returns for it: an error and the fields of the measurement

vars == <<extended, sent, got>>
-----------------------------------------------------------------------------
(* The sender, by the tables at the head of format5.go, format6.go and     *)
(* format_e1.go.                                                           *)

Formats == {"F5", "F6", "E1"}
Id == [F5 |-> 5, F6 |-> 6, E1 |-> 225]
Size == [F5 |-> 24, F6 |-> 20, E1 |-> 40]

\* The values of v, and those of w that v does not have.
With(v, w) == [k \in DOMAIN v \cup DOMAIN w |-> IF k \in DOMAIN v THEN v[k] ELSE w[k]]

\* The first bit of each field and the number of its bits.
Common ==
  [id |-> <<0, 8>>, temperature |-> <<8, 16>>, humidity |-> <<24, 16>>, pressure |-> <<40, 16>>]

Layout ==
  [F5 |-> With(Common,
     [acceleration_x |-> <<56, 16>>, acceleration_y |-> <<72, 16>>, acceleration_z |-> <<88, 16>>,
      battery_voltage |-> <<104, 11>>, tx_power |-> <<115, 5>>, movement_counter |-> <<120, 8>>,
      sequence |-> <<128, 16>>]),
   F6 |-> With(Common,
     [pm2_5 |-> <<56, 16>>, co2 |-> <<72, 16>>, voc_index |-> <<88, 9>>, nox_index |-> <<97, 9>>,
      sequence |-> <<112, 8>>]),
   E1 |-> With(Common,
     [pm1_0 |-> <<56, 16>>, pm2_5 |-> <<72, 16>>, pm4_0 |-> <<88, 16>>, pm10_0 |-> <<104, 16>>,
      co2 |-> <<120, 16>>, voc_index |-> <<136, 9>>, nox_index |-> <<145, 9>>,
      luminosity |-> <<154, 22>>, sequence |-> <<200, 24>>])]

Fields(f) == DOMAIN Layout[f]

\* The end of a field, in bits.
End(f, k) == Layout[f][k][1] + Layout[f][k][2]

\* The fields a bit of the frame is of: one, or none.
Owner == [f \in Formats |-> [p \in 0..(8 * Size[f] - 1) |->
  {k \in Fields(f) : Layout[f][k][1] <= p /\ p < End(f, k)}]]

\* A field begins with its highest bit; the bits of no field are all alike.
Bit(s, p) ==
  IF Owner[s.format][p] = {} THEN s.fill
  ELSE LET k == CHOOSE k \in Owner[s.format][p] : TRUE
       IN  (s.raw[k] \div 2 ^ (End(s.format, k) - 1 - p)) % 2

Frame(s) ==
  [b \in 1..s.size |->
     LET bit(i) == Bit(s, 8 * (b - 1) + i)
     IN  128 * bit(0) + 64 * bit(1) + 32 * bit(2) + 16 * bit(3)
           + 8 * bit(4) + 4 * bit(5) + 2 * bit(6) + bit(7)]

\* The value a field that is not available has.
Unavailable(f, k) ==
  IF k \in {"temperature", "acceleration_x", "acceleration_y", "acceleration_z"}
    THEN 2 ^ 15 ELSE 2 ^ Layout[f][k][2] - 1

Missing(f, k, v) ==
  v = Unavailable(f, k) \/ (f = "F6" /\ v = 0 /\ k \in {"pm2_5", "co2", "voc_index"})

Signed(v) == IF v < 2 ^ 15 THEN v ELSE v - 2 ^ 16

\* What the sender means.
Meaning(k, v) ==
  CASE k \in {"temperature", "acceleration_x", "acceleration_y", "acceleration_z"} -> Signed(v)
    [] k = "humidity" -> Min({v, 40000})
    [] k = "pressure" -> v + 50000
    [] k = "battery_voltage" -> v + 1600
    [] k = "tx_power" -> 2 * v - 40
    [] OTHER -> v
-----------------------------------------------------------------------------
(* The receiver.  data[i] of the code is Byte(d, i); a byte beyond the end *)
(* is 0 here.  A field is a triple: its key, whether it is set, its value. *)

Byte(d, i) == IF i < Len(d) THEN d[i + 1] ELSE 0

U16(d, i) == 256 * Byte(d, i) + Byte(d, i + 1)
S16(d, i) == Signed(U16(d, i))
U24(d, i) == 65536 * Byte(d, i) + U16(d, i + 1)

Field(k, set, v) == <<k, set, v>>

Refused(e) == [error |-> e, values |-> <<>>]

Measured(fields) ==
  LET set == {x \in fields : x[2]} IN
    [error |-> "none", values |-> [k \in {x[1] : x \in set} |-> (CHOOSE x \in set : x[1] = k)[3]]]

\* Mutant: the humidity is not capped.
Humidity_Uncapped(d) == U16(d, 3)

Humidity(d) == Min({U16(d, 3), 40000})

\* -40 to 85 degrees.
TemperatureInRange(d) == S16(d, 1) \in -8000..17000

CommonFields(d) ==
  {Field("temperature", S16(d, 1) # -32768 /\ TemperatureInRange(d), S16(d, 1)),
   Field("humidity", U16(d, 3) # 65535, Humidity(d)),
   Field("pressure", U16(d, 5) # 65535, U16(d, 5) + 50000)}

\* ErrTemperatureOutOfRange; format 6 leaves the temperature out instead.
OutOfRange(d) == S16(d, 1) # -32768 /\ ~TemperatureInRange(d)

\* A field that is all ones is not available.
Number(k, v, none) == Field(k, v # none, v)

Format5Fields(d) ==
  CommonFields(d) \cup
  {Field("acceleration_x", S16(d, 7) # -32768, S16(d, 7)),
   Field("acceleration_y", S16(d, 9) # -32768, S16(d, 9)),
   Field("acceleration_z", S16(d, 11) # -32768, S16(d, 11)),
   Field("battery_voltage", U16(d, 13) \div 32 # 2047, U16(d, 13) \div 32 + 1600),
   Field("tx_power", U16(d, 13) % 32 # 31, 2 * (U16(d, 13) % 32) - 40),
   Number("movement_counter", Byte(d, 15), 255),
   Number("sequence", U16(d, 16), 65535)}

\* Nine bits from byte i on, and the nine that follow them.
First9(d, i) == 2 * Byte(d, i) + Byte(d, i + 1) \div 128
Second9(d, i) == 4 * (Byte(d, i + 1) % 128) + Byte(d, i + 2) \div 64

Format6Fields(d) ==
  CommonFields(d) \cup
  {Field("pm2_5", U16(d, 7) \notin {0, 65535}, U16(d, 7)),
   Field("co2", U16(d, 9) \notin {0, 65535}, U16(d, 9)),
   Field("voc_index", First9(d, 11) \notin {0, 511}, First9(d, 11)),
   Number("nox_index", Second9(d, 11), 511),
   Number("sequence", Byte(d, 14), 255)}

\* Mutant: the two bits of the NOx index are not masked.
Luminosity_Unmasked(d) == U24(d, 19)

Luminosity(d) == U24(d, 19) % 2 ^ 22

FormatE1Fields(d) ==
  CommonFields(d) \cup
  {Number("pm1_0", U16(d, 7), 65535), Number("pm2_5", U16(d, 9), 65535),
   Number("pm4_0", U16(d, 11), 65535), Number("pm10_0", U16(d, 13), 65535),
   Number("co2", U16(d, 15), 65535),
   Number("voc_index", First9(d, 17), 511), Number("nox_index", Second9(d, 17), 511),
   Number("luminosity", Luminosity(d), 2 ^ 22 - 1),
   Number("sequence", U24(d, 25), 2 ^ 24 - 1)}

\* The shortest frame that is read; it makes the later length checks true.
MinLength == [F5 |-> 24, F6 |-> 15, E1 |-> 28]

FieldsOf(f, d) ==
  CASE f = "F5" -> Format5Fields(d) [] f = "F6" -> Format6Fields(d) [] f = "E1" -> FormatE1Fields(d)

ParseFormat(d) ==
  IF d = <<>> THEN Refused("length")
  ELSE IF ~\E f \in Formats : d[1] = Id[f] THEN Refused("format")
  ELSE LET f == CHOOSE f \in Formats : d[1] = Id[f] IN
    IF Len(d) < MinLength[f] THEN Refused("length")
    ELSE IF f # "F6" /\ OutOfRange(d) THEN Refused("temperature")
    ELSE Measured(FieldsOf(f, d))

\* An AD structure, after i bytes: its length is no end of the data, nor beyond it; it
\* is of the type 0xFF with Ruuvi's company id, 0x0499; its payload; what it is followed by.
Legal(ad, i) == ad[i + 1] # 0 /\ i + 1 + ad[i + 1] <= Len(ad)
OfRuuvi(ad, i) == ad[i + 1] >= 3 /\ SubSeq(ad, i + 2, i + 4) = <<255, 153, 4>>
Payload(ad, i) == SubSeq(ad, i + 5, i + 1 + ad[i + 1])
Skipped(ad, i) == i + 1 + ad[i + 1]

\* The payload of the first structure of Ruuvi; empty without.
ManufacturerData(ad) ==
  LET from[i \in 0..Len(ad)] ==
        IF i = Len(ad) \/ ~Legal(ad, i) THEN <<>>
        ELSE IF OfRuuvi(ad, i) THEN Payload(ad, i)
        ELSE from[Skipped(ad, i)]
  IN  from[0]
-----------------------------------------------------------------------------
(* The derived values.                                                     *)

\* A score rises from segment to segment: <<from, to, score at from, rise to to>>.
\* The last segment goes on.  Mutant: the fifth is as steep as those before it.
PM25Score_Flat == <<<<0, 120, 0, 50>>, <<120, 354, 50, 50>>, <<354, 554, 100, 50>>,
                    <<554, 1504, 150, 50>>, <<1504, 2504, 200, 50>>, <<2504, 5004, 300, 200>>>>

PM25Score == <<<<0, 120, 0, 50>>, <<120, 354, 50, 50>>, <<354, 554, 100, 50>>,
               <<554, 1504, 150, 50>>, <<1504, 2504, 200, 100>>, <<2504, 5004, 300, 200>>>>

VOCScore == [i \in 1..5 |-> <<100 * (i - 1), 100 * i, 50 * (i - 1), 50>>]

CO2Score == <<<<0, 600, 0, 50>>, <<600, 1000, 50, 50>>, <<1000, 1500, 100, 50>>,
              <<1500, 2000, 150, 50>>, <<2000, 3000, 200, 100>>>>

Score(table, x) ==
  LET i == Min({j \in DOMAIN table : x <= table[j][2]} \cup {Len(table)})
      s == table[i]
  IN  Min({500, s[3] + ((x - s[1]) * s[4]) \div (s[2] - s[1])})

\* Where the product of floating-point numbers is just below the integer.
RoundedDown == {668, 1200, 1295, 1371, 1466}

Scores(v) ==
  {Score(PM25Score, v[k]) - (IF v[k] \in RoundedDown THEN 1 ELSE 0) : k \in {"pm2_5"} \cap DOMAIN v}
  \cup {Score(VOCScore, v[k]) : k \in {"voc_index"} \cap DOMAIN v}
  \cup {Score(CO2Score, v[k]) : k \in {"co2"} \cap DOMAIN v}

\* Mutant: format 6 is forgotten.
IsAir_E1(f) == f = "E1"

\* A Ruuvi Air.
IsAir(f) == f \in {"F6", "E1"}

\* With a humidity of 0 the logarithm of the dew point is infinite, and the point
\* not a number.
Derived(f, v) ==
  LET humid == {"temperature", "humidity"} \subseteq DOMAIN v
      dense == humid /\ "pressure" \in DOMAIN v
      rated == IsAir(f) /\ Scores(v) # {}
      keys == (IF humid THEN {"dew_point", "absolute_humidity"} ELSE {})
              \cup (IF dense THEN {"air_density"} ELSE {})
              \cup (IF rated THEN {"air_quality_index"} ELSE {})
  IN  [k \in keys |-> CASE k = "air_quality_index" -> Max(Scores(v))
                       [] k = "dew_point" /\ v.humidity = 0 -> "NaN"
                       [] OTHER -> "finite"]

Parse(d, ext) ==
  LET r == ParseFormat(d) IN
    IF r.error # "none" \/ ~ext THEN r
    ELSE [r EXCEPT !.values = With(@, Derived(CHOOSE f \in Formats : d[1] = Id[f], @))]
-----------------------------------------------------------------------------
(* The sensors.                                                            *)

\* A sensor is called by its value, but for some that two formats have.
Suffix(k, f) ==
  CASE f = "F6" /\ k \in {"sequence", "air_quality_index"} -> <<k, "f6">>
    [] f = "E1" /\ k \in {"pm2_5", "co2", "voc_index", "nox_index"} -> <<k, "e1">>
    [] OTHER -> <<k>>

Sensor(key, f) == [key |-> key, format |-> f, suffix |-> Suffix(key, f)]

\* sensorDefinitions, with the one format a sensor is for.
Sensors ==
  {Sensor(k, "all") : k \in {"temperature", "humidity", "pressure", "rssi", "dew_point",
     "absolute_humidity", "air_density"}}
  \cup {Sensor(k, "F5") : k \in {"battery_voltage", "tx_power", "acceleration_x",
     "acceleration_y", "acceleration_z", "movement_counter", "sequence"}}
  \cup {Sensor(k, "F6") : k \in {"pm2_5", "co2", "voc_index", "nox_index", "sequence",
     "air_quality_index"}}
  \cup {Sensor(k, "E1") : k \in {"pm1_0", "pm2_5", "pm4_0", "pm10_0", "co2", "voc_index",
     "nox_index", "luminosity", "air_quality_index"}}

\* Mutant: the sensors of the other format of a Ruuvi Air are announced as well.
Applies_Air(s, f) == s.format \in {"all", f} \/ (IsAir(s.format) /\ IsAir(f))

Applies(s, f) == s.format \in {"all", f}
-----------------------------------------------------------------------------
(* What is sent.                                                           *)

Pollutants == {"pm2_5", "co2", "voc_index"}

\* An ordinary reading in clean air.
Ordinary(f) ==
  [k \in Fields(f) |->
     CASE k = "id" -> Id[f] [] k = "humidity" -> 20000
       [] k \in Pollutants -> 0 [] OTHER -> 2 ^ (Layout[f][k][2] - 2) + 1]

\* The values of a field where something changes: the ends of its range and of its
\* halves, the limits of temperature and humidity, a format nobody knows.
Edges(f, k) ==
  LET w == Layout[f][k][2] IN
    CASE k = "id" -> {Id[f], 4}
      [] k = "humidity" -> {0, 1, 39999, 40000, 40001, 65534, 65535}
      [] k = "temperature" -> {0, 17000, 17001, 32767, 32768, 32769, 57535, 57536, 65535}
      [] OTHER -> {0, 1, 2 ^ (w - 1) - 1, 2 ^ (w - 1), 2 ^ w - 2, 2 ^ w - 1}

Nothing ==
  [format |-> "none", raw |-> <<>>, fill |-> 0, size |-> 0, before |-> <<>>, after |-> <<>>]

Init == extended \in BOOLEAN /\ sent = Nothing /\ got = Refused("none")

\* Structures of an advertisement: the flags, data of another company, of none, a
\* padding and a structure that is cut off.
Structure ==
  [flags |-> <<2, 1, 6>>, other |-> <<5, 255, 76, 0, 153, 4>>, short |-> <<2, 255, 153>>,
   padding |-> <<0>>, broken |-> <<255, 255, 153, 4>>]

Advertisement(s) ==
  LET bytes(t) == FlattenSeq([i \in DOMAIN t |-> Structure[t[i]]])
  IN  bytes(s.before) \o <<s.size + 3, 255, 153, 4>> \o Frame(s) \o bytes(s.after)

Receive(s) ==
  /\ sent' = s /\ got' = Parse(ManufacturerData(Advertisement(s)), extended)
  /\ UNCHANGED extended

Whole(f, raw, fill) ==
  [format |-> f, raw |-> raw, fill |-> fill, size |-> Size[f], before |-> <<"flags">>,
   after |-> <<>>]

\* Two fields at edges of theirs, the others ordinary.
Send ==
  /\ sent = Nothing
  /\ \E f \in Formats, fill \in {0, 1} : \E k, l \in Fields(f) :
       \E v \in Edges(f, k), w \in Edges(f, l) :
         Receive(Whole(f, [Ordinary(f) EXCEPT ![k] = v, ![l] = w], fill))

\* A frame whose end is cut off.
Cut ==
  /\ sent = Nothing
  /\ \E f \in Formats : \E n \in 0..(Size[f] - 1) :
       Receive([Whole(f, Ordinary(f), 0) EXCEPT !.size = n])

\* A frame among other structures.
Carry ==
  /\ sent = Nothing
  /\ \E f \in Formats : \E before, after \in SeqOf(DOMAIN Structure, 2) :
       Receive([Whole(f, Ordinary(f), 0) EXCEPT !.before = before, !.after = after])

\* One pollutant of clean air rises by a unit.
Rise ==
  /\ sent # Nothing
  /\ \E k \in Pollutants \cap Fields(sent.format) :
       /\ sent.raw[k] + 1 < Unavailable(sent.format, k) /\ sent.raw[k] < PollutantMax
       /\ sent = Whole(sent.format, sent.raw, 0)
       /\ [sent.raw EXCEPT ![k] = 0] = Ordinary(sent.format)
       /\ Receive([sent EXCEPT !.raw[k] = @ + 1])

\* The measurement is handed on.
Done == sent # Nothing /\ sent' = Nothing /\ got' = Refused("none") /\ UNCHANGED extended

Next == Send \/ Cut \/ Carry \/ Rise \/ Done

Spec == Init /\ [][Next]_vars
-----------------------------------------------------------------------------
\* A temperature a sensor can have, no humidity above 100 %, no index above 500.
Bounded(k, n) ==
  /\ k = "temperature" => -8000 <= n /\ n <= 17000
  /\ k = "humidity" => 0 <= n /\ n <= 40000
  /\ k = "pressure" => 50000 <= n /\ n <= 115534
  /\ k = "air_quality_index" => n \in 0..500
  /\ k \in {"dew_point", "absolute_humidity", "air_density"} => n \in {"finite", "NaN"}
  /\ k \in UNION {Fields(f) : f \in Formats} => n \in Int /\ -32767 <= n /\ n <= 2 ^ 24

InRange(r) ==
  /\ r.error \in {"none", "length", "format", "temperature"}
  /\ r.error # "none" => r.values = <<>>
  /\ \A k \in DOMAIN r.values : Bounded(k, r.values[k])

\* What Parse returns stays in the range of its fields.
TypeOK ==
  /\ extended \in BOOLEAN
  /\ sent # Nothing => sent.raw \in [Fields(sent.format) -> Nat]
  /\ InRange(got)

Found == ToSet(sent.before) \cap {"padding", "broken"} = {}

Complete ==
  /\ sent # Nothing /\ Found
  /\ sent.size = Size[sent.format] /\ sent.raw.id = Id[sent.format]

TooHot(v) == v # 2 ^ 15 /\ Signed(v) \notin -8000..17000

\* A complete frame gives the value of every field as the sender meant it, whatever
\* the neighbouring fields hold, and leaves out exactly those that are not
\* available; only a temperature beyond what a sensor can have is refused, and in
\* format 6 left out.  The frame is found behind any structures but those that end
\* the search.  From a frame cut short no value is made up.
ReadsWhatWasSent ==
  /\ \A k \in DOMAIN got.values :
       k \in Fields(sent.format) => End(sent.format, k) <= 8 * sent.size
  /\ Complete =>
    LET f == sent.format
        hot == TooHot(sent.raw.temperature)
    IN  IF hot /\ f # "F6" THEN got.error = "temperature"
        ELSE /\ got.error = "none"
             /\ \A k \in Fields(f) \ {"id"} :
                  /\ (k \in DOMAIN got.values) =
                       ~(Missing(f, k, sent.raw[k]) \/ (k = "temperature" /\ hot))
                  /\ k \in DOMAIN got.values => got.values[k] = Meaning(k, sent.raw[k])

\* When one pollutant rises by a unit, the index stays or rises by one: nothing at
\* the joints of the segments makes worse air look better, or jumps.
AqiIsSmooth ==
  [][ (/\ sent # Nothing /\ sent'.format = sent.format /\ sent'.size = sent.size
       /\ \E k \in Pollutants \cap Fields(sent.format) :
            /\ sent'.raw = [sent.raw EXCEPT ![k] = @ + 1]
            /\ ~Missing(sent.format, k, sent'.raw[k])
       /\ "air_quality_index" \in DOMAIN got.values)
      => got'.values.air_quality_index - got.values.air_quality_index \in {0, 1} ]_vars

\* The format 6 frame of a Ruuvi Air and the E1 frame of the same air, of which the
\* bridge publishes one, say the same, but for zeros, which only E1 has: no value
\* differs, and the index is the same.
FormatsAgree ==
  sent.format = "F6" /\ Complete /\ ~TooHot(sent.raw.temperature) =>
    LET shared == Fields("F6") \ {"id", "sequence"}
        raw == [k \in Fields("E1") |-> IF k \in shared /\ ~Missing("F6", k, sent.raw[k])
                                         THEN sent.raw[k]
                                       ELSE IF k \in Pollutants THEN 0
                                       ELSE IF k \in shared THEN Unavailable("E1", k)
                                       ELSE Ordinary("E1")[k]]
        e1 == Parse(Frame(Whole("E1", raw, 0)), extended)
    IN  /\ \A k \in (DOMAIN got.values \ {"sequence"}) :
             k \in DOMAIN e1.values /\ e1.values[k] = got.values[k]
        /\ \A k \in DOMAIN e1.values \cap (shared \cup {"air_quality_index"}) :
             k \in DOMAIN got.values \/ e1.values[k] = 0

\* The values of a measurement that need a sensor, and the sensors announced: the
\* sequence number of E1 has none, rssi is not in the frame.
Valued(f, m) == DOMAIN m.values \ (IF f = "E1" THEN {"sequence"} ELSE {})
Announced(f) == {s.key : s \in {t \in Sensors : Applies(t, f)}} \ {"rssi"}

\* What is calculated from the fields.
Calculated(f) ==
  {"dew_point", "absolute_humidity", "air_density"}
  \cup (IF IsAir(f) THEN {"air_quality_index"} ELSE {})

MissesNothing ==
  Complete /\ got.error = "none" /\ Fields(sent.format) \subseteq {"id"} \cup DOMAIN got.values

\* Every value of a frame that misses nothing has a sensor, the sequence number of E1
\* excepted.  Every sensor announced for it has a value while extended_values is
\* set; otherwise those that are calculated, and no others, are announced for
\* nothing: PublishDiscovery does not look at extended_values.  No two sensors of a
\* device share an identity, so a device that sends both formats keeps both.
SensorsMatchValues ==
  /\ \A s, t \in Sensors : s.suffix = t.suffix => s = t
  /\ MissesNothing =>
       LET f == sent.format IN
         /\ Valued(f, got) \subseteq Announced(f)
         /\ Announced(f) \ Valued(f, got) = IF extended THEN {} ELSE Calculated(f)

\* What "sensors are automatically created" (README.md:234) lets a reader expect: a
\* sensor announced for a frame that misses nothing has its value.  Without
\* extended_values the calculated sensors refute it.
EverySensorHasValue == MissesNothing => Announced(sent.format) \subseteq Valued(sent.format, got)
=============================================================================
