------------------------ MODULE EncoderSettings_proofs ------------------------
(***************************************************************************)
(* What becomes of the settings over the life of an encoder, for any       *)
(* dictionaries, presets and answers of the driver.  What a call writes    *)
(* into init_params and encodeConfig is told field by field; what is in    *)
(* force, by the calls logged.                                             *)
(***************************************************************************)
EXTENDS EncoderSettings, WellFoundedInduction, SequenceTheorems, TLAPS

-----------------------------------------------------------------------------
(***************************************************************************)
(* What a text is parsed to.                                               *)
(***************************************************************************)
LEMMA MultiplierNat == \A suffix \in DOMAIN Multiplier : Multiplier[suffix] \in Nat
BY DEF Multiplier, Kilo

\* The value of a field does not matter unless the text is none of the field's.
Means(o, f) == Parsed(f, o[f], NotGiven) # NotGiven

LEMMA ParsedIsNamed ==
  ASSUME NEW o, WellFormed(o), NEW f \in NamedField, Given(o, f), NEW old
  PROVE  Parsed(f, o[f], old) = IF Means(o, f) THEN Parsed(f, o[f], NotGiven) ELSE old
<1> DEFINE v == o[f]
<1>0. v # NotGiven
  BY DEF Given
<1>1. CASE f \in {"bitrate", "maxbitrate", "vbvbufsize", "vbvinit"}
  <2>1. v.number \in Nat /\ Multiplier[v.suffix] \in Nat /\ Word \in Nat \ {0}
    BY <1>1, MultiplierNat, ClInterfaceAssumption DEF WellFormed
  <2> DEFINE number == v.number
             times == Multiplier[v.suffix]
  <2>2. number * times \in Nat /\ Word \in Nat \ {0}
    <3>1. \A a, b \in Nat : a * b \in Nat
      OBVIOUS
    <3> QED BY <2>1, <3>1
  <2>3. (number * times) % Word \in Nat
    <3> DEFINE product == number * times
    <3> HIDE DEF product
    <3>1. product % Word \in Nat
      BY <2>2 DEF product
    <3> QED BY <3>1 DEF product
  <2>4. ParseBitrate(v) # NotGiven
    BY <2>3, TextsAssumption DEF ParseBitrate
  <2>5. \A x : Parsed(f, v, x) = ParseBitrate(v)
    BY <1>1 DEF Parsed
  <2> QED BY <2>4, <2>5 DEF Means
<1>2. CASE f \in {"initqp", "qmin", "qmax", "constqp"}
  <2>1. v \in Seq(Nat)
    BY <1>2 DEF WellFormed
  <2>2. \A x : Parsed(f, v, x) = ParseQpMode(v, x)
    BY <1>2 DEF Parsed
  <2>3. CASE Len(v) = 1
    <3>1. v[1] \in Nat
      BY <2>1, <2>3
    <3>2. \A a \in Nat : <<a, a, a>> \in Seq(Nat)
      OBVIOUS
    <3>3. <<v[1], v[1], v[1]>> # NotGiven
      BY <3>1, <3>2, TextsAssumption
    <3>4. \A x : ParseQpMode(v, x) = <<v[1], v[1], v[1]>>
      BY <2>3 DEF ParseQpMode
    <3> QED BY <2>2, <3>3, <3>4, Zenon DEF Means
  <2>4. CASE Len(v) = 3
    <3>1. \A x : ParseQpMode(v, x) = v
      BY <2>4 DEF ParseQpMode
    <3> QED BY <1>0, <2>2, <3>1, Zenon DEF Means
  <2>5. CASE Len(v) \notin {1, 3}
    <3>1. \A x : ParseQpMode(v, x) = x
      BY <2>5 DEF ParseQpMode
    <3> QED BY <2>2, <3>1, Zenon DEF Means
  <2> QED BY <2>3, <2>4, <2>5
<1>3. CASE f \in {"numrefl0", "numrefl1"}
  <2>1. \A x : Parsed(f, v, x) = IF v \in 1 .. 6 THEN v ELSE x
    BY <1>3 DEF Parsed, ParseNumRefFrames
  <2> QED BY <1>0, <2>1 DEF Means
<1>4. CASE f \in {"temporalaq", "ldkfs"}
  <2>1. \A x : Parsed(f, v, x) = 1
    BY <1>4 DEF Parsed
  <2> QED BY <2>1, TextsAssumption DEF Means
<1>5. CASE f \in {"bf", "gop", "lookahead", "aq", "cq", "repeatspspps"}
  <2>1. \A x : Parsed(f, v, x) = v
    BY <1>5 DEF Parsed
  <2> QED BY <1>0, <2>1 DEF Means
<1>6. CASE f = "rc"
  <2>1. \A x : Parsed(f, v, x) = FindRcMode(v)
    BY <1>6 DEF Parsed
  <2>2. FindRcMode(v) # NotGiven
    BY TextsAssumption DEF FindRcMode, RcMode
  <2> QED BY <2>1, <2>2 DEF Means
<1>7. CASE f = "multipass"
  <2>1. \A x : Parsed(f, v, x) = MultiPass(v)
    BY <1>7 DEF Parsed
  <2>2. MultiPass(v) # NotGiven
    BY TextsAssumption DEF MultiPass
  <2> QED BY <2>1, <2>2 DEF Means
<1>8. f \in {"bitrate", "maxbitrate", "vbvbufsize", "vbvinit", "initqp", "qmin", "qmax",
            "constqp", "numrefl0", "numrefl1", "temporalaq", "ldkfs", "bf", "gop",
            "lookahead", "aq", "cq", "repeatspspps", "rc", "multipass"}
  BY DEF NamedField, ConfigField, RateControlParam, CodecParam
<1> QED BY <1>1, <1>2, <1>3, <1>4, <1>5, <1>6, <1>7, <1>8

-----------------------------------------------------------------------------
(***************************************************************************)
(* What SetupEncConfig writes.                                             *)
(***************************************************************************)
LEMMA ResetAt ==
  ASSUME NEW c, NEW values
  PROVE  /\ DOMAIN Reset(c, values) = DOMAIN c
         /\ \A f \in DOMAIN c :
              Reset(c, values)[f] = IF f \in DOMAIN values THEN values[f] ELSE c[f]
BY DEF Reset

LEMMA NamedAt ==
  ASSUME NEW c, NEW o, NEW names
  PROVE  /\ DOMAIN Named(c, o, names) = DOMAIN c
         /\ \A f \in DOMAIN c :
              Named(c, o, names)[f] =
                IF f \in names /\ Given(o, f) THEN Parsed(f, o[f], c[f]) ELSE c[f]
BY DEF Named

\* The value that a call finds, or sets, before it looks for the option.
Start(c, o, r, f) == IF r THEN c[f] ELSE CreationDefault(o, f)
Takes(o, f, old) == IF AsksFor(o, f) THEN AskedFor(o, f) ELSE old
Asked(c, o, r, f) == Takes(o, f, Start(c, o, r, f))

LEMMA RateControlAt ==
  ASSUME NEW c, DOMAIN c = ConfigField, NEW o, WellFormed(o), NEW r \in BOOLEAN
  PROVE  /\ DOMAIN SetupRateControl(c, o, r) = ConfigField
         /\ \A f \in RateControlParam : SetupRateControl(c, o, r)[f] = Asked(c, o, r, f)
         /\ \A f \in ConfigField \ RateControlParam : SetupRateControl(c, o, r)[f] = c[f]
<1> DEFINE start == RateControlStart(c, o, r)
           mode == BitrateMode(start, o)
           named == Named(mode, o, RateControlParam)
           set == SetupRateControl(c, o, r)
           byBitrate == {"rc", "multipass", "ldkfs"}
           cleared == {"bitrate", "maxbitrate"}
<1>f. /\ RateControlParam \subseteq ConfigField /\ RateControlParam \subseteq NamedField
      /\ byBitrate \subseteq RateControlParam /\ cleared \subseteq RateControlParam
      /\ byBitrate \cap cleared = {}
  BY DEF RateControlParam, ConfigField, NamedField
<1>1. /\ DOMAIN start = ConfigField
      /\ \A f \in RateControlParam : start[f] = Start(c, o, r, f)
      /\ \A f \in ConfigField \ RateControlParam : start[f] = c[f]
  <2>1. CASE r
    BY <2>1 DEF RateControlStart, Start, ConfigField
  <2>2. CASE ~r
    <3>1. start = Reset(c, RateControlDefault(o))
      BY <2>2 DEF RateControlStart
    <3>2. DOMAIN RateControlDefault(o) = RateControlParam
      BY DEF RateControlDefault
    <3>3. \A f \in RateControlParam : CreationDefault(o, f) = RateControlDefault(o)[f]
      BY DEF CreationDefault, RateControlParam
    <3> HIDE DEF start
    <3> QED BY <1>f, <2>2, <3>1, <3>2, <3>3, ResetAt DEF Start
  <2> QED BY <2>1, <2>2
<1> HIDE DEF start
\* What a bit rate brings.
<1> DEFINE brought(f) ==
             IF f = "rc" /\ BitrateSetsMode(o) THEN "cbr"
             ELSE IF f = "multipass" /\ BitrateSetsMode(o) /\ IsSdkPreset(o) THEN "qres"
             ELSE IF f = "ldkfs" /\ BitrateSetsMode(o) /\ IsSdkPreset(o) THEN 1
             ELSE start[f]
<1>2. /\ DOMAIN mode = ConfigField
      /\ \A f \in ConfigField : mode[f] = brought(f)
  <2> DEFINE three == [rc |-> "cbr", multipass |-> "qres", ldkfs |-> 1]
             one == [rc |-> "cbr"]
  <2>1. /\ DOMAIN three = byBitrate /\ DOMAIN one = {"rc"} /\ one["rc"] = "cbr"
        /\ three["rc"] = "cbr" /\ three["multipass"] = "qres" /\ three["ldkfs"] = 1
    OBVIOUS
  <2>2. mode = IF ~BitrateSetsMode(o) THEN start
               ELSE IF IsSdkPreset(o) THEN Reset(start, three) ELSE Reset(start, one)
    BY DEF BitrateMode, BitrateSetsMode
  <2> HIDE DEF mode, three, one
  <2>3. CASE ~BitrateSetsMode(o)
    BY <1>1, <2>2, <2>3
  <2>4. CASE BitrateSetsMode(o) /\ IsSdkPreset(o)
    BY <1>1, <2>1, <2>2, <2>4, ResetAt
  <2>5. CASE BitrateSetsMode(o) /\ ~IsSdkPreset(o)
    BY <1>1, <2>1, <2>2, <2>5, ResetAt
  <2> QED BY <2>3, <2>4, <2>5
<1> HIDE DEF mode
<1>3. /\ DOMAIN named = ConfigField
      /\ \A f \in ConfigField : named[f] =
           IF f \in RateControlParam /\ Given(o, f) THEN Parsed(f, o[f], mode[f]) ELSE mode[f]
  BY <1>2, NamedAt
<1> HIDE DEF named
<1>4. /\ DOMAIN set = ConfigField
      /\ \A f \in ConfigField : set[f] =
           IF f \in cleared /\ Given(o, "cq") THEN 0 ELSE named[f]
  <2> DEFINE zeros == [bitrate |-> 0, maxbitrate |-> 0]
  <2>1. set = IF Given(o, "cq") THEN Reset(named, zeros) ELSE named
    BY DEF SetupRateControl, named, mode, start
  <2>2. DOMAIN zeros = cleared /\ zeros["bitrate"] = 0 /\ zeros["maxbitrate"] = 0
    OBVIOUS
  <2> HIDE DEF set, zeros
  <2> QED BY <1>3, <2>1, <2>2, ResetAt
<1> HIDE DEF set
<1>5. ASSUME NEW f \in ConfigField \ RateControlParam PROVE set[f] = c[f]
  <2>1. f \notin byBitrate /\ f \notin cleared
    BY <1>f, <1>5
  <2> QED BY <1>1, <1>2, <1>3, <1>4, <2>1
<1>6. ASSUME NEW f \in RateControlParam PROVE set[f] = Asked(c, o, r, f)
  <2>0. /\ f \in ConfigField /\ f \in NamedField /\ start[f] = Start(c, o, r, f)
        /\ 0 # NotGiven /\ 1 # NotGiven /\ "cbr" # NotGiven /\ "qres" # NotGiven
    BY <1>f, <1>1, TextsAssumption DEF RcMode
  <2>1. CASE f \in cleared /\ Given(o, "cq")
    <3>1. AskedFor(o, f) = 0
      BY <2>1 DEF AskedFor
    <3> QED BY <1>4, <2>0, <2>1, <3>1 DEF Asked, Takes, AsksFor
  <2>2. CASE ~(f \in cleared /\ Given(o, "cq")) /\ Given(o, f)
    <3>1. AskedFor(o, f) = Parsed(f, o[f], NotGiven)
      BY <2>2 DEF AskedFor
    <3>2. set[f] = Parsed(f, o[f], mode[f])
      BY <1>3, <1>4, <2>0, <2>2
    <3>3. set[f] = IF Means(o, f) THEN Parsed(f, o[f], NotGiven) ELSE mode[f]
      BY <2>0, <2>2, <3>2, ParsedIsNamed
    <3>4. f \in byBitrate => Means(o, f)
      BY <2>0, TextsAssumption DEF Means, Parsed, FindRcMode, MultiPass, RcMode
    <3>5. f \notin byBitrate => mode[f] = start[f]
      BY <1>2, <2>0
    <3> QED BY <2>0, <3>1, <3>3, <3>4, <3>5 DEF Asked, Takes, AsksFor, Means
  <2>3. CASE ~(f \in cleared /\ Given(o, "cq")) /\ ~Given(o, f)
    <3>1. set[f] = brought(f)
      BY <1>2, <1>3, <1>4, <2>0, <2>3
    <3>2. CASE f = "rc" /\ BitrateSetsMode(o)
      <4>1. AskedFor(o, f) = "cbr"
        BY <2>3, <3>2 DEF AskedFor
      <4> QED BY <2>0, <3>1, <3>2, <4>1 DEF Asked, Takes, AsksFor
    <3>3. CASE f = "multipass" /\ BitrateSetsMode(o) /\ IsSdkPreset(o)
      <4>1. AskedFor(o, f) = "qres"
        BY <2>3, <3>3 DEF AskedFor
      <4> QED BY <2>0, <3>1, <3>3, <4>1 DEF Asked, Takes, AsksFor
    <3>4. CASE f = "ldkfs" /\ BitrateSetsMode(o) /\ IsSdkPreset(o)
      <4>1. AskedFor(o, f) = 1
        BY <2>3, <3>4 DEF AskedFor
      <4> QED BY <2>0, <3>1, <3>4, <4>1 DEF Asked, Takes, AsksFor
    <3>5. CASE /\ ~(f = "rc" /\ BitrateSetsMode(o))
               /\ ~(f = "multipass" /\ BitrateSetsMode(o) /\ IsSdkPreset(o))
               /\ ~(f = "ldkfs" /\ BitrateSetsMode(o) /\ IsSdkPreset(o))
      <4>1. AskedFor(o, f) = NotGiven
        BY <2>3, <3>5 DEF AskedFor
      <4>2. set[f] = start[f]
        BY <3>1, <3>5
      <4> QED BY <2>0, <4>1, <4>2 DEF Asked, Takes, AsksFor
    <3> QED BY <3>2, <3>3, <3>4, <3>5
  <2> QED BY <2>1, <2>2, <2>3
<1> QED BY <1>4, <1>5, <1>6 DEF set

\* The fields of 4:4:4 and 10 bit input.
FormatField == {"chroma", "depth"}
FormatStart(c, r, f) == IF r THEN c[f] ELSE CodecDefault[f]
NamesNoFormat(o) == ~Given(o, "fmt") \/ o.fmt \notin DOMAIN HevcFields

\* A call that names no format keeps the fields; one that names the format of
\* the surfaces makes them suit.
FormatWritten(c, codec, o, r, n) ==
  /\ NamesNoFormat(o) => \A f \in FormatField : n[f] = FormatStart(c, r, f)
  /\ Given(o, "fmt") /\ codec \in Codec /\ (codec = "h264" => ~Is10Bit(o.fmt)) =>
       Suits(o.fmt, codec, n)

SetupCodec(c, codec, o, r) ==
  IF codec = "h264" THEN SetupH264Config(c, o, r) ELSE SetupHEVCConfig(c, o, r)

LEMMA FieldsOfFormats ==
  /\ DOMAIN HevcFields = {"YUV444", "YUV444_10bit", "YUV420_10bit"}
  /\ DOMAIN HevcFields["YUV444"] = {"chroma"}
  /\ HevcFields["YUV444"].chroma = 3
  /\ DOMAIN HevcFields["YUV444_10bit"] = FormatField
  /\ HevcFields["YUV444_10bit"].chroma = 3 /\ HevcFields["YUV444_10bit"].depth = 2
  /\ DOMAIN HevcFields["YUV420_10bit"] = FormatField
  /\ HevcFields["YUV420_10bit"].chroma = 1 /\ HevcFields["YUV420_10bit"].depth = 2
BY DEF HevcFields, FormatField

LEMMA CodecAt ==
  ASSUME NEW c, DOMAIN c = ConfigField, NEW codec, NEW o, WellFormed(o), NEW r \in BOOLEAN
  PROVE  LET n == SetupCodec(c, codec, o, r)
         IN /\ DOMAIN n = ConfigField
            /\ \A f \in CodecParam \cap NamedField : n[f] = Asked(c, o, r, f)
            /\ n.idrperiod = IF Given(o, "idrperiod") THEN o.idrperiod ELSE c.gop
            /\ \A f \in ConfigField \ (CodecParam \cup FormatField) : n[f] = c[f]
            /\ FormatWritten(c, codec, o, r, n)
<1> DEFINE start == Reset(CodecStart(c, r), [idrperiod |-> c.gop])
           format == IF codec = "h264" THEN H264Format(start, o) ELSE HevcFormat(start, o)
           n == SetupCodec(c, codec, o, r)
<1>f. /\ FormatField \subseteq ConfigField /\ CodecParam \subseteq ConfigField
      /\ "idrperiod" \in CodecParam /\ CodecParam \cap FormatField = {}
      /\ "idrperiod" \notin NamedField
      /\ "chroma" \in FormatField /\ "depth" \in FormatField
  BY DEF FormatField, ConfigField, CodecParam, NamedField
<1>1. /\ DOMAIN start = ConfigField
      /\ start.idrperiod = c.gop
      /\ \A f \in CodecParam \cap NamedField : start[f] = Start(c, o, r, f)
      /\ \A f \in ConfigField \ (CodecParam \cup FormatField) : start[f] = c[f]
      /\ \A f \in FormatField : start[f] = FormatStart(c, r, f)
  <2> DEFINE begun == CodecStart(c, r)
  <2>1. /\ DOMAIN begun = ConfigField
        /\ \A f \in CodecParam \cap NamedField : begun[f] = Start(c, o, r, f)
        /\ \A f \in ConfigField \ (CodecParam \cup FormatField) : begun[f] = c[f]
        /\ \A f \in FormatField : begun[f] = FormatStart(c, r, f)
    <3>1. CASE r
      BY <3>1, <1>f DEF CodecStart, Start, FormatStart
    <3>2. CASE ~r
      <4> DEFINE zeros == [f \in CodecParam |-> 0]
                 cleared == Reset(c, zeros)
      <4>1. begun = Reset(cleared, CodecDefault)
        BY <3>2 DEF CodecStart
      <4>2. DOMAIN zeros = CodecParam /\ \A f \in CodecParam : zeros[f] = 0
        OBVIOUS
      <4>3. DOMAIN CodecDefault = FormatField
        BY DEF CodecDefault, FormatField
      <4>4. \A f \in CodecParam \cap NamedField : CreationDefault(o, f) = 0
        BY DEF CreationDefault, CodecParam, RateControlParam
      <4> HIDE DEF zeros, begun
      <4>5. /\ DOMAIN cleared = ConfigField
            /\ \A f \in CodecParam : cleared[f] = 0
            /\ \A f \in ConfigField \ CodecParam : cleared[f] = c[f]
        BY <4>2, <1>f, ResetAt
      <4> HIDE DEF cleared
      <4> QED BY <3>2, <4>1, <4>3, <4>4, <4>5, <1>f, ResetAt DEF Start, FormatStart
    <3> QED BY <3>1, <3>2
  <2> DEFINE period == [idrperiod |-> c.gop]
  <2>2. DOMAIN period = {"idrperiod"} /\ period["idrperiod"] = c.gop
    OBVIOUS
  <2>3. start = Reset(begun, period)
    OBVIOUS
  <2> HIDE DEF begun, start, period
  <2> QED BY <2>1, <2>2, <2>3, <1>f, ResetAt
<1> HIDE DEF start
<1>2. /\ DOMAIN format = ConfigField
      /\ \A f \in ConfigField \ FormatField : format[f] = start[f]
      /\ FormatWritten(c, codec, o, r, format)
  <2>0. CASE NamesNoFormat(o)
    <3>1. format = start
      BY <2>0, FieldsOfFormats DEF NamesNoFormat, H264Format, HevcFormat
    <3>2. Given(o, "fmt") /\ codec \in Codec => Suits(o.fmt, codec, start)
      BY <2>0, FieldsOfFormats DEF NamesNoFormat, Suits, Is10Bit, Is444
    <3> HIDE DEF format
    <3> QED BY <1>1, <3>1, <3>2 DEF FormatWritten
  <2>1. CASE Given(o, "fmt") /\ o.fmt = "YUV444"
    <3>1. DOMAIN [chroma |-> 3] = {"chroma"} /\ [chroma |-> 3].chroma = 3
      OBVIOUS
    <3>2. format = Reset(start, [chroma |-> 3]) \/ format = Reset(start, HevcFields["YUV444"])
      BY <2>1, FieldsOfFormats DEF H264Format, HevcFormat
    <3> HIDE DEF format
    <3>3. /\ DOMAIN format = ConfigField /\ format.chroma = 3
          /\ \A f \in ConfigField \ FormatField : format[f] = start[f]
      BY <1>1, <1>f, <3>1, <3>2, ResetAt, FieldsOfFormats
    <3> QED BY <2>1, <3>3, FieldsOfFormats DEF FormatWritten, NamesNoFormat, Suits, Is10Bit, Is444
  <2>2. CASE Given(o, "fmt") /\ o.fmt \in {"YUV444_10bit", "YUV420_10bit"}
    <3>1. CASE codec = "h264"
      <4>1. format = start
        BY <2>2, <3>1 DEF H264Format
      <4> HIDE DEF format
      <4> QED BY <1>1, <2>2, <3>1, <4>1, FieldsOfFormats DEF FormatWritten, NamesNoFormat, Is10Bit
    <3>2. CASE codec # "h264"
      <4>1. format = Reset(start, HevcFields[o.fmt])
        BY <2>2, <3>2, FieldsOfFormats DEF HevcFormat
      <4> HIDE DEF format
      <4>2. /\ DOMAIN format = ConfigField /\ format.depth = 2
            /\ o.fmt = "YUV444_10bit" => format.chroma = 3
            /\ \A f \in ConfigField \ FormatField : format[f] = start[f]
        BY <1>1, <1>f, <2>2, <4>1, ResetAt, FieldsOfFormats
      <4> QED BY <2>2, <3>2, <4>2, FieldsOfFormats
                 DEF FormatWritten, NamesNoFormat, Suits, Is10Bit, Is444
    <3> QED BY <3>1, <3>2
  <2> QED BY <2>0, <2>1, <2>2, FieldsOfFormats DEF NamesNoFormat
<1>3. n = Named(format, o, CodecParam)
  BY DEF SetupCodec, SetupH264Config, SetupHEVCConfig, start
<1> HIDE DEF format, n
<1>4. /\ DOMAIN n = ConfigField
      /\ \A f \in ConfigField : n[f] =
           IF f \in CodecParam /\ Given(o, f) THEN Parsed(f, o[f], format[f]) ELSE format[f]
  BY <1>2, <1>3, NamedAt
<1>5. ASSUME NEW f \in CodecParam \cap NamedField PROVE n[f] = Asked(c, o, r, f)
  <2>1. format[f] = Start(c, o, r, f) /\ f \in ConfigField
    BY <1>1, <1>2, <1>f
  <2>2. f \in {"repeatspspps", "numrefl0", "numrefl1"}
    BY <1>f DEF CodecParam
  <2>3. AskedFor(o, f) = IF Given(o, f) THEN Parsed(f, o[f], NotGiven) ELSE NotGiven
    BY <2>2 DEF AskedFor
  <2>4. CASE Given(o, f)
    <3>1. n[f] = Parsed(f, o[f], format[f])
      BY <1>4, <2>1, <2>4
    <3>2. n[f] = IF Means(o, f) THEN Parsed(f, o[f], NotGiven) ELSE format[f]
      BY <2>4, <3>1, ParsedIsNamed
    <3> QED BY <2>1, <2>3, <2>4, <3>2 DEF Asked, Takes, AsksFor, Means
  <2>5. CASE ~Given(o, f)
    BY <1>4, <2>1, <2>3, <2>5 DEF Asked, Takes, AsksFor
  <2> QED BY <2>4, <2>5
<1>8. n.idrperiod = IF Given(o, "idrperiod") THEN o.idrperiod ELSE c.gop
  <2>1. \A old : Parsed("idrperiod", o["idrperiod"], old) = o["idrperiod"]
    BY DEF Parsed
  <2> QED BY <1>1, <1>2, <1>4, <1>f, <2>1
<1>6. \A f \in ConfigField \ (CodecParam \cup FormatField) : n[f] = c[f]
  BY <1>1, <1>2, <1>4
<1>7. FormatWritten(c, codec, o, r, n)
  <2>1. n.chroma = format.chroma /\ n.depth = format.depth
        /\ \A f \in FormatField : n[f] = format[f]
    BY <1>4, <1>f
  <2>2. \A e : Suits(e, codec, format) => Suits(e, codec, n)
    BY <2>1 DEF Suits
  <2> QED BY <1>2, <2>1, <2>2 DEF FormatWritten
<1> QED BY <1>4, <1>5, <1>6, <1>7, <1>8 DEF n

\* The period of IDR frames a call leaves is the one it names, or the GOP.
FollowsGop(o, n) ==
  n.idrperiod = IF Given(o, "idrperiod") THEN o.idrperiod ELSE n.gop

LEMMA ConfigAt ==
  ASSUME NEW c, DOMAIN c = ConfigField, NEW codec, NEW o, WellFormed(o), NEW r \in BOOLEAN
  PROVE  LET n == SetupEncConfig(c, codec, o, r)
         IN /\ DOMAIN n = ConfigField
            /\ \A f \in NamedField : n[f] = Asked(c, o, r, f)
            /\ FollowsGop(o, n)
            /\ FormatWritten(c, codec, o, r, n)
<1> DEFINE forced == [bf |-> 1, gop |-> InfiniteGop, profile |-> ProfileGuid[Profile(o)]]
           start == IF r THEN c ELSE Reset(c, forced)
           named == Named(start, o, {"bf", "gop"})
           rate == SetupRateControl(named, o, r)
           set == SetupCodec(rate, codec, o, r)
           n == SetupEncConfig(c, codec, o, r)
           rest == NamedField \ {"bf", "gop"}
<1>f. /\ {"bf", "gop"} \subseteq ConfigField \ (RateControlParam \cup CodecParam \cup FormatField)
      /\ FormatField \subseteq ConfigField \ (RateControlParam \cup CodecParam)
      /\ NamedField = {"bf", "gop"} \cup RateControlParam \cup (CodecParam \cap NamedField)
      /\ "idrperiod" \in ConfigField \ NamedField
      /\ RateControlParam \subseteq ConfigField \ (CodecParam \cup FormatField)
      /\ CodecParam \subseteq ConfigField \ RateControlParam
      /\ "profile" \notin NamedField \cup FormatField
      /\ "bf" \notin rest /\ "gop" \notin rest
  BY DEF NamedField, ConfigField, RateControlParam, CodecParam, FormatField
<1>1. /\ DOMAIN start = ConfigField
      /\ \A f \in {"bf", "gop"} : start[f] = Start(c, o, r, f)
      /\ \A f \in ConfigField \ {"bf", "gop", "profile"} : start[f] = c[f]
  <2>1. CASE r
    BY <2>1 DEF Start
  <2>2. CASE ~r
    <3>1. /\ DOMAIN forced = {"bf", "gop", "profile"}
          /\ forced["bf"] = 1 /\ forced["gop"] = InfiniteGop
      OBVIOUS
    <3>2. CreationDefault(o, "bf") = 1 /\ CreationDefault(o, "gop") = InfiniteGop
      BY DEF CreationDefault, RateControlParam
    <3>3. start = Reset(c, forced)
      BY <2>2
    <3> HIDE DEF forced, start
    <3> QED BY <2>2, <3>1, <3>2, <3>3, <1>f, ResetAt DEF Start
  <2> QED BY <2>1, <2>2
<1> HIDE DEF start
<1>2. /\ DOMAIN named = ConfigField
      /\ \A f \in {"bf", "gop"} : named[f] = Asked(c, o, r, f)
      /\ \A f \in ConfigField \ {"bf", "gop", "profile"} : named[f] = c[f]
  <2>1. \A f \in {"bf", "gop"} :
          /\ \A old : Parsed(f, o[f], old) = o[f]
          /\ AskedFor(o, f) = IF Given(o, f) THEN o[f] ELSE NotGiven
          /\ Given(o, f) => o[f] # NotGiven
    BY DEF Parsed, AskedFor, Given
  <2>2. /\ DOMAIN named = ConfigField
        /\ \A f \in ConfigField : named[f] =
             IF f \in {"bf", "gop"} /\ Given(o, f) THEN Parsed(f, o[f], start[f]) ELSE start[f]
    BY <1>1, NamedAt
  <2> HIDE DEF named
  <2> QED BY <1>1, <1>f, <2>1, <2>2 DEF Asked, Takes, AsksFor
<1> HIDE DEF named
<1>3. /\ DOMAIN rate = ConfigField
      /\ \A f \in RateControlParam : rate[f] = Asked(named, o, r, f)
      /\ \A f \in ConfigField \ RateControlParam : rate[f] = named[f]
  BY <1>2, RateControlAt
<1> HIDE DEF rate
<1>4. /\ DOMAIN set = ConfigField
      /\ \A f \in CodecParam \cap NamedField : set[f] = Asked(rate, o, r, f)
      /\ set.idrperiod = IF Given(o, "idrperiod") THEN o.idrperiod ELSE rate.gop
      /\ \A f \in ConfigField \ (CodecParam \cup FormatField) : set[f] = rate[f]
      /\ FormatWritten(rate, codec, o, r, set)
  BY <1>3, CodecAt
<1> HIDE DEF set
<1>5. \A f \in NamedField : set[f] = Asked(c, o, r, f)
  <2>1. ASSUME NEW f \in {"bf", "gop"} PROVE set[f] = Asked(c, o, r, f)
    BY <1>2, <1>3, <1>4, <1>f
  <2>2. ASSUME NEW f \in RateControlParam PROVE set[f] = Asked(c, o, r, f)
    <3>1. named[f] = c[f]
      BY <1>2, <1>f DEF RateControlParam, RateControlParam, NamedField
    <3> QED BY <1>3, <1>4, <1>f, <3>1 DEF Asked, Takes, Start
  <2>3. ASSUME NEW f \in CodecParam \cap NamedField PROVE set[f] = Asked(c, o, r, f)
    <3>1. rate[f] = c[f]
      BY <1>2, <1>3, <1>f DEF CodecParam, NamedField
    <3> QED BY <1>4, <3>1 DEF Asked, Takes, Start
  <2> QED BY <2>1, <2>2, <2>3, <1>f
<1>6. FormatWritten(c, codec, o, r, set)
  <2>1. \A f \in FormatField : rate[f] = c[f]
    BY <1>2, <1>3, <1>f
  <2> QED BY <1>4, <2>1 DEF FormatWritten, FormatStart
<1>7. /\ DOMAIN n = ConfigField
      /\ \A f \in ConfigField \ {"profile"} : n[f] = set[f]
  <2>1. n = ForcedProfile(set, codec, o)
    BY DEF SetupEncConfig, SetupCodec, set, rate, named, start
  <2>2. \/ n = set
        \/ n = Reset(set, [profile |-> "high_444"])
        \/ n = Reset(set, [profile |-> "frext"])
    BY <2>1 DEF ForcedProfile
  <2>3. \A v : DOMAIN [profile |-> v] = {"profile"}
    OBVIOUS
  <2> HIDE DEF n
  <2> QED BY <1>4, <2>2, <2>3, ResetAt
<1>8. \A f \in NamedField \cup FormatField : n[f] = set[f]
  BY <1>7, <1>f DEF ConfigField, NamedField, FormatField, RateControlParam, CodecParam
<1> HIDE DEF n
<1>9. FormatWritten(c, codec, o, r, n)
  <2>1. \A f \in FormatField : n[f] = set[f]
    BY <1>8
  <2>2. n.chroma = set.chroma /\ n.depth = set.depth
    BY <2>1 DEF FormatField
  <2>3. \A e : Suits(e, codec, set) => Suits(e, codec, n)
    BY <2>2 DEF Suits
  <2> QED BY <1>6, <2>1, <2>3 DEF FormatWritten
<1>10. FollowsGop(o, n)
  <2>1. n["idrperiod"] = set["idrperiod"] /\ n["gop"] = set["gop"]
    BY <1>7, <1>f DEF ConfigField, CodecParam
  <2>2. set["gop"] = rate["gop"]
    BY <1>4, <1>f
  <2> QED BY <1>4, <2>1, <2>2 DEF FollowsGop
<1> QED BY <1>5, <1>7, <1>8, <1>9, <1>10 DEF n

-----------------------------------------------------------------------------
(***************************************************************************)
(* The largest of a set of numbers.                                        *)
(***************************************************************************)
LEMMA GreatestNumber ==
  ASSUME NEW n \in Nat, NEW S \in SUBSET (0 .. n), S # {}
  PROVE  Max(S) \in S /\ \A y \in S : Max(S) >= y
<1> DEFINE T == {x \in Nat : n - x \in S}
<1>0. \A x \in S : x \in Nat /\ n - x \in Nat /\ n - (n - x) = x
  <2>1. \A x \in 0 .. n : x \in Nat /\ n - x \in Nat /\ n - (n - x) = x
    OBVIOUS
  <2> QED BY <2>1
<1>1. T \subseteq Nat /\ T # {}
  BY <1>0
<1>2. \E x \in T : \A y \in T : ~(<<y, x>> \in OpToRel(<, Nat))
  BY <1>1, NatLessThanWellFounded, WFMin, Zenon
<1>3. \E x \in T : \A y \in T : ~(y < x)
  BY <1>1, <1>2 DEF OpToRel
<1>4. \E x \in S : \A y \in S : x >= y
  <2>1. PICK x \in T : \A y \in T : ~(y < x)
    BY <1>3
  <2>2. x \in Nat /\ n - x \in S
    OBVIOUS
  <2>3. ASSUME NEW y \in S PROVE n - x >= y
    <3>1. y \in Nat /\ n - y \in Nat /\ n - y \in T
      BY <1>0
    <3>2. ~(n - y < x)
      BY <2>1, <3>1
    <3> QED BY <2>2, <3>1, <3>2
  <2> QED BY <2>2, <2>3
<1> QED BY <1>4, Zenon DEF Max

LEMMA MaxIs ==
  ASSUME NEW n \in Nat, NEW S \in SUBSET (0 .. n), NEW x \in S, \A y \in S : y <= x
  PROVE  Max(S) = x
<1>1. Max(S) \in S /\ x \in 0 .. n /\ Max(S) \in 0 .. n
  BY GreatestNumber
<1>2. \A y \in S : Max(S) >= y
  BY GreatestNumber
<1> QED BY <1>1, <1>2

-----------------------------------------------------------------------------
(***************************************************************************)
(* The log.  The calls that reached the driver are those that wrote into   *)
(* encodeConfig; when it accepts one, the calls so far are applied.        *)
(***************************************************************************)
Dictionary == CallOptions \cup {WithFormat(o, f) : o \in CtorOptions, f \in Format}
Change == [options : Dictionary, outcome : {"accepted", "refused", "thrown"}]

AcceptedIn(l) == {i \in DOMAIN l : l[i].outcome = "accepted"}
AppliedIn(l) == {i \in DOMAIN l : i <= Max(AcceptedIn(l)) /\ l[i].outcome # "thrown"}
ReachedIn(l) == {i \in DOMAIN l : l[i].outcome # "thrown"}

\* m is the log l with one more call.
Extends(l, m, e) ==
  /\ DOMAIN l = 1 .. Len(l) /\ Len(l) \in Nat \ {0}
  /\ DOMAIN m = 1 .. Len(l) + 1
  /\ \A i \in DOMAIN l : m[i] = l[i]
  /\ m[Len(l) + 1] = e

LEMMA AppendExtends ==
  ASSUME NEW l \in Seq(Change), l # <<>>, NEW e \in Change
  PROVE  Extends(l, Append(l, e), e)
<1>1. Len(l) \in Nat /\ Len(l) # 0 /\ DOMAIN l = 1 .. Len(l)
  BY EmptySeq, LenProperties
<1>2. /\ Len(Append(l, e)) = Len(l) + 1 /\ Append(l, e) \in Seq(Change)
      /\ \A i \in 1 .. Len(l) : Append(l, e)[i] = l[i]
      /\ Append(l, e)[Len(l) + 1] = e
  BY AppendProperties
<1>3. DOMAIN Append(l, e) = 1 .. Len(l) + 1
  BY <1>2, LenProperties
<1> QED BY <1>1, <1>2, <1>3 DEF Extends

LEMMA CallsApplied ==
  ASSUME NEW l, NEW m, NEW e, Extends(l, m, e), 1 \in AcceptedIn(l)
  PROVE  /\ ReachedIn(m) = ReachedIn(l) \cup (IF e.outcome = "thrown" THEN {} ELSE {Len(l) + 1})
         /\ e.outcome = "accepted" => AppliedIn(m) = ReachedIn(m)
         /\ e.outcome # "accepted" => AppliedIn(m) = AppliedIn(l)
         /\ 1 \in AcceptedIn(m)
<1> DEFINE n == Len(l) + 1
<1>0. /\ DOMAIN l = 1 .. Len(l) /\ Len(l) \in Nat /\ DOMAIN m = 1 .. n
      /\ \A i \in DOMAIN l : m[i] = l[i]
      /\ m[n] = e
  BY DEF Extends
<1>1. /\ \A i \in 1 .. n : i \in 1 .. Len(l) \/ i = n
      /\ \A i \in 1 .. Len(l) : i \in 1 .. n /\ i # n /\ i <= n
      /\ n \in 1 .. n /\ n \in Nat
  BY <1>0
<1>2. ReachedIn(m) = ReachedIn(l) \cup (IF e.outcome = "thrown" THEN {} ELSE {n})
  BY <1>0, <1>1 DEF ReachedIn
<1>3. CASE e.outcome = "accepted"
  <2>1. /\ AcceptedIn(m) \in SUBSET (0 .. n) /\ n \in AcceptedIn(m)
        /\ \A i \in AcceptedIn(m) : i <= n
    BY <1>0, <1>1, <1>3 DEF AcceptedIn
  <2>2. Max(AcceptedIn(m)) = n
    BY <1>1, <2>1, MaxIs
  <2>3. \A i \in DOMAIN m : i <= n
    BY <1>0, <1>1
  <2> QED BY <1>0, <1>1, <1>2, <1>3, <2>2, <2>3 DEF AppliedIn, ReachedIn, AcceptedIn
<1>4. CASE e.outcome # "accepted"
  <2>1. AcceptedIn(m) = AcceptedIn(l)
    BY <1>0, <1>1, <1>4 DEF AcceptedIn
  <2>2. AcceptedIn(l) \in SUBSET (0 .. Len(l)) /\ AcceptedIn(l) # {}
    BY <1>0 DEF AcceptedIn
  <2>3. Max(AcceptedIn(l)) \in AcceptedIn(l)
    BY <1>0, <2>2, GreatestNumber
  <2>4. Max(AcceptedIn(l)) \in 1 .. Len(l)
    BY <1>0, <2>3 DEF AcceptedIn
  <2>5. ~(n <= Max(AcceptedIn(l)))
    BY <1>0, <2>4
  <2> QED BY <1>0, <1>1, <1>2, <1>4, <2>1, <2>5 DEF AppliedIn
<1> QED BY <1>2, <1>3, <1>4

-----------------------------------------------------------------------------
(***************************************************************************)
(* What LatestAskedWins asks for a field, of the calls S of the log l.     *)
(***************************************************************************)
From(l, S) == Max({1} \cup {i \in S : Given(l[i].options, "preset")})
AskingIn(l, S, f) == {i \in S : i >= From(l, S) /\ AsksFor(l[i].options, f)}
Wanted(l, S, codec, f) ==
  IF AskingIn(l, S, f) # {}
  THEN AskedFor(l[Max(AskingIn(l, S, f))].options, f)
  ELSE IF From(l, S) > 1
  THEN LET o == l[From(l, S)].options IN PresetConfig[<<codec, PresetOf(o), TuningOf(o)>>][f]
  ELSE CreationDefault(l[1].options, f)

LEMMA FromIsCall ==
  ASSUME NEW l, NEW n \in Nat, NEW S \in SUBSET (1 .. n), 1 \in S
  PROVE  /\ From(l, S) \in S
         /\ \A i \in S : Given(l[i].options, "preset") => i <= From(l, S)
<1> DEFINE T == {1} \cup {i \in S : Given(l[i].options, "preset")}
<1>1. T \in SUBSET (0 .. n) /\ T # {} /\ T \subseteq S /\ From(l, S) = Max(T)
  <2>1. \A i \in 1 .. n : i \in 0 .. n
    OBVIOUS
  <2> QED BY <2>1 DEF From
<1> HIDE DEF T
<1>2. Max(T) \in T /\ \A y \in T : Max(T) >= y
  BY <1>1, GreatestNumber
<1>3. \A i \in S : Given(l[i].options, "preset") => i \in T
  BY DEF T
<1>4. \A i \in T : i \in 0 .. n
  BY <1>1
<1> QED BY <1>1, <1>2, <1>3, <1>4

\* Calls that the logs l and m have in common.
Common(l, m, S) ==
  /\ 1 \in S /\ \A i \in S : m[i] = l[i]
  /\ \E n \in Nat : S \in SUBSET (1 .. n)

LEMMA WantedAgrees ==
  ASSUME NEW l, NEW m, NEW S, Common(l, m, S), NEW codec, NEW f
  PROVE  Wanted(m, S, codec, f) = Wanted(l, S, codec, f) /\ From(m, S) = From(l, S)
         /\ AskingIn(m, S, f) = AskingIn(l, S, f)
<1>0. PICK n \in Nat : S \in SUBSET (1 .. n) /\ 1 \in S /\ \A i \in S : m[i] = l[i]
  BY DEF Common
<1>1. {i \in S : Given(m[i].options, "preset")} = {i \in S : Given(l[i].options, "preset")}
  BY <1>0
<1>2. From(m, S) = From(l, S)
  BY <1>1 DEF From
<1>3. AskingIn(m, S, f) = AskingIn(l, S, f)
  BY <1>0, <1>2 DEF AskingIn
<1>4. From(l, S) \in S
  BY <1>0, FromIsCall
<1>5. AskingIn(l, S, f) # {} => Max(AskingIn(l, S, f)) \in S
  <2>1. AskingIn(l, S, f) \in SUBSET (0 .. n)
    <3>1. \A i \in 1 .. n : i \in 0 .. n
      OBVIOUS
    <3> QED BY <1>0, <3>1 DEF AskingIn
  <2>2. AskingIn(l, S, f) # {} => Max(AskingIn(l, S, f)) \in AskingIn(l, S, f)
    BY <1>0, <2>1, GreatestNumber
  <2>3. AskingIn(l, S, f) \subseteq S
    BY DEF AskingIn
  <2> QED BY <2>2, <2>3
<1> QED BY <1>0, <1>2, <1>3, <1>4, <1>5 DEF Wanted

\* The call that creates the session starts from the defaults.
LEMMA WantedFirst ==
  ASSUME NEW l, NEW codec, NEW f
  PROVE  LET o == l[1].options
         IN Wanted(l, {1}, codec, f) = Takes(o, f, CreationDefault(o, f))
<1> DEFINE o == l[1].options
           old == CreationDefault(o, f)
<1>1. From(l, {1}) = 1
  <2>1. 1 \in Nat /\ {1} \in SUBSET (1 .. 1) /\ 1 \in {1}
    OBVIOUS
  <2>2. From(l, {1}) \in {1}
    BY <2>1, FromIsCall, Zenon
  <2> QED BY <2>2
<1>2. CASE AsksFor(o, f)
  <2>1. AskingIn(l, {1}, f) = {1}
    BY <1>1, <1>2 DEF AskingIn
  <2>2. AskingIn(l, {1}, f) # {} /\ Max(AskingIn(l, {1}, f)) = 1
    BY <2>1, MaxIs
  <2>3. Wanted(l, {1}, codec, f) = AskedFor(o, f)
    BY <2>2 DEF Wanted
  <2> QED BY <1>2, <2>3 DEF Takes
<1>3. CASE ~AsksFor(o, f)
  <2>1. AskingIn(l, {1}, f) = {}
    BY <1>1, <1>3 DEF AskingIn
  <2>2. Wanted(l, {1}, codec, f) = old
    BY <1>1, <2>1 DEF Wanted
  <2> HIDE DEF old
  <2> QED BY <1>3, <2>2 DEF Takes, old
<1> QED BY <1>2, <1>3

\* What it finds: its preset, or what the calls before it wanted.
Found(l, S, codec, f, o) ==
  IF Given(o, "preset") THEN PresetConfig[<<codec, PresetOf(o), TuningOf(o)>>][f]
  ELSE Wanted(l, S, codec, f)

\* One more call that reaches the driver starts from its preset, or from what
\* the calls before it wanted.
LEMMA WantedNext ==
  ASSUME NEW l, NEW m, NEW e, Extends(l, m, e), NEW S \in SUBSET (DOMAIN l), 1 \in S,
         NEW codec, NEW f
  PROVE  Wanted(m, S \cup {Len(l) + 1}, codec, f)
           = Takes(e.options, f, Found(l, S, codec, f, e.options))
<1> DEFINE n == Len(l) + 1
           T == S \cup {n}
           o == e.options
           old == IF Given(o, "preset")
                  THEN PresetConfig[<<codec, PresetOf(o), TuningOf(o)>>][f]
                  ELSE Wanted(l, S, codec, f)
<1>0. /\ n \in Nat /\ Len(l) \in Nat /\ n > 1 /\ m[n] = e
      /\ S \in SUBSET (1 .. Len(l)) /\ S \in SUBSET (1 .. n) /\ T \in SUBSET (1 .. n)
      /\ T \in SUBSET (0 .. n) /\ S \in SUBSET (0 .. n)
      /\ n \in T /\ 1 \in T
      /\ \A i \in T : i <= n
      /\ \A i \in S : m[i] = l[i] /\ i # n
  <2>1. /\ DOMAIN l = 1 .. Len(l) /\ Len(l) \in Nat \ {0} /\ m[n] = e
        /\ \A i \in DOMAIN l : m[i] = l[i]
    BY DEF Extends
  <2>2. /\ n \in 1 .. n /\ n \in 0 .. n /\ n > 1 /\ n \in Nat
        /\ \A i \in 1 .. Len(l) : i \in 1 .. n /\ i \in 0 .. n /\ i # n /\ i <= n
    BY <2>1
  <2> HIDE DEF n
  <2> QED BY <2>1, <2>2
<1> HIDE DEF n
<1>1. /\ Wanted(m, S, codec, f) = Wanted(l, S, codec, f)
      /\ From(m, S) = From(l, S) /\ AskingIn(m, S, f) = AskingIn(l, S, f)
      /\ From(l, S) \in S
  <2>1. \A i \in S : m[i] = l[i]
    BY <1>0
  <2>2. Len(l) \in Nat /\ S \in SUBSET (1 .. Len(l)) /\ 1 \in S
    BY <1>0
  <2>3. From(l, S) \in S
    BY <2>2, FromIsCall
  <2>4. Common(l, m, S)
    BY <2>1, <2>2 DEF Common
  <2>5. Wanted(m, S, codec, f) = Wanted(l, S, codec, f)
    BY <2>4, WantedAgrees
  <2>6. From(m, S) = From(l, S)
    BY <2>4, WantedAgrees
  <2>7. AskingIn(m, S, f) = AskingIn(l, S, f)
    BY <2>4, WantedAgrees
  <2> QED BY <2>3, <2>5, <2>6, <2>7
<1> DEFINE new == IF AsksFor(o, f) THEN AskedFor(o, f) ELSE old
<1>5. From(m, T) = IF Given(o, "preset") THEN n ELSE From(l, S)
  <2>1. CASE Given(o, "preset")
    <3> DEFINE U == {1} \cup {i \in T : Given(m[i].options, "preset")}
    <3>1. U \in SUBSET (0 .. n) /\ n \in U /\ \A i \in U : i <= n
      BY <1>0, <2>1
    <3> HIDE DEF U
    <3>2. Max(U) = n
      BY <1>0, <3>1, MaxIs
    <3> QED BY <2>1, <3>2 DEF From, U
  <2>2. CASE ~Given(o, "preset")
    <3>1. {i \in T : Given(m[i].options, "preset")} = {i \in S : Given(m[i].options, "preset")}
      BY <1>0, <2>2
    <3> QED BY <1>1, <2>2, <3>1 DEF From
  <2> QED BY <2>1, <2>2
<1>6. From(m, T) \in T /\ From(m, T) \in 1 .. n /\ From(m, T) <= n
  BY <1>0, FromIsCall
<1>7. ASSUME AsksFor(o, f) PROVE Wanted(m, T, codec, f) = new
  <2>1. /\ AskingIn(m, T, f) \in SUBSET (0 .. n) /\ n \in AskingIn(m, T, f)
        /\ \A i \in AskingIn(m, T, f) : i <= n
    BY <1>0, <1>6, <1>7 DEF AskingIn
  <2>2. Max(AskingIn(m, T, f)) = n /\ AskingIn(m, T, f) # {}
    BY <1>0, <2>1, MaxIs
  <2>3. Wanted(m, T, codec, f) = AskedFor(o, f)
    <3>1. m[Max(AskingIn(m, T, f))].options = o
      BY <1>0, <2>2
    <3> HIDE DEF T
    <3> QED BY <2>2, <3>1, Zenon DEF Wanted
  <2> QED BY <1>7, <2>3
<1>8. ASSUME ~AsksFor(o, f) PROVE Wanted(m, T, codec, f) = new
  <2>1. CASE Given(o, "preset")
    <3>1. From(m, T) = n /\ From(m, T) > 1
      BY <1>0, <1>5, <2>1
    <3>2. AskingIn(m, T, f) = {}
      <4>1. \A i \in S : ~(i >= n)
        BY <1>0
      <4> QED BY <1>0, <1>8, <3>1, <4>1 DEF AskingIn
    <3>3. Wanted(m, T, codec, f) = old
      <4>1. m[From(m, T)].options = o
        BY <1>0, <3>1
      <4>2. old = PresetConfig[<<codec, PresetOf(o), TuningOf(o)>>][f]
        BY <2>1
      <4> HIDE DEF T
      <4> QED BY <3>1, <3>2, <4>1, <4>2, Zenon DEF Wanted
    <3> QED BY <1>8, <3>3
  <2>2. CASE ~Given(o, "preset")
    <3>1. From(m, T) = From(m, S)
      BY <1>1, <1>5, <2>2
    <3>2. AskingIn(m, T, f) = AskingIn(m, S, f)
      BY <1>0, <1>8, <3>1 DEF AskingIn
    <3>3. Wanted(m, T, codec, f) = Wanted(m, S, codec, f)
      BY <3>1, <3>2 DEF Wanted
    <3>4. Wanted(m, T, codec, f) = old
      <4>1. old = Wanted(l, S, codec, f)
        BY <2>2, Zenon
      <4> QED BY <1>1, <3>3, <4>1, Zenon
    <3> QED BY <1>8, <3>4
  <2> QED BY <2>1, <2>2
<1>9. Wanted(m, T, codec, f) = Takes(o, f, Found(l, S, codec, f, o))
  <2>1. old = Found(l, S, codec, f, o)
    BY DEF Found
  <2> HIDE DEF old, T
  <2> QED BY <1>7, <1>8, <2>1 DEF Takes
<1> QED BY <1>9 DEF n

-----------------------------------------------------------------------------
(***************************************************************************)
(* The inductive invariant.  encodeConfig is what the calls that reached   *)
(* the driver make of the session's first configuration, and what is in    *)
(* force is that of the calls up to the last one accepted.  A call may     *)
(* name another codec: it is refused, but its preset, and the codec, stay  *)
(* for the next one; so what presets bring is told for one codec only.     *)
(***************************************************************************)
ParField == {"codec", "preset", "tuning_info", "s", "max_res", "fps"}

OneCodecIn(l, codec) ==
  \A i \in DOMAIN l \ {1} :
    Given(l[i].options, "codec") /\ l[i].options.codec \in Codec => l[i].options.codec = codec
OneCodec == OneCodecIn(log, session.par.codec)

AsksLookahead(o) == Given(o, "lookahead") \/ Given(o, "preset")
KeepsFormat(o, format) ==
  Given(o, "preset") \/ Given(o, "fmt") => Given(o, "fmt") /\ o.fmt = format

\* What the calls S of the log leave in a configuration.
Settled(l, S, cfg, made, format) ==
  /\ DOMAIN cfg = ConfigField
  /\ \/ cfg.lookahead = made.cfg.lookahead
     \/ \E i \in S \ {1} : AsksLookahead(l[i].options)
  /\ FollowsGop(l[Max(S)].options, cfg)
  /\ OneCodecIn(l, made.par.codec) =>
       /\ \A f \in NamedField : cfg[f] = Wanted(l, S, made.par.codec, f)
       /\ (\A i \in S \ {1} : KeepsFormat(l[i].options, format))
            => Suits(format, made.par.codec, cfg)

SessionMade ==
  /\ log # <<>> /\ 1 \in AcceptedIn(log)
  /\ eFormat \in {"NV12", "YUV444", "YUV420_10bit", "YUV444_10bit"}
  /\ session.par.codec \in Codec /\ (session.par.codec = "h264" => ~Is10Bit(eFormat))
  /\ session.cfg.bf \in Nat /\ session.cfg.lookahead \in Nat
  /\ ring = RingSize(session.cfg)
  /\ inForce.par.codec = session.par.codec /\ inForce.cfg.bf = session.cfg.bf
  /\ DOMAIN pending.par = ParField
  /\ OneCodec => pending.par.codec = session.par.codec

SettingsInv ==
  /\ eFormat \in Format /\ \E o \in CtorOptions : options = WithFormat(o, eFormat)
  /\ log \in Seq(Change)
  /\ ~upEncoder => log = <<>>
  /\ upEncoder =>
       /\ SessionMade
       /\ Settled(log, ReachedIn(log), pending.cfg, session, eFormat)
       /\ Settled(log, AppliedIn(log), inForce.cfg, session, eFormat)

-----------------------------------------------------------------------------
(***************************************************************************)
(* What a call writes.                                                     *)
(***************************************************************************)
\* The parameters a call starts from.
ParamsBefore(par, r) == IF r THEN par ELSE DefaultParams

ParamsWritten(par, cfg, o, r, set) ==
  LET codec == set.par.codec
      key == <<codec, PresetOf(o), TuningOf(o)>>
      loaded == IF Given(o, "preset") THEN PresetConfig[key] ELSE cfg
  IN /\ DOMAIN set.par = ParField
     /\ codec = WithCodec(ParamsBefore(par, r), o).codec
     /\ set.thrown \in BOOLEAN
     /\ set.thrown => set.cfg = cfg
     /\ ~set.thrown => /\ set.cfg = SetupEncConfig(loaded, codec, o, r)
                       /\ Given(o, "preset") => key \in DOMAIN PresetConfig

LEMMA InitParamsAt ==
  ASSUME NEW par, NEW cfg, NEW o, NEW r \in BOOLEAN, r => DOMAIN par = ParField
  PROVE  ParamsWritten(par, cfg, o, r, SetupInitParams(par, cfg, o, r))
<1> DEFINE base == IF r THEN par ELSE DefaultParams
           start == WithCodec(base, o)
           preset == WithPreset(start, o)
           size == WithSize(preset, o)
           fps == WithFps(size, o)
           sized == WithTuning(fps, o)
           setKey == <<start.codec, preset.preset, TuningOf(o)>>
           given == IF Given(o, "preset") THEN PresetConfig[setKey] ELSE cfg
           set == SetupInitParams(par, cfg, o, r)
<1>1. DOMAIN base = ParField
  BY DEF DefaultParams, ParField
<1> HIDE DEF base
<1>2. DOMAIN start = ParField
  BY <1>1 DEF WithCodec
<1> HIDE DEF start
<1>3. /\ DOMAIN preset = ParField /\ preset.codec = start.codec
      /\ Given(o, "preset") => preset.preset = PresetOf(o)
  BY <1>2 DEF WithPreset, ParField
<1> HIDE DEF preset
<1>4. DOMAIN size = ParField /\ size.codec = start.codec
  BY <1>3 DEF WithSize, ParField
<1> HIDE DEF size
<1>5. DOMAIN fps = ParField /\ fps.codec = start.codec
  BY <1>4 DEF WithFps, ParField
<1> HIDE DEF fps
<1>6. DOMAIN sized = ParField /\ sized.codec = start.codec
  BY <1>5 DEF WithTuning, ParField
<1> HIDE DEF sized
<1>7. \/ set = [par |-> start, cfg |-> cfg, thrown |-> TRUE]
      \/ set = [par |-> preset, cfg |-> cfg, thrown |-> TRUE]
      \/ set = [par |-> sized, cfg |-> cfg, thrown |-> TRUE]
      \/ /\ set = [par |-> sized, cfg |-> SetupEncConfig(given, start.codec, o, r),
                   thrown |-> FALSE]
         /\ Given(o, "preset") => setKey \in DOMAIN PresetConfig
  BY Zenon DEF SetupInitParams, base, start, preset, size, fps, sized
<1>8. Given(o, "preset") => setKey = <<start.codec, PresetOf(o), TuningOf(o)>>
  BY <1>3
<1>9. start.codec = WithCodec(ParamsBefore(par, r), o).codec
  BY DEF start, base, ParamsBefore
<1> HIDE DEF set
<1>10. CASE set.thrown
  BY <1>2, <1>3, <1>6, <1>7, <1>9, <1>10 DEF set, ParamsWritten
<1>11. CASE ~set.thrown
  <2>1. set.par = sized /\ set.cfg = SetupEncConfig(given, start.codec, o, r)
        /\ set.thrown = FALSE
    BY <1>7, <1>11
  <2>2. given = IF Given(o, "preset")
                THEN PresetConfig[<<start.codec, PresetOf(o), TuningOf(o)>>] ELSE cfg
    BY <1>8
  <2>3. Given(o, "preset") => <<start.codec, PresetOf(o), TuningOf(o)>> \in DOMAIN PresetConfig
    BY <1>7, <1>8, <1>11
  <2> HIDE DEF given, setKey
  <2> QED BY <1>6, <1>9, <1>11, <2>1, <2>2, <2>3 DEF set, ParamsWritten
<1> QED BY <1>10, <1>11

-----------------------------------------------------------------------------
(***************************************************************************)
(* Calls settle the configurations.                                        *)
(***************************************************************************)
LEMMA NamedIsField == NamedField \subseteq ConfigField /\ FormatField \subseteq ConfigField
BY DEF NamedField, FormatField, ConfigField, RateControlParam, CodecParam

LEMMA OneCodecBefore ==
  ASSUME NEW l, NEW m, NEW e, Extends(l, m, e), NEW codec, OneCodecIn(m, codec)
  PROVE  /\ OneCodecIn(l, codec)
         /\ Given(e.options, "codec") /\ e.options.codec \in Codec => e.options.codec = codec
<1>1. /\ DOMAIN l = 1 .. Len(l) /\ Len(l) \in Nat \ {0} /\ DOMAIN m = 1 .. Len(l) + 1
      /\ \A i \in DOMAIN l : m[i] = l[i]
      /\ m[Len(l) + 1] = e
  BY DEF Extends
<1>2. /\ Len(l) + 1 \in 1 .. Len(l) + 1 /\ Len(l) + 1 # 1
      /\ \A i \in 1 .. Len(l) : i \in 1 .. Len(l) + 1
  BY <1>1
<1>3. \A i \in DOMAIN l : i \in DOMAIN m
  BY <1>1, <1>2
<1>4. OneCodecIn(l, codec)
  BY <1>1, <1>3 DEF OneCodecIn
<1>5. Len(l) + 1 \in DOMAIN m \ {1}
  BY <1>1, <1>2
<1> QED BY <1>1, <1>4, <1>5 DEF OneCodecIn

LEMMA CommonBefore ==
  ASSUME NEW l, NEW m, NEW e, Extends(l, m, e), NEW S \in SUBSET (DOMAIN l), 1 \in S
  PROVE  Common(l, m, S)
<1>1. /\ DOMAIN l = 1 .. Len(l) /\ Len(l) \in Nat
      /\ \A i \in DOMAIN l : m[i] = l[i]
  BY DEF Extends
<1> QED BY <1>1 DEF Common

\* A call that writes nothing into it leaves it settled.
LEMMA SettledStays ==
  ASSUME NEW l, NEW m, NEW e, Extends(l, m, e), NEW S \in SUBSET (DOMAIN l), 1 \in S,
         NEW cfg, NEW made, NEW format, Settled(l, S, cfg, made, format)
  PROVE  Settled(m, S, cfg, made, format)
<1>1. \A i \in S : m[i] = l[i]
  BY DEF Extends
<1>2. OneCodecIn(m, made.par.codec) => OneCodecIn(l, made.par.codec)
  BY OneCodecBefore
<1>3. Common(l, m, S)
  BY CommonBefore
<1>4. \A f \in NamedField : Wanted(m, S, made.par.codec, f) = Wanted(l, S, made.par.codec, f)
  BY <1>3, WantedAgrees
<1>5. Max(S) \in S
  <2>1. /\ Len(l) \in Nat /\ S \in SUBSET (0 .. Len(l)) /\ S # {}
    <3>1. DOMAIN l = 1 .. Len(l) /\ Len(l) \in Nat
      BY DEF Extends
    <3> QED BY <3>1
  <2> QED BY <2>1, GreatestNumber
<1>6. FollowsGop(m[Max(S)].options, cfg)
  BY <1>1, <1>5 DEF Settled
<1> QED BY <1>1, <1>2, <1>4, <1>6 DEF Settled

\* A call that writes settles it anew.
LEMMA SettledNext ==
  ASSUME NEW l, NEW m, NEW e, Extends(l, m, e), NEW S \in SUBSET (DOMAIN l), 1 \in S,
         NEW cfg, NEW made, NEW format, Settled(l, S, cfg, made, format),
         WellFormed(e.options), NEW codec,
         OneCodecIn(m, made.par.codec) => codec = made.par.codec,
         made.par.codec \in Codec, made.par.codec = "h264" => ~Is10Bit(format),
         Given(e.options, "preset") =>
           <<codec, PresetOf(e.options), TuningOf(e.options)>> \in DOMAIN PresetConfig
  PROVE  LET o == e.options
             loaded == IF Given(o, "preset")
                       THEN PresetConfig[<<codec, PresetOf(o), TuningOf(o)>>] ELSE cfg
         IN Settled(m, S \cup {Len(l) + 1}, SetupEncConfig(loaded, codec, o, TRUE), made, format)
<1> DEFINE o == e.options
           key == <<codec, PresetOf(o), TuningOf(o)>>
           loaded == IF Given(o, "preset") THEN PresetConfig[key] ELSE cfg
           last == Len(l) + 1
           T == S \cup {last}
           next == SetupEncConfig(loaded, codec, o, TRUE)
<1> SUFFICES Settled(m, T, next, made, format)
  OBVIOUS
<1>0. /\ last \in T /\ last # 1 /\ m[last] = e
      /\ \A i \in S : m[i] = l[i] /\ i \in T
  <2>1. /\ Len(l) \in Nat \ {0} /\ m[last] = e
        /\ \A i \in DOMAIN l : m[i] = l[i]
    BY DEF Extends
  <2> QED BY <2>1
<1>1. DOMAIN loaded = ConfigField
  BY TextsAssumption DEF Settled
<1> HIDE DEF loaded
<1>2. /\ DOMAIN next = ConfigField
      /\ \A f \in NamedField : next[f] = Asked(loaded, o, TRUE, f)
      /\ FormatWritten(loaded, codec, o, TRUE, next)
      /\ FollowsGop(o, next)
  <2>1. WellFormed(o)
    OBVIOUS
  <2> HIDE DEF o
  <2>2. \A r \in BOOLEAN :
          /\ DOMAIN SetupEncConfig(loaded, codec, o, r) = ConfigField
          /\ \A f \in NamedField :
               SetupEncConfig(loaded, codec, o, r)[f] = Asked(loaded, o, r, f)
          /\ FormatWritten(loaded, codec, o, r, SetupEncConfig(loaded, codec, o, r))
          /\ FollowsGop(o, SetupEncConfig(loaded, codec, o, r))
    BY <1>1, <2>1, ConfigAt
  <2> QED BY <2>2, Zenon
<1> HIDE DEF next
<1>3. \/ next.lookahead = made.cfg.lookahead
      \/ \E i \in T \ {1} : AsksLookahead(m[i].options)
  <2>1. CASE AsksLookahead(o)
    BY <1>0, <2>1
  <2>2. CASE ~AsksLookahead(o)
    <3>1. next["lookahead"] = cfg["lookahead"]
      <4>1. "lookahead" \in NamedField
        BY DEF NamedField, ConfigField, RateControlParam
      <4>2. ~Given(o, "lookahead") /\ loaded = cfg
        BY <2>2 DEF AsksLookahead, loaded
      <4>3. ~AsksFor(o, "lookahead")
        BY <4>2 DEF AsksFor, AskedFor
      <4> QED BY <1>2, <4>1, <4>2, <4>3 DEF Asked, Takes, Start
    <3>2. \/ cfg.lookahead = made.cfg.lookahead
          \/ \E i \in S \ {1} : AsksLookahead(l[i].options)
      BY DEF Settled
    <3> QED BY <1>0, <3>1, <3>2
  <2> QED BY <2>1, <2>2
<1>4. ASSUME OneCodecIn(m, made.par.codec)
      PROVE  /\ codec = made.par.codec
             /\ \A f \in NamedField : cfg[f] = Wanted(l, S, codec, f)
             /\ (\A i \in S \ {1} : KeepsFormat(l[i].options, format))
                  => Suits(format, codec, cfg)
  <2>1. OneCodecIn(l, made.par.codec)
    BY <1>4, OneCodecBefore
  <2> QED BY <1>4, <2>1 DEF Settled
<1>5. ASSUME OneCodecIn(m, made.par.codec), NEW f \in NamedField
      PROVE  next[f] = Wanted(m, T, made.par.codec, f)
  <2>1. loaded[f] = Found(l, S, codec, f, o)
    BY <1>4, <1>5 DEF loaded, Found
  <2>2. Wanted(m, T, codec, f) = Takes(o, f, Found(l, S, codec, f, o))
    BY <1>5, WantedNext
  <2>3. next[f] = Takes(o, f, loaded[f])
    BY <1>2, <1>5 DEF Asked, Start
  <2> HIDE DEF T
  <2> QED BY <1>4, <1>5, <2>1, <2>2, <2>3
<1>6. ASSUME OneCodecIn(m, made.par.codec),
             \A i \in T \ {1} : KeepsFormat(m[i].options, format)
      PROVE  Suits(format, made.par.codec, next)
  <2>1. KeepsFormat(o, format) /\ codec = made.par.codec
    BY <1>0, <1>4, <1>6
  <2>2. CASE Given(o, "fmt") /\ o.fmt = format
    BY <1>2, <2>1, <2>2 DEF FormatWritten
  <2>3. CASE ~(Given(o, "fmt") /\ o.fmt = format)
    <3>1. ~Given(o, "preset") /\ ~Given(o, "fmt")
      BY <2>1, <2>3 DEF KeepsFormat
    <3>2. next.chroma = cfg.chroma /\ next.depth = cfg.depth
      BY <1>2, <3>1 DEF FormatWritten, NamesNoFormat, FormatStart, FormatField, loaded
    <3>3. \A i \in S \ {1} : KeepsFormat(l[i].options, format)
      BY <1>0, <1>6
    <3>4. Suits(format, codec, cfg)
      BY <1>4, <1>6, <3>3
    <3> QED BY <2>1, <3>2, <3>4 DEF Suits
  <2> QED BY <2>2, <2>3
<1>7. FollowsGop(m[Max(T)].options, next)
  <2>1. last \in Nat /\ T \in SUBSET (0 .. last) /\ \A i \in T : i <= last
    <3>1. DOMAIN l = 1 .. Len(l) /\ Len(l) \in Nat
      BY DEF Extends
    <3> QED BY <3>1
  <2>2. Max(T) = last
    BY <1>0, <2>1, MaxIs
  <2> QED BY <1>0, <1>2, <2>2
<1> HIDE DEF T
<1> QED BY <1>2, <1>3, <1>5, <1>6, <1>7 DEF Settled

\* The dictionary of the constructor is one of CtorOptions but for its "fmt".
LEMMA ConstructorTexts ==
  ASSUME NEW c \in CtorOptions, NEW format
  PROVE  LET o == WithFormat(c, format)
         IN /\ WellFormed(o)
            /\ Given(o, "fmt") => o.fmt = FormatName(format)
<1> DEFINE o == WithFormat(c, format)
<1>1. /\ DOMAIN o = DOMAIN c \cup {"fmt"} /\ o["fmt"] = FormatName(format)
      /\ \A f \in DOMAIN c \ {"fmt"} : o[f] = c[f]
  BY DEF WithFormat
<1> HIDE DEF o
<1>2. \A f : f # "fmt" => (Given(o, f) <=> Given(c, f)) /\ (Given(o, f) => o[f] = c[f])
  BY <1>1 DEF Given
<1>3. WellFormed(c)
  BY TextsAssumption
<1>4. WellFormed(o)
  BY <1>2, <1>3 DEF WellFormed
<1> QED BY <1>1, <1>4 DEF o

LEMMA SettledFirst ==
  ASSUME NEW o, WellFormed(o), NEW loaded, DOMAIN loaded = ConfigField, NEW codec, NEW format,
         NEW made, made.par.codec = codec, made.cfg = SetupEncConfig(loaded, codec, o, FALSE),
         Suits(format, codec, made.cfg), NEW l, l[1].options = o
  PROVE  /\ Settled(l, {1}, made.cfg, made, format)
         /\ made.cfg.bf \in Nat /\ made.cfg.lookahead \in Nat
<1> DEFINE cfg == made.cfg
<1>1. /\ DOMAIN cfg = ConfigField
      /\ \A f \in NamedField : cfg[f] = Asked(loaded, o, FALSE, f)
      /\ FollowsGop(o, cfg)
  <2> DEFINE n == SetupEncConfig(loaded, codec, o, FALSE)
  <2>1. \A r \in BOOLEAN :
          /\ DOMAIN SetupEncConfig(loaded, codec, o, r) = ConfigField
          /\ \A f \in NamedField :
               SetupEncConfig(loaded, codec, o, r)[f] = Asked(loaded, o, r, f)
          /\ FollowsGop(o, SetupEncConfig(loaded, codec, o, r))
    BY ConfigAt
  <2>2. /\ DOMAIN n = ConfigField /\ \A f \in NamedField : n[f] = Asked(loaded, o, FALSE, f)
        /\ FollowsGop(o, n)
    BY <2>1, Zenon
  <2> QED BY <2>2
<1> HIDE DEF cfg
<1>2. ASSUME NEW f \in NamedField PROVE cfg[f] = Wanted(l, {1}, codec, f)
  <2> DEFINE old == CreationDefault(o, f)
  <2>1. Wanted(l, {1}, codec, f) = Takes(o, f, old)
    BY WantedFirst, Zenon
  <2>2. Asked(loaded, o, FALSE, f) = Takes(o, f, old)
    BY DEF Asked, Start
  <2> QED BY <1>1, <2>1, <2>2, Zenon
<1>3. ASSUME NEW f \in {"bf", "lookahead"} PROVE cfg[f] \in Nat
  <2>1. f \in NamedField /\ CreationDefault(o, f) \in Nat
    BY DEF NamedField, ConfigField, CreationDefault, RateControlParam, RateControlDefault
  <2>2. AsksFor(o, f) => AskedFor(o, f) \in Nat
    <3>1. Given(o, f) => Parsed(f, o[f], NotGiven) = o[f] /\ o[f] \in Nat
      BY DEF Parsed, WellFormed
    <3> QED BY <3>1 DEF AsksFor, AskedFor
  <2> QED BY <1>1, <2>1, <2>2 DEF Asked, Takes, Start
<1>4. cfg.bf \in Nat /\ cfg.lookahead \in Nat
  BY <1>3
<1>5. FollowsGop(l[Max({1})].options, cfg)
  BY <1>1, MaxIs
<1> QED BY <1>1, <1>2, <1>4, <1>5 DEF Settled, cfg

\* Nothing sets 10 bit samples at creation but the format of the surfaces.
LEMMA DepthAtCreation ==
  ASSUME NEW o, WellFormed(o), NEW loaded, DOMAIN loaded = ConfigField, NEW codec,
         Given(o, "fmt") => o.fmt = "UNDEFINED"
  PROVE  SetupEncConfig(loaded, codec, o, FALSE).depth = 0
<1>1. NamesNoFormat(o)
  BY FieldsOfFormats DEF NamesNoFormat
<1>2. FormatWritten(loaded, codec, o, FALSE, SetupEncConfig(loaded, codec, o, FALSE))
  BY ConfigAt
<1> QED BY <1>1, <1>2 DEF FormatWritten, FormatStart, FormatField, CodecDefault

-----------------------------------------------------------------------------
LEMMA InitSettings == SettingsInit => SettingsInv
BY EmptySeq DEF SettingsInit, SettingsInv

LEMMA CreateSettings ==
  ASSUME SettingsInv, Create
  PROVE  SettingsInv'
<1> DEFINE set == SetupInitParams(Blank.par, Blank.cfg, options, FALSE)
           made == [par |-> set.par, cfg |-> set.cfg]
           codec == set.par.codec
           key == <<codec, PresetOf(options), TuningOf(options)>>
           loaded == IF Given(options, "preset") THEN PresetConfig[key] ELSE Blank.cfg
           e == [options |-> options, outcome |-> "accepted"]
<1>1. /\ ~set.thrown /\ Suits(EncoderFormat(eFormat), codec, set.cfg)
      /\ pending' = made /\ inForce' = made /\ session' = made
      /\ ring' = RingSize(set.cfg)
      /\ upEncoder' = TRUE /\ log' = <<e>>
      /\ eFormat' = eFormat /\ options' = options
      /\ eFormat \in {"NV12", "YUV444", "YUV420_10bit", "P12", "YUV444_10bit"}
  BY DEF Create
<1>2. /\ DOMAIN set.par = ParField
      /\ set.cfg = SetupEncConfig(loaded, codec, options, FALSE)
      /\ Given(options, "preset") => key \in DOMAIN PresetConfig
  <2>1. FALSE \in BOOLEAN /\ (FALSE => DOMAIN Blank.par = ParField)
    OBVIOUS
  <2>2. ParamsWritten(Blank.par, Blank.cfg, options, FALSE, set)
    BY <2>1, InitParamsAt
  <2> HIDE DEF set
  <2>3. /\ DOMAIN set.par = ParField
        /\ set.cfg = SetupEncConfig(loaded, codec, options, FALSE)
        /\ Given(options, "preset") => key \in DOMAIN PresetConfig
    BY <1>1, <2>2 DEF ParamsWritten
  <2> QED BY <2>3
<1> HIDE DEF set
<1>3. DOMAIN loaded = ConfigField
  BY <1>2, TextsAssumption DEF Blank
<1> HIDE DEF loaded
<1>4. PICK c \in CtorOptions : options = WithFormat(c, eFormat)
  BY DEF SettingsInv
<1>5. WellFormed(options) /\ (Given(options, "fmt") => options.fmt = FormatName(eFormat))
  BY <1>4, ConstructorTexts
<1>6. eFormat # "P12"
  <2>1. SUFFICES ASSUME eFormat = "P12" PROVE FALSE
    OBVIOUS
  <2>2. set.cfg.depth = 0
    BY <1>2, <1>3, <1>5, <2>1, DepthAtCreation DEF FormatName
  <2> QED BY <1>1, <2>1, <2>2 DEF EncoderFormat, Suits, Is10Bit, Codec
<1>7. /\ Suits(eFormat, codec, made.cfg) /\ codec \in Codec
      /\ codec = "h264" => ~Is10Bit(eFormat)
  BY <1>1, <1>6 DEF EncoderFormat, Suits
<1>8. /\ made.par.codec = codec /\ made.cfg = SetupEncConfig(loaded, codec, options, FALSE)
      /\ made.par = set.par /\ made.cfg = set.cfg
  BY <1>2
<1> HIDE DEF made
<1>9. log'[1].options = options /\ log' # <<>> /\ DOMAIN log' = {1} /\ log'[1].outcome = "accepted"
  BY <1>1
<1>10. /\ Settled(log', {1}, made.cfg, made, eFormat)
       /\ made.cfg.bf \in Nat /\ made.cfg.lookahead \in Nat
  BY <1>3, <1>5, <1>7, <1>8, <1>9, SettledFirst
<1>11. AcceptedIn(log') = {1} /\ ReachedIn(log') = {1} /\ AppliedIn(log') = {1}
  <2>1. AcceptedIn(log') = {1} /\ ReachedIn(log') = {1}
    BY <1>9 DEF AcceptedIn, ReachedIn
  <2>2. Max({1}) = 1
    BY MaxIs
  <2> QED BY <1>9, <2>1, <2>2 DEF AppliedIn
<1>12. log' \in Seq(Change)
  <2>1. options \in Dictionary
    BY <1>4 DEF Dictionary, SettingsInv
  <2>2. e \in Change
    BY <2>1 DEF Change
  <2> HIDE DEF e
  <2> QED BY <1>1, <2>2
<1>13. SessionMade'
  BY <1>1, <1>2, <1>6, <1>7, <1>8, <1>9, <1>10, <1>11 DEF SessionMade, AcceptedIn
<1>14. (eFormat \in Format /\ \E o \in CtorOptions : options = WithFormat(o, eFormat))'
  BY <1>1 DEF SettingsInv
<1> QED BY <1>1, <1>10, <1>11, <1>12, <1>13, <1>14 DEF SettingsInv

LEMMA ReconfigureParams ==
  ASSUME DOMAIN pending.par = ParField, NEW o
  PROVE  LET set == SetupInitParams(pending.par, pending.cfg, o, TRUE)
         IN /\ DOMAIN set.par = ParField
            /\ set.par.codec = WithCodec(pending.par, o).codec
            /\ set.thrown => set.cfg = pending.cfg
<1> DEFINE set == SetupInitParams(pending.par, pending.cfg, o, TRUE)
<1>1. TRUE \in BOOLEAN /\ (TRUE => DOMAIN pending.par = ParField)
  OBVIOUS
<1>2. ParamsWritten(pending.par, pending.cfg, o, TRUE, set)
  BY <1>1, InitParamsAt
<1>3. ParamsBefore(pending.par, TRUE) = pending.par
  BY DEF ParamsBefore
<1> HIDE DEF set
<1>4. /\ DOMAIN set.par = ParField
      /\ set.par.codec = WithCodec(pending.par, o).codec
      /\ set.thrown => set.cfg = pending.cfg
  BY <1>2, <1>3 DEF ParamsWritten
<1> QED BY <1>4 DEF set

LEMMA LogNumbers ==
  ASSUME log \in Seq(Change), 1 \in AcceptedIn(log)
  PROVE  /\ ReachedIn(log) \in SUBSET (DOMAIN log) /\ AppliedIn(log) \in SUBSET (DOMAIN log)
         /\ 1 \in ReachedIn(log) /\ 1 \in AppliedIn(log)
<1>1. Len(log) \in Nat /\ DOMAIN log = 1 .. Len(log)
  BY LenProperties
<1>2. AcceptedIn(log) \in SUBSET (0 .. Len(log)) /\ AcceptedIn(log) # {}
  <2>1. \A i \in 1 .. Len(log) : i \in 0 .. Len(log)
    BY <1>1
  <2> QED BY <1>1, <2>1 DEF AcceptedIn
<1>3. Max(AcceptedIn(log)) >= 1
  BY <1>1, <1>2, GreatestNumber
<1>4. Max(AcceptedIn(log)) \in 0 .. Len(log)
  BY <1>1, <1>2, GreatestNumber
<1>5. 1 <= Max(AcceptedIn(log))
  BY <1>1, <1>3, <1>4
<1> QED BY <1>5 DEF AcceptedIn, ReachedIn, AppliedIn

\* A call to Reconfigure, with what it leaves in init_params and encodeConfig.
LEMMA CallSettings ==
  ASSUME SettingsInv, upEncoder, NEW o \in CallOptions,
         NEW outcome \in {"accepted", "refused", "thrown"}, Ends(o, outcome),
         UNCHANGED <<eFormat, options, upEncoder, session, ring>>,
         \/ /\ outcome = "thrown" /\ inForce' = inForce
            /\ pending'.cfg = pending.cfg
            /\ DOMAIN pending'.par = ParField
            /\ pending'.par.codec \in {pending.par.codec, WithCodec(pending.par, o).codec}
         \/ LET set == SetupInitParams(pending.par, pending.cfg, o, TRUE)
                next == [par |-> set.par, cfg |-> set.cfg]
            IN /\ outcome # "thrown" /\ ~set.thrown /\ pending' = next
               /\ outcome = "refused" => inForce' = inForce
               /\ outcome = "accepted" => inForce' = next /\ DriverMayAccept(next)
  PROVE  SettingsInv'
<1> DEFINE e == [options |-> o, outcome |-> outcome]
           codec == session.par.codec
<1>0. /\ SessionMade /\ log \in Seq(Change) /\ log # <<>> /\ 1 \in AcceptedIn(log)
      /\ Settled(log, ReachedIn(log), pending.cfg, session, eFormat)
      /\ Settled(log, AppliedIn(log), inForce.cfg, session, eFormat)
      /\ codec \in Codec /\ (codec = "h264" => ~Is10Bit(eFormat))
      /\ DOMAIN pending.par = ParField
  BY DEF SettingsInv, SessionMade
<1>1. e \in Change /\ log' = Append(log, e) /\ e.options = o /\ e.outcome = outcome
  BY DEF Change, Dictionary, Ends
<1> HIDE DEF e
<1>2. Extends(log, log', e)
  BY <1>0, <1>1, AppendExtends
<1>3. log' \in Seq(Change) /\ log' # <<>>
  BY <1>0, <1>1, AppendProperties
<1>4. /\ ReachedIn(log') = ReachedIn(log) \cup (IF outcome = "thrown" THEN {} ELSE {Len(log) + 1})
      /\ outcome = "accepted" => AppliedIn(log') = ReachedIn(log')
      /\ outcome # "accepted" => AppliedIn(log') = AppliedIn(log)
      /\ 1 \in AcceptedIn(log')
  BY <1>0, <1>1, <1>2, CallsApplied
<1>5. /\ ReachedIn(log) \in SUBSET (DOMAIN log) /\ 1 \in ReachedIn(log)
      /\ AppliedIn(log) \in SUBSET (DOMAIN log) /\ 1 \in AppliedIn(log)
  BY <1>0, LogNumbers
<1>6. WellFormed(o)
  BY TextsAssumption
<1>7. ASSUME OneCodecIn(log', codec)
      PROVE  pending.par.codec = codec /\ WithCodec(pending.par, o).codec = codec
  <2>1. /\ OneCodecIn(log, codec)
        /\ Given(o, "codec") /\ o.codec \in Codec => o.codec = codec
    BY <1>1, <1>2, <1>7, OneCodecBefore
  <2>2. pending.par.codec = codec
    BY <1>0, <2>1 DEF SessionMade, OneCodec
  <2>3. WithCodec(pending.par, o).codec \in {pending.par.codec, o.codec}
    BY <1>0 DEF WithCodec, ParField
  <2> QED BY <1>0, <2>1, <2>2 DEF WithCodec, ParField
<1>8. Settled(log', AppliedIn(log), inForce.cfg, session, eFormat)
  BY <1>0, <1>2, <1>5, SettledStays
<1>9. CASE outcome = "thrown"
  <2>1. Settled(log', ReachedIn(log), pending.cfg, session, eFormat)
    BY <1>0, <1>2, <1>5, SettledStays
  <2>2. SessionMade'
    BY <1>0, <1>3, <1>4, <1>7, <1>9 DEF SessionMade, OneCodec
  <2>3. /\ ReachedIn(log') = ReachedIn(log) /\ AppliedIn(log') = AppliedIn(log)
        /\ pending'.cfg = pending.cfg /\ inForce' = inForce
    BY <1>4, <1>9
  <2> QED BY <1>3, <1>8, <2>1, <2>2, <2>3 DEF SettingsInv
<1>10. CASE outcome # "thrown"
  <2> DEFINE set == SetupInitParams(pending.par, pending.cfg, o, TRUE)
             key == <<set.par.codec, PresetOf(o), TuningOf(o)>>
             loaded == IF Given(o, "preset") THEN PresetConfig[key] ELSE pending.cfg
             next == [par |-> set.par, cfg |-> set.cfg]
  <2>1. /\ ~set.thrown /\ pending' = next
        /\ outcome = "refused" => inForce' = inForce
        /\ outcome = "accepted" => inForce' = next /\ DriverMayAccept(next)
    BY <1>10
  <2>2. /\ DOMAIN set.par = ParField
        /\ set.par.codec = WithCodec(pending.par, o).codec
        /\ set.cfg = SetupEncConfig(loaded, set.par.codec, o, TRUE)
        /\ Given(o, "preset") => key \in DOMAIN PresetConfig
    <3>1. TRUE \in BOOLEAN
      OBVIOUS
    <3>2. DOMAIN set.par = ParField /\ set.par.codec = WithCodec(pending.par, o).codec
      BY <1>0, ReconfigureParams
    <3>3. ParamsWritten(pending.par, pending.cfg, o, TRUE, set)
      BY <1>0, <3>1, InitParamsAt
    <3> HIDE DEF set
    <3>4. /\ set.cfg = SetupEncConfig(loaded, set.par.codec, o, TRUE)
          /\ Given(o, "preset") => key \in DOMAIN PresetConfig
      BY <2>1, <3>3 DEF ParamsWritten
    <3> QED BY <3>2, <3>4
  <2> HIDE DEF set
  <2>3. OneCodecIn(log', codec) => set.par.codec = codec
    BY <1>7, <2>2
  <2>4. Settled(log', ReachedIn(log) \cup {Len(log) + 1},
                SetupEncConfig(loaded, set.par.codec, o, TRUE), session, eFormat)
    BY <1>0, <1>1, <1>2, <1>5, <1>6, <2>2, <2>3, SettledNext
  <2>5. Settled(log', ReachedIn(log'), pending'.cfg, session, eFormat)
    BY <1>4, <1>10, <2>1, <2>2, <2>4
  <2>6. Settled(log', AppliedIn(log'), inForce'.cfg, session, eFormat)
    BY <1>4, <1>8, <1>10, <2>1, <2>5
  <2>7. inForce'.par.codec = codec /\ inForce'.cfg.bf = session.cfg.bf
    BY <1>0, <1>10, <2>1 DEF SessionMade, DriverMayAccept
  <2>8. DOMAIN pending'.par = ParField /\ (OneCodec' => pending'.par.codec = codec)
    BY <2>1, <2>2, <2>3 DEF OneCodec
  <2>9. SessionMade'
    BY <1>0, <1>3, <1>4, <2>7, <2>8 DEF SessionMade
  <2> QED BY <1>3, <2>5, <2>6, <2>9 DEF SettingsInv
<1> QED BY <1>9, <1>10

LEMMA NextSettings == SettingsInv /\ [SettingsNext]_settingsVars => SettingsInv'
<1> SUFFICES ASSUME SettingsInv, [SettingsNext]_settingsVars PROVE SettingsInv'
  OBVIOUS
<1>1. CASE Create
  BY <1>1, CreateSettings
<1>2. CASE \/ CreateFails \/ UNCHANGED settingsVars
           \/ \E o \in CallOptions : ReconfigureDropped(o)
  <2>1. UNCHANGED <<eFormat, options, upEncoder, pending, inForce, session, ring, log>>
    BY <1>2 DEF CreateFails, ReconfigureDropped, settingsVars
  <2> QED BY <2>1 DEF SettingsInv, SessionMade, OneCodec
<1>3. ASSUME NEW o \in CallOptions, ReconfigureInvalid(o) PROVE SettingsInv'
  <2>1. /\ upEncoder /\ Ends(o, "thrown") /\ pending' = pending /\ inForce' = inForce
        /\ UNCHANGED <<eFormat, options, upEncoder, session, ring>>
    BY <1>3 DEF ReconfigureInvalid, ReconfigureBegins
  <2>2. DOMAIN pending.par = ParField
    BY <2>1 DEF SettingsInv, SessionMade
  <2> QED BY <2>1, <2>2, CallSettings
<1>4. ASSUME NEW o \in CallOptions, Reconfigure(o) PROVE SettingsInv'
  <2> DEFINE set == SetupInitParams(pending.par, pending.cfg, o, TRUE)
             next == [par |-> set.par, cfg |-> set.cfg]
  <2>1. /\ upEncoder /\ UNCHANGED <<eFormat, options, upEncoder, session, ring>>
        /\ pending' = next
        /\ \/ set.thrown /\ inForce' = inForce /\ Ends(o, "thrown")
           \/ ~set.thrown /\ inForce' = inForce /\ Ends(o, "refused")
           \/ ~set.thrown /\ DriverMayAccept(next) /\ inForce' = next /\ Ends(o, "accepted")
    BY <1>4 DEF Reconfigure, ReconfigureBegins, LeftPending
  <2>2. DOMAIN pending.par = ParField
    BY <2>1 DEF SettingsInv, SessionMade
  <2>3. CASE set.thrown /\ inForce' = inForce /\ Ends(o, "thrown")
    <3>1. /\ DOMAIN set.par = ParField /\ set.cfg = pending.cfg
          /\ set.par.codec = WithCodec(pending.par, o).codec
      BY <2>2, <2>3, ReconfigureParams
    <3>2. pending'.cfg = pending.cfg /\ pending'.par = set.par
      BY <2>1, <3>1
    <3> QED BY <2>1, <2>3, <3>1, <3>2, CallSettings
  <2>4. CASE ~set.thrown /\ inForce' = inForce /\ Ends(o, "refused")
    BY <2>1, <2>4, CallSettings
  <2>5. CASE ~set.thrown /\ DriverMayAccept(next) /\ inForce' = next /\ Ends(o, "accepted")
    BY <2>1, <2>5, CallSettings
  <2> QED BY <2>1, <2>3, <2>4, <2>5
<1> QED BY <1>1, <1>2, <1>3, <1>4 DEF SettingsNext

LEMMA SettingsInvariant == SettingsSpec => []SettingsInv
BY InitSettings, NextSettings, PTL DEF SettingsSpec

-----------------------------------------------------------------------------
(***************************************************************************)
(* The ring is sized once, in CreateEncoder; it covers the B pictures and  *)
(* the lookahead in force, on which the encoder's ring rests, unless a     *)
(* later call asked for a lookahead, by name or with a preset: the driver  *)
(* never lets the number of B pictures change, but for the lookahead it    *)
(* has no such rule.                                                       *)
(***************************************************************************)
THEOREM RingIsCovered == SettingsSpec => []RingCovers
<1>1. ASSUME SettingsInv, upEncoder,
             ring < inForce.cfg.bf + inForce.cfg.lookahead + ExtraOutputDelay
      PROVE  \E i \in Applied \ {1} :
               Given(log[i].options, "lookahead") \/ Given(log[i].options, "preset")
  <2>1. /\ ring = session.cfg.bf + session.cfg.lookahead + ExtraOutputDelay
        /\ inForce.cfg.bf = session.cfg.bf
        /\ session.cfg.bf \in Nat /\ session.cfg.lookahead \in Nat
    BY <1>1 DEF SettingsInv, SessionMade, RingSize
  <2>2. ExtraOutputDelay \in Nat
    BY SettingsAssumption
  <2>3. inForce.cfg.lookahead # session.cfg.lookahead
    BY <1>1, <2>1, <2>2
  <2>4. \E i \in AppliedIn(log) \ {1} : AsksLookahead(log[i].options)
    BY <1>1, <2>3 DEF SettingsInv, Settled
  <2> QED BY <2>4 DEF AppliedIn, Applied, AcceptedIn, Accepted, AsksLookahead
<1>2. SettingsInv => RingCovers
  BY <1>1 DEF RingCovers
<1> QED BY <1>2, SettingsInvariant, PTL

(***************************************************************************)
(* Reconfigure does not check again that the configuration suits the       *)
(* surfaces; it need not, as long as the calls since the creation name no  *)
(* preset without the surfaces' format and no other format.  No call names *)
(* another codec.                                                          *)
(***************************************************************************)
THEOREM MisfitsComeOfFormats == SettingsSpec => [](OneCodec => MisfitNeedsOtherFormat)
<1>1. ASSUME SettingsInv, OneCodec, upEncoder,
             ~Suits(EncoderFormat(eFormat), inForce.par.codec, inForce.cfg)
      PROVE  \E i \in Applied \ {1} : ~KeepsFormat(log[i].options, eFormat)
  <2>1. EncoderFormat(eFormat) = eFormat /\ inForce.par.codec = session.par.codec
    BY <1>1 DEF SettingsInv, SessionMade, EncoderFormat
  <2>2. \E i \in AppliedIn(log) \ {1} : ~KeepsFormat(log[i].options, eFormat)
    BY <1>1, <2>1 DEF SettingsInv, Settled, OneCodec
  <2> QED BY <2>2 DEF AppliedIn, Applied, AcceptedIn, Accepted
<1>2. SettingsInv /\ OneCodec => MisfitNeedsOtherFormat
  BY <1>1 DEF MisfitNeedsOtherFormat, KeepsFormat
<1> QED BY <1>2, SettingsInvariant, PTL

(***************************************************************************)
(* Every field of NamedField in force is what the latest call that reached *)
(* the driver asked for, a refused one included and a throwing one not, or *)
(* what a preset named later, or the class, brought; and the period of IDR *)
(* frames what the last of them named, or the GOP.  No call names another  *)
(* codec.                                                                  *)
(***************************************************************************)
THEOREM LatestIsInForce == SettingsSpec => [](OneCodec => LatestAskedWins)
<1>1. ASSUME SettingsInv, OneCodec, upEncoder
      PROVE  /\ \A f \in NamedField :
                  inForce.cfg[f] = Wanted(log, Applied, session.par.codec, f)
             /\ FollowsGop(log[Max(Applied)].options, inForce.cfg)
  BY <1>1 DEF SettingsInv, Settled, OneCodec, AppliedIn, Applied, AcceptedIn, Accepted
<1>2. SettingsInv /\ OneCodec => LatestAskedWins
  BY <1>1 DEF LatestAskedWins, Wanted, From, AskingIn, PresetDefault, FollowsGop
<1> QED BY <1>2, SettingsInvariant, PTL
=============================================================================
