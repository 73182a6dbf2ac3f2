------------------------ MODULE NvEncoderClInterface ------------------------
(***************************************************************************)
(* How NvEncoderClInterface (TC/src/NvCodecCliOptions.cpp) turns a         *)
(* dictionary of texts into the parameters of an NVENC session: par stands *)
(* for NV_ENC_INITIALIZE_PARAMS, cfg for the NV_ENC_CONFIG it points to.   *)
(*                                                                         *)
(* A dictionary is a function from the names given to their values.  A     *)
(* value is what its text says: a number, a sequence of the parts of a     *)
(* resolution, a frame rate or a list of QPs, a number with its suffix.    *)
(* cfg has one field for every option that has one; the fields no option   *)
(* reaches, and the enable flags that go with a value, are left out.  The  *)
(* codec's part of the configuration is a union of two structs: its fields *)
(* mean something only while the codec stays what the session was created  *)
(* with, so no dictionary here names another.                              *)
(***************************************************************************)
EXTENDS Integers, Sequences

CONSTANTS
  NotGiven,        \* the empty text: an option with it counts as absent
  PresetConfig,    \* <<codec, preset, tuning_info>> -> the driver's cfg for it
  ResolutionCaps,  \* codec -> the smallest and the largest frame the GPU encodes
  TenBitCodec,     \* codecs the GPU encodes 10 bit samples with
  Word             \* the values of a uint32_t are 0 .. Word - 1

Codec == {"h264", "hevc"}
SdkPreset == {"P1", "P2", "P3", "P4", "P5", "P6", "P7"}
TuningInfo == {"high_quality", "low_latency", "ultra_low_latency", "lossless"}
RcMode == {"constqp", "vbr", "cbr", "cbr_ll_hq", "cbr_hq", "vbr_hq"}
ProfileGuid ==
  [auto |-> "auto", baseline |-> "baseline", main |-> "main", high |-> "high",
   high_444 |-> "high_444", high_444_10bit |-> "main10", high_420_10bit |-> "main10"]

\* Options whose field takes the value of the text, by the part of cfg.
RateControlParam ==
  {"bitrate", "multipass", "ldkfs", "maxbitrate", "vbvbufsize", "vbvinit", "cq", "rc",
   "initqp", "qmin", "qmax", "constqp", "temporalaq", "lookahead", "aq"}
CodecParam == {"repeatspspps", "idrperiod", "numrefl0", "numrefl1"}
ParamName ==
  RateControlParam \cup CodecParam \cup
  {"codec", "preset", "tuning_info", "profile", "max_res", "s", "fps", "bf", "gop", "fmt"}

ASSUME ClInterfaceAssumption ==
  /\ \A key \in DOMAIN PresetConfig : key[1] \in Codec
  /\ DOMAIN ResolutionCaps = Codec
  /\ TenBitCodec \subseteq Codec
  /\ Word \in Nat \ {0}

-----------------------------------------------------------------------------
\* Each name of the dictionary is checked by the constructor.
ValidNames(o) == DOMAIN o \subseteq ParamName

Given(o, name) == name \in DOMAIN o /\ o[name] # NotGiven

-----------------------------------------------------------------------------
(* The value of a text; old is what the field holds before.                *)
Kilo == 1024
Multiplier == [none |-> 1, K |-> Kilo, M |-> Kilo * Kilo]
ParseBitrate(v) == (v.number * Multiplier[v.suffix]) % Word
ParseQpMode(v, old) ==
  IF Len(v) = 1 THEN <<v[1], v[1], v[1]>> ELSE IF Len(v) = 3 THEN v ELSE old
ParseNumRefFrames(v, old) == IF v \in 1 .. 6 THEN v ELSE old
FindRcMode(v) == IF v \in RcMode THEN v ELSE "cbr"
MultiPass(v) == IF v \in {"qres", "fullres"} THEN v ELSE "disabled"
FpsToNumDen(v) ==
  CASE Len(v) = 1 -> <<v[1], 1>>
    [] Len(v) = 2 -> <<v[1] * 10 + v[2], 10>>
    [] OTHER      -> <<v[1] * 100 + v[2] * 10 + v[3], 100>>

Parsed(name, v, old) ==
  CASE name \in {"bitrate", "maxbitrate", "vbvbufsize", "vbvinit"} -> ParseBitrate(v)
    [] name \in {"initqp", "qmin", "qmax", "constqp"} -> ParseQpMode(v, old)
    [] name \in {"numrefl0", "numrefl1"} -> ParseNumRefFrames(v, old)
    [] name \in {"ldkfs", "temporalaq"} -> 1
    [] name = "rc" -> FindRcMode(v)
    [] name = "multipass" -> MultiPass(v)
    [] OTHER -> v

\* What the texts of some options hold: numbers, one with a suffix, lists of QPs.
WellFormed(o) ==
  /\ \A f \in {"bf", "lookahead"} : Given(o, f) => o[f] \in Nat
  /\ \A f \in {"bitrate", "maxbitrate", "vbvbufsize", "vbvinit"} :
       Given(o, f) => o[f].number \in Nat /\ o[f].suffix \in DOMAIN Multiplier
  /\ \A f \in {"initqp", "qmin", "qmax", "constqp"} : Given(o, f) => o[f] \in Seq(Nat)

\* cfg with the fields of names that o gives, and with those of values.
Named(c, o, names) ==
  [f \in DOMAIN c |-> IF f \in names /\ Given(o, f) THEN Parsed(f, o[f], c[f]) ELSE c[f]]
Reset(c, values) ==
  [f \in DOMAIN c |-> IF f \in DOMAIN values THEN values[f] ELSE c[f]]

-----------------------------------------------------------------------------
(* The preset a dictionary names, and the tuning that goes with P1 .. P7.  *)
PresetOf(o) == IF o.preset \in SdkPreset THEN o.preset ELSE "default"
IsSdkPreset(o) == Given(o, "preset") /\ PresetOf(o) \in SdkPreset
TuningOf(o) ==
  IF ~IsSdkPreset(o) THEN "undefined"
  ELSE IF ~Given(o, "tuning_info") THEN "high_quality"
  ELSE IF o.tuning_info \in TuningInfo THEN o.tuning_info ELSE "undefined"
LowLatency(o) == TuningOf(o) \in {"low_latency", "ultra_low_latency"}
Lossless(o) == TuningOf(o) = "lossless"

-----------------------------------------------------------------------------
(* SetupRateControl.  Naming a bitrate sets the mode, except with a preset *)
(* P1 .. P7 that is not tuned for latency; naming cq clears the bitrates.  *)
RateControlDefault(o) ==
  [f \in RateControlParam |->
     CASE f = "rc" -> "constqp"
       [] f = "multipass" -> "disabled"
       [] f = "constqp" /\ ~Lossless(o) -> <<28, 31, 25>>
       [] f \in {"initqp", "qmin", "qmax", "constqp"} -> <<0, 0, 0>>
       [] OTHER -> 0]

\* Mutant: a reconfiguration starts from the defaults too.
BugRateControlReset(c, o, r) == Reset(c, RateControlDefault(o))

RateControlStart(c, o, r) == IF r THEN c ELSE Reset(c, RateControlDefault(o))

BitrateMode(c, o) ==
  IF ~Given(o, "bitrate") \/ (IsSdkPreset(o) /\ ~LowLatency(o)) THEN c
  ELSE IF IsSdkPreset(o)
  THEN Reset(c, [rc |-> "cbr", multipass |-> "qres", ldkfs |-> 1])
  ELSE Reset(c, [rc |-> "cbr"])

SetupRateControl(c, o, r) ==
  LET named == Named(BitrateMode(RateControlStart(c, o, r), o), o, RateControlParam)
  IN IF Given(o, "cq") THEN Reset(named, [bitrate |-> 0, maxbitrate |-> 0]) ELSE named

(* SetupH264Config and SetupHEVCConfig.  The period of IDR frames follows  *)
(* the GOP unless this call names it; the chroma format and the bit depth  *)
(* are those of this call's pixel format, and stay when it has none.       *)
CodecDefault == [chroma |-> 1, depth |-> 0]
CodecStart(c, r) ==
  IF r THEN c ELSE Reset(Reset(c, [f \in CodecParam |-> 0]), CodecDefault)

H264Format(c, o) ==
  IF Given(o, "fmt") /\ o.fmt = "YUV444" THEN Reset(c, [chroma |-> 3]) ELSE c

HevcFields ==
  [YUV444 |-> [chroma |-> 3],
   YUV444_10bit |-> [chroma |-> 3, depth |-> 2],
   YUV420_10bit |-> [chroma |-> 1, depth |-> 2]]

\* Mutant: a call that names no such format is taken for 8 bit 4:2:0.
BugHevcFormatNotKept(c, o) ==
  Reset(c, IF Given(o, "fmt") /\ o.fmt \in DOMAIN HevcFields
           THEN HevcFields[o.fmt] ELSE CodecDefault)

HevcFormat(c, o) ==
  IF Given(o, "fmt") /\ o.fmt \in DOMAIN HevcFields THEN Reset(c, HevcFields[o.fmt]) ELSE c

SetupH264Config(c, o, r) ==
  Named(H264Format(Reset(CodecStart(c, r), [idrperiod |-> c.gop]), o), o, CodecParam)
SetupHEVCConfig(c, o, r) ==
  Named(HevcFormat(Reset(CodecStart(c, r), [idrperiod |-> c.gop]), o), o, CodecParam)

(* SetupEncConfig.  The profile named is used at creation only; 4:4:4      *)
(* input overrides it, for HEVC only in a call that names the 8 bit format. *)
InfiniteGop == -1   \* NVENC_INFINITE_GOPLENGTH
Profile(o) == IF Given(o, "profile") THEN o.profile ELSE "auto"
ForcedProfile(c, codec, o) ==
  IF c.chroma # 3 THEN c
  ELSE IF codec = "h264" THEN Reset(c, [profile |-> "high_444"])
  ELSE IF Given(o, "fmt") /\ o.fmt = "YUV444" THEN Reset(c, [profile |-> "frext"])
  ELSE c

SetupEncConfig(c, codec, o, r) ==
  LET start == IF r THEN c
               ELSE Reset(c, [bf |-> 1, gop |-> InfiniteGop, profile |-> ProfileGuid[Profile(o)]])
      rate == SetupRateControl(Named(start, o, {"bf", "gop"}), o, r)
      set == IF codec = "h264" THEN SetupH264Config(rate, o, r) ELSE SetupHEVCConfig(rate, o, r)
  IN ForcedProfile(set, codec, o)

-----------------------------------------------------------------------------
(* SetupInitParams.  What it has written when it throws stays written: the *)
(* codec and the preset come before every other check.                     *)
DefaultParams ==
  [codec |-> "none", preset |-> "none", tuning_info |-> "undefined",
   s |-> <<0, 0>>, max_res |-> <<0, 0>>, fps |-> <<30, 1>>]

ParseResolution(v) == Len(v) = 2   \* the text has an 'x'
TenBit(o) == Given(o, "fmt") /\ o.fmt \in {"YUV444_10bit", "YUV420_10bit"}
ValidateResolution(codec, v) ==
  \A i \in 1 .. 2 : ResolutionCaps[codec].min[i] <= v[i] /\ v[i] <= ResolutionCaps[codec].max[i]
SizeAllowed(codec, o) ==
  Given(o, "s") =>
    /\ ParseResolution(o.s)
    /\ ValidateResolution(codec, o.s)
    /\ TenBit(o) => codec \in TenBitCodec /\ ~(Given(o, "codec") /\ o.codec = "h264")

WithCodec(p, o) ==
  IF Given(o, "codec") /\ o.codec \in Codec THEN [p EXCEPT !.codec = o.codec] ELSE p
WithPreset(p, o) == IF Given(o, "preset") THEN [p EXCEPT !.preset = PresetOf(o)] ELSE p

\* Without a largest resolution of its own, a size is its own maximum.
WithSize(p, o) ==
  IF Given(o, "s")
  THEN [p EXCEPT !.s = o.s, !.max_res = IF Given(o, "max_res") THEN o.max_res ELSE o.s]
  ELSE p
WithFps(p, o) == IF Given(o, "fps") THEN [p EXCEPT !.fps = FpsToNumDen(o.fps)] ELSE p
WithTuning(p, o) ==
  IF TuningOf(o) # "undefined" THEN [p EXCEPT !.tuning_info = TuningOf(o)] ELSE p

SetupInitParams(par, cfg, o, r) ==
  LET start == WithCodec(IF r THEN par ELSE DefaultParams, o)
      preset == WithPreset(start, o)
      sized == WithTuning(WithFps(WithSize(preset, o), o), o)
      key == <<start.codec, preset.preset, TuningOf(o)>>
      loaded == IF Given(o, "preset") THEN PresetConfig[key] ELSE cfg
      Throws(p) == [par |-> p, cfg |-> cfg, thrown |-> TRUE]
  IN IF (Given(o, "codec") /\ o.codec \notin Codec) \/ start.codec = "none"
     THEN Throws(start)
     ELSE IF \/ Profile(o) \notin DOMAIN ProfileGuid
             \/ Given(o, "max_res") /\ ~ParseResolution(o.max_res)
             \/ ~SizeAllowed(start.codec, o)
     THEN Throws(preset)
     ELSE IF Given(o, "preset") /\ key \notin DOMAIN PresetConfig
     THEN Throws(sized)
     ELSE [par |-> sized, cfg |-> SetupEncConfig(loaded, start.codec, o, r), thrown |-> FALSE]
=============================================================================
