-------------------------- MODULE MCEncoderSettings --------------------------
(* Values for the model checker: a small GPU, a driver with four presets,  *)
(* and dictionaries that take each branch of NvEncoderClInterface.         *)
EXTENDS EncoderSettings, TLC

SmallCaps == [c \in Codec |-> [min |-> <<2, 2>>, max |-> <<8, 8>>]]

\* P4 looks ahead and encodes a B picture when it is not tuned for latency.
DriverPreset(bf, lookahead, rc) ==
  [f \in ConfigField |->
     CASE f = "bf" -> bf [] f = "gop" -> 250 [] f = "idrperiod" -> 250
       [] f = "lookahead" -> lookahead [] f = "rc" -> rc [] f = "multipass" -> "disabled"
       [] f = "profile" -> "auto" [] f = "chroma" -> 1 [] f = "aq" -> 8
       [] f \in {"initqp", "qmin", "qmax", "constqp"} -> <<20, 20, 20>>
       [] OTHER -> 0]
DriverPresets ==
  <<"h264", "P4", "high_quality">> :> DriverPreset(2, 4, "vbr") @@
  <<"hevc", "P4", "high_quality">> :> DriverPreset(2, 4, "vbr") @@
  <<"h264", "P4", "low_latency">> :> DriverPreset(1, 0, "cbr") @@
  <<"hevc", "P4", "low_latency">> :> DriverPreset(1, 0, "cbr") @@
  <<"h264", "default", "undefined">> :> DriverPreset(1, 0, "constqp") @@
  <<"h264", "P4", "undefined">> :> DriverPreset(1, 0, "constqp")

Size(w, h) == "s" :> <<w, h>>
MaxSize(w, h) == "max_res" :> <<w, h>>
Kbit(n) == [number |-> n, suffix |-> "K"]
LowLatencyP4 == "preset" :> "P4" @@ "tuning_info" :> "low_latency"

Ctors ==
  { "codec" :> c @@ Size(4, 4) @@ o : c \in Codec,
    o \in { "preset" :> "P4" @@ "bf" :> 2 @@ "profile" :> "high",
            LowLatencyP4 @@ "bitrate" :> Kbit(1) @@ "temporalaq" :> NotGiven,
            "lookahead" :> 1 @@ "bitrate" :> Kbit(100) @@ "maxbitrate" :> Kbit(2) @@ "gop" :> 30,
            MaxSize(6, 6) @@ "constqp" :> <<30>> @@ "fps" :> <<29, 9, 7>>,
            "cq" :> 20 @@ "bitrate" :> Kbit(3) @@ "numrefl0" :> 7 @@ "rc" :> "vbr" } }
  \cup { Size(4, 4), "codec" :> "av1" @@ Size(4, 4), "codec" :> "h264" @@ Size(1, 4),
         "codec" :> "hevc" @@ Size(4, 4) @@ "b_frames" :> 2 }

Calls ==
  { "bitrate" :> [number |-> 7, suffix |-> "none"] @@ "multipass" :> "fullres",
    "preset" :> "P4", LowLatencyP4,
    LowLatencyP4 @@ "fmt" :> "YUV444", LowLatencyP4 @@ "fmt" :> "YUV420_10bit",
    "preset" :> "fastest" @@ "tuning_info" :> "low_latency" @@ "aq" :> 4,
    "preset" :> "P4" @@ "tuning_info" :> "fast" @@ "qmin" :> <<1, 2, 3>>,
    "fmt" :> "YUV444_10bit" @@ "idrperiod" :> 10,
    "fmt" :> "NV12" @@ "lookahead" :> 3,
    "bf" :> 3 @@ "vbvbufsize" :> Kbit(64), "bf" :> 2, "gop" :> 12 @@ "numrefl1" :> 2,
    "constqp" :> <<1, 2>> @@ "initqp" :> <<26>> @@ "ldkfs" :> 1,
    Size(2, 2), Size(2, 2) @@ MaxSize(4, 4), Size(6, 6) @@ MaxSize(6, 6),
    MaxSize(6, 6) @@ "repeatspspps" :> 1,
    "preset" :> "P4" @@ "profile" :> "highest",
    "s" :> <<4>>, "codec" :> "av1", "bf_number" :> 2 }
=============================================================================
