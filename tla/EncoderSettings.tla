--------------------------- MODULE EncoderSettings ---------------------------
(***************************************************************************)
(* The settings of an encoder over its life: the dictionary PyNvEncoder    *)
(* keeps until the first picture creates the session, and the dictionaries *)
(* of the calls to Reconfigure (PyNvEncoder.cpp, NvencEncodeFrame_Impl and *)
(* NvEncoder of TaskNvencEncodeFrame.cpp, on top of NvEncoderClInterface). *)
(*                                                                         *)
(* The task keeps one init_params and one encodeConfig.  A Reconfigure     *)
(* writes into them before it asks the driver, so `pending` also holds     *)
(* what a refused or a thrown call wrote; `inForce` is what NvEncoder      *)
(* copied the last time the driver accepted.                               *)
(***************************************************************************)
EXTENDS NvEncoderClInterface, FiniteSetsExt

CONSTANTS
  Format,            \* pixel formats an object is constructed with
  CtorOptions,       \* dictionaries given to the constructor
  CallOptions,       \* dictionaries given to Reconfigure
  ExtraOutputDelay,  \* m_nExtraOutputDelay
  MaxCalls           \* bound: calls to Reconfigure once there is a session

ASSUME SettingsAssumption ==
  /\ ExtraOutputDelay \in Nat \ {0}
  /\ MaxCalls \in Nat

VARIABLES
  eFormat,
  options,    \* the dictionary of the constructor, with its "fmt"
  upEncoder,  \* has the task been created
  pending,    \* init_params and encodeConfig of the task
  inForce,    \* m_initializeParams and m_encodeConfig of NvEncoder
  session,    \* what the driver created the session with
  ring,       \* m_nEncoderBufferSize
  result,     \* "true" or "raise": how the last call ended
  log         \* the dictionaries since the creation, and what became of each

settingsVars == <<eFormat, options, upEncoder, pending, inForce, session, ring, result, log>>

ConfigField ==
  RateControlParam \cup CodecParam \cup {"bf", "gop", "profile", "chroma", "depth"}
Blank == [par |-> DefaultParams, cfg |-> [f \in ConfigField |-> 0]]

\* The empty text says nothing a text may say, and a preset is a whole NV_ENC_CONFIG.
ASSUME TextsAssumption ==
  /\ NotGiven \notin Nat /\ NotGiven \notin Seq(Nat)
  /\ NotGiven \notin RcMode \cup {"disabled", "qres", "fullres"}
  /\ \A o \in CtorOptions \cup CallOptions : WellFormed(o)
  /\ \A key \in DOMAIN PresetConfig : DOMAIN PresetConfig[key] = ConfigField

-----------------------------------------------------------------------------
(* The constructor requires a resolution and overrides "fmt" by the name   *)
(* of its format; it knows four.  No name of the dictionary is checked yet *)
(* and no session is opened.                                               *)
FormatName(f) ==
  IF f \in {"NV12", "YUV444", "YUV444_10bit", "YUV420_10bit"} THEN f ELSE "UNDEFINED"
Constructs(o) == "s" \in DOMAIN o /\ o.s # NotGiven /\ ParseResolution(o.s)
WithFormat(o, f) ==
  [n \in DOMAIN o \cup {"fmt"} |-> IF n = "fmt" THEN FormatName(f) ELSE o[n]]

SettingsInit ==
  /\ eFormat \in Format
  /\ \E o \in CtorOptions : Constructs(o) /\ options = WithFormat(o, eFormat)
  /\ upEncoder = FALSE
  /\ pending = Blank /\ inForce = Blank /\ session = Blank
  /\ ring = 0 /\ result = "true" /\ log = <<>>

(* The surfaces' format of the session that the first picture creates.     *)
EncoderFormat(f) == IF f = "P12" THEN "YUV420_10bit" ELSE f

(* CreateEncoder: the configuration must suit the surfaces.                *)
Is10Bit(f) == f \in {"YUV420_10bit", "YUV444_10bit"}
Is444(f) == f \in {"YUV444", "YUV444_10bit"}
Suits(f, codec, c) ==
  /\ codec \in Codec
  /\ codec = "h264" => ~Is10Bit(f)
  /\ codec = "hevc" /\ Is10Bit(f) => c.depth = 2
  /\ Is444(f) => c.chroma = 3

\* Mutant: the ring has no room for the lookahead.
BugRingWithoutLookahead(c) == c.bf + ExtraOutputDelay
RingSize(c) == c.bf + c.lookahead + ExtraOutputDelay

Create ==
  /\ ~upEncoder
  /\ eFormat \in {"NV12", "YUV444", "YUV420_10bit", "P12", "YUV444_10bit"}
  /\ ValidNames(options)
  /\ LET set == SetupInitParams(Blank.par, Blank.cfg, options, FALSE)
         made == [par |-> set.par, cfg |-> set.cfg]
     IN /\ ~set.thrown
        /\ \A i \in 1 .. 2 : set.par.s[i] > 0
        /\ Suits(EncoderFormat(eFormat), set.par.codec, set.cfg)
        /\ pending' = made /\ inForce' = made /\ session' = made
        /\ ring' = RingSize(set.cfg)
  /\ upEncoder' = TRUE /\ result' = "true"
  /\ log' = <<[options |-> options, outcome |-> "accepted"]>>
  /\ UNCHANGED <<eFormat, options>>

\* The call throws, in one of the checks or because the driver refuses, and
\* the next picture tries again with the same dictionary.
CreateFails ==
  /\ ~upEncoder
  /\ result' = "raise"
  /\ UNCHANGED <<eFormat, options, upEncoder, pending, inForce, session, ring, log>>

-----------------------------------------------------------------------------
(* nvEncReconfigureEncoder (nvEncodeAPI.h): the codec, the GOP structure   *)
(* and the largest size cannot change, and the size only below a largest   *)
(* size given at creation.  It may refuse for reasons of its own.          *)
DriverMayAccept(next) ==
  /\ next.par.codec = session.par.codec
  /\ next.cfg.bf = session.cfg.bf
  /\ next.par.max_res = session.par.max_res
  /\ next.par.s # inForce.par.s =>
       \A i \in 1 .. 2 : 0 < next.par.s[i] /\ next.par.s[i] <= session.par.max_res[i]

\* Without a task the dictionary is dropped, and the call returns true.
ReconfigureDropped(o) ==
  /\ ~upEncoder
  /\ result' = "true"
  /\ UNCHANGED <<eFormat, options, upEncoder, pending, inForce, session, ring, log>>

ReconfigureBegins(o) ==
  /\ upEncoder /\ Len(log) <= MaxCalls
  /\ UNCHANGED <<eFormat, options, upEncoder, session, ring>>
Ends(o, outcome) ==
  /\ log' = Append(log, [options |-> o, outcome |-> outcome])
  /\ result' = IF outcome = "accepted" THEN "true" ELSE "raise"

ReconfigureInvalid(o) ==
  /\ ReconfigureBegins(o) /\ ~ValidNames(o)
  /\ Ends(o, "thrown")
  /\ UNCHANGED <<pending, inForce>>

\* What a call that is not accepted leaves in init_params and encodeConfig.
LeftPending(set) == [par |-> set.par, cfg |-> set.cfg]

Reconfigure(o) ==
  /\ ReconfigureBegins(o) /\ ValidNames(o)
  /\ LET set == SetupInitParams(pending.par, pending.cfg, o, TRUE)
         next == [par |-> set.par, cfg |-> set.cfg]
     IN \/ /\ set.thrown
           /\ pending' = LeftPending(set)
           /\ UNCHANGED inForce
           /\ Ends(o, "thrown")
        \/ /\ ~set.thrown
           /\ pending' = LeftPending(set)
           /\ UNCHANGED inForce
           /\ Ends(o, "refused")
        \/ /\ ~set.thrown /\ DriverMayAccept(next)
           /\ pending' = next /\ inForce' = next
           /\ Ends(o, "accepted")

SettingsNext ==
  \/ Create
  \/ CreateFails
  \/ \E o \in CallOptions : ReconfigureDropped(o) \/ ReconfigureInvalid(o) \/ Reconfigure(o)

SettingsSpec == SettingsInit /\ [][SettingsNext]_settingsVars

-----------------------------------------------------------------------------
\* The calls whose settings are in force: those since the creation that
\* reached the driver, up to the last one it accepted.
Accepted == {i \in DOMAIN log : log[i].outcome = "accepted"}
Applied == {i \in DOMAIN log : i <= Max(Accepted) /\ log[i].outcome # "thrown"}

\* What a call asks a field to be, NotGiven when it leaves the field alone: cq
\* clears the bit rates, named or not, and a bit rate brings a mode of rate
\* control of its own, which naming the mode overrides.
BitrateSetsMode(o) == Given(o, "bitrate") /\ (IsSdkPreset(o) => LowLatency(o))
AskedFor(o, f) ==
  IF f \in {"bitrate", "maxbitrate"} /\ Given(o, "cq") THEN 0
  ELSE IF Given(o, f) THEN Parsed(f, o[f], NotGiven)
  ELSE CASE f = "rc" /\ BitrateSetsMode(o) -> "cbr"
         [] f = "multipass" /\ BitrateSetsMode(o) /\ IsSdkPreset(o) -> "qres"
         [] f = "ldkfs" /\ BitrateSetsMode(o) /\ IsSdkPreset(o) -> 1
         [] OTHER -> NotGiven
AsksFor(o, f) == AskedFor(o, f) # NotGiven

\* Every field of the configuration that an option sets, but the period of IDR
\* frames, which follows the GOP, the profile, which only the creation and 4:4:4
\* input set, and the two that follow the pixel format.
NamedField == ConfigField \ {"idrperiod", "profile", "chroma", "depth"}
CreationDefault(o, f) ==
  CASE f = "bf" -> 1 [] f = "gop" -> InfiniteGop
    [] f \in RateControlParam -> RateControlDefault(o)[f]
    [] OTHER -> 0
PresetDefault(o, f) == PresetConfig[<<session.par.codec, PresetOf(o), TuningOf(o)>>][f]

\* Every field of NamedField in force is what the latest call that reached the
\* driver asked for, refused calls included and thrown ones not: the value of
\* the latest one that asks for it well-formed, if none later loads a preset;
\* else the preset's value, or the class's default when only the creation named
\* a preset.  The period of IDR frames is what the very last of these calls
\* named, or the GOP: one named earlier is gone (NvCodecCliOptions.cpp:1195, 1296).
LatestAskedWins ==
  upEncoder =>
    LET from == Max({1} \cup {i \in Applied : Given(log[i].options, "preset")})
        Asking(f) == {i \in Applied : i >= from /\ AsksFor(log[i].options, f)}
        latest == log[Max(Applied)].options
    IN /\ \A f \in NamedField :
            inForce.cfg[f] =
              IF Asking(f) # {} THEN AskedFor(log[Max(Asking(f))].options, f)
              ELSE IF from > 1 THEN PresetDefault(log[from].options, f)
              ELSE CreationDefault(log[1].options, f)
       /\ inForce.cfg.idrperiod =
            IF Given(latest, "idrperiod") THEN latest.idrperiod ELSE inForce.cfg.gop

\* Reconfigure repeats none of the checks CreateEncoder makes, and loading a
\* preset overwrites the chroma format and the bit depth; still a configuration
\* in force does not suit the surfaces only if some call after the creation
\* named a preset without the surfaces' pixel format, or another format.
MisfitNeedsOtherFormat ==
  upEncoder /\ ~Suits(EncoderFormat(eFormat), inForce.par.codec, inForce.cfg) =>
    \E i \in Applied \ {1} :
      LET o == log[i].options
      IN /\ Given(o, "preset") \/ Given(o, "fmt")
         /\ ~(Given(o, "fmt") /\ o.fmt = eFormat)

\* The ring is sized when the session is created and never again: it covers the
\* B pictures and the lookahead in force (the assumption NvEncoder rests on)
\* unless a later call asked for a lookahead, by name or with a preset.
RingCovers ==
  upEncoder /\ ring < inForce.cfg.bf + inForce.cfg.lookahead + ExtraOutputDelay =>
    \E i \in Applied \ {1} :
      Given(log[i].options, "lookahead") \/ Given(log[i].options, "preset")
=============================================================================
