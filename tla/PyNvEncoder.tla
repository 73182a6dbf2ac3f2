----------------------------- MODULE PyNvEncoder -----------------------------
(***************************************************************************)
(* The Python encoder class (src/python_vali/src/PyNvEncoder.cpp) on top   *)
(* of the encoding task: the task is created by the first call that needs  *)
(* it, each call turns the task's output into the caller's packet array,   *)
(* and Flush loops over FlushSinglePacket.                                 *)
(***************************************************************************)
EXTENDS NvencEncodeFrame

CONSTANT Format  \* pixel formats the class is constructed with

ASSUME PyAssumption ==
  Format \subseteq {"NV12", "YUV444", "YUV420_10bit", "YUV444_10bit"}

VARIABLES
  upEncoder,     \* has the task been created
  eFormat,
  encFormat,     \* the format the task was created with
  encSize,       \* encWidth and encHeight
  result,        \* "true", "false" or "raise": how the last call ended
  pc,            \* "idle", or "flushing" inside the loop of Flush
  num_packets    \* 1 for one or more: Flush only compares it with 0

pyOnly == <<upEncoder, eFormat, encFormat, encSize>>
flushVars == <<pc, num_packets>>
pyVars == <<taskVars, pyOnly, result, flushVars>>

\* The options are parsed; Reconfigure finds no task yet and does nothing.
PyInit ==
  /\ TaskInit
  /\ upEncoder = FALSE
  /\ eFormat \in Format
  /\ encFormat = "UNDEFINED"
  /\ encSize = encodeSize
  /\ result = "false"
  /\ pc = "idle"
  /\ num_packets = 0

\* A call creates the task when there is none; encoderFormat is what the call
\* derives from eFormat, and the encoder rejects the undefined format.
Created(encoderFormat) ==
  /\ upEncoder' = TRUE
  /\ encFormat' = IF upEncoder THEN encFormat ELSE encoderFormat
  /\ upEncoder \/ encoderFormat # "UNDEFINED"
  /\ UNCHANGED <<eFormat, encSize>>

\* NvencEncodeFrame::Make throws in whichever call needs the task: the options
\* are bad, or NVENC opens no session or refuses the settings.  The next such
\* call tries again; in Flush the exception ends the loop.
CreateThrows ==
  /\ ~upEncoder
  /\ result' = "raise"
  /\ pc' = "idle"
  /\ UNCHANGED <<taskVars, pyOnly, num_packets>>

\* EncodeSingleSurface after Execute: the packet, if any, replaces the content of
\* the caller's array or is appended to it.
StorePacket ==
  result' = IF status' = "FAIL" THEN "raise"
            ELSE IF output' = NoPicture THEN "false" ELSE "true"

EncodeSurface(size, sync) ==
  /\ pc = "idle"
  /\ Created(eFormat)
  /\ RunEncode(sync, size) \/ RunRejectsSize(size)
  /\ StorePacket
  /\ UNCHANGED flushVars

FlushSinglePacket ==
  /\ pc = "idle"
  /\ Created(eFormat)
  /\ RunFlush
  /\ StorePacket
  /\ UNCHANGED flushVars

FlushBegin ==
  /\ pc = "idle"
  /\ m_bEncoderInitialized
  /\ pc' = "flushing"
  /\ num_packets' = 0
  /\ UNCHANGED <<taskVars, pyOnly, result>>

\* Mutant: only an error ends the loop.
BugOnlyErrorEndsFlush == status' = "FAIL"

\* FlushSinglePacket returned false or threw.
FlushEnds == status' = "FAIL" \/ output' = NoPicture

\* One iteration of Flush.
FlushIterate ==
  /\ pc = "flushing"
  /\ Created(eFormat)
  /\ RunFlush
  /\ \/ /\ ~FlushEnds
        /\ StorePacket
        /\ num_packets' = 1
        /\ pc' = pc
     \/ /\ FlushEnds
        /\ UNCHANGED num_packets
        /\ result' = IF status' = "FAIL" THEN "raise"
                     ELSE IF num_packets > 0 THEN "true" ELSE "false"
        /\ pc' = "idle"

\* Reconfigure: the driver accepts, the driver refuses (it throws), or there is
\* no task and the options are dropped.
Reconfigure(size) ==
  /\ pc = "idle"
  /\ m_bEncoderInitialized
  /\ \/ /\ upEncoder
        /\ TaskReconfigure(size)
        /\ encSize' = encodeSize'
        /\ result' = "true"
     \/ /\ upEncoder
        /\ UNCHANGED <<taskVars, encSize>>
        /\ result' = "raise"
     \/ /\ ~upEncoder
        /\ UNCHANGED <<taskVars, encSize>>
        /\ result' = "true"
  /\ UNCHANGED <<upEncoder, eFormat, encFormat, flushVars>>

\* Mutant: Capabilities creates the task in one format.
BugCapabilitiesNV12 == "NV12"

\* Capabilities creates the task too, but knows two formats only.
CapabilitiesFormat ==
  IF eFormat \in {"NV12", "YUV444"} THEN eFormat ELSE "UNDEFINED"

Capabilities ==
  /\ pc = "idle"
  /\ m_bEncoderInitialized
  /\ Created(CapabilitiesFormat)
  /\ result' = "true"
  /\ UNCHANGED <<taskVars, flushVars>>

PyDestroy ==
  /\ pc = "idle"
  /\ upEncoder
  /\ TaskDestroy
  /\ UNCHANGED <<pyOnly, result, flushVars>>

PyNext ==
  \/ \E size \in Size, sync \in BOOLEAN : EncodeSurface(size, sync)
  \/ FlushSinglePacket
  \/ FlushBegin
  \/ FlushIterate
  \/ \E size \in Size : Reconfigure(size)
  \/ Capabilities
  \/ CreateThrows
  \/ PyDestroy

\* The loop of Flush runs in its caller's thread until it ends.
PySpec == PyInit /\ [][PyNext]_pyVars /\ WF_pyVars(FlushIterate)

-----------------------------------------------------------------------------
\* Whichever call created the task, and whichever reconfigurations the driver
\* refused, Width, Height and Format tell what the encoder really accepts.
ReportsEncoder ==
  upEncoder => encSize = encodeSize /\ encFormat = eFormat

\* The loop of Flush ends, whatever the ring and the queue hold and whichever
\* NVENC calls fail.
FlushTerminates == pc = "flushing" ~> pc = "idle"
=============================================================================
