--------------------------- MODULE NvencEncodeFrame ---------------------------
(***************************************************************************)
(* The encoding task: NvencEncodeFrame::Run and the state of               *)
(* NvencEncodeFrame_Impl (src/TC/src/TaskNvencEncodeFrame.cpp), on top of  *)
(* the encoder ring.  One call of Run submits at most one surface and      *)
(* hands out at most one packet; what the ring returns beyond that waits   *)
(* in packetQueue.                                                         *)
(***************************************************************************)
EXTENDS NvEncoder, FiniteSets

CONSTANT Size   \* sizes a surface, or the encoder, may have

ASSUME TaskAssumption == Size # {}

VARIABLES
  encodeSize,    \* m_nWidth and m_nHeight of NvEncoder
  didEncode,
  didFlush,
  packetQueue,
  output,        \* the task's output: a picture's packet or NoPicture
  status,        \* TASK_EXEC_SUCCESS or TASK_EXEC_FAIL of the last Run
  lastRun,       \* did the last Run have an input
  delivered,     \* the packets Run has output, in order
  lost,          \* pictures retrieved by a call that threw
  failedRuns,    \* calls that submitted a picture and threw
  sentSinceFlush \* has a picture been submitted since didFlush was set

implVars == <<didEncode, didFlush, packetQueue, delivered>>
ghostVars == <<lost, failedRuns, sentSinceFlush>>
taskVars == <<encVars, encodeSize, output, status, lastRun, implVars, ghostVars>>

\* lost and failedRuns are empty until an NVENC call fails.
TaskInit ==
  /\ EncInit
  /\ encodeSize \in Size
  /\ didEncode = FALSE
  /\ didFlush = FALSE
  /\ packetQueue = <<>>
  /\ output = NoPicture
  /\ status = "SUCCESS"
  /\ lastRun = "none"
  /\ delivered = <<>>
  /\ lost = {}
  /\ failedRuns = 0
  /\ sentSinceFlush = FALSE

\* The ring is not called by this step.
RingIdle ==
  /\ Returns(<<>>)
  /\ UNCHANGED <<m_bEncoderInitialized, hwVars, m_iGot, m_vMappedInputBuffers,
                 m_vInputFrames, failures, failedPulls, overrun, earlyLocks>>

\* Mutant: new packets jump the queue.
BugPushFront == vPacket' \o packetQueue

Pushed == packetQueue \o vPacket'
HasOutput(queue) == queue # <<>>

\* Run pushes what the ring returned, then outputs the least recent packet.
PushThenPop ==
  LET queue == Pushed
  IN /\ status' = "SUCCESS"
     /\ \/ /\ ~HasOutput(queue)
           /\ output' = NoPicture
           /\ packetQueue' = queue
           /\ delivered' = delivered
        \/ /\ HasOutput(queue)
           /\ output' = Head(queue)
           /\ packetQueue' = Tail(queue)
           /\ delivered' = Append(delivered, Head(queue))

\* The catch clause of Run: the queue and the flags stay as they were, the
\* packets of the call that threw are gone.
CatchException ==
  /\ status' = "FAIL"
  /\ output' = NoPicture
  /\ lost' = lost \cup (m_iGot .. m_iGot' - 1)
  /\ failedRuns' = failedRuns + (m_iToSend' - m_iToSend)
  /\ UNCHANGED implVars

(***************************************************************************)
(* Run with an input surface of size `size`.                               *)
(***************************************************************************)
RunEncode(sync, size) ==
  /\ m_bEncoderInitialized
  /\ size = encodeSize
  /\ lastRun' = "encode"
  /\ EncodeFrame(~sync) \/ EncodeFrameFails
  /\ IF thrown'
     THEN CatchException
     ELSE /\ didEncode' = TRUE
          /\ PushThenPop
          /\ UNCHANGED <<didFlush, lost, failedRuns>>
  /\ sentSinceFlush' = (sentSinceFlush \/ (didFlush /\ m_iToSend' > m_iToSend))
  /\ UNCHANGED encodeSize

\* "Encoder resize required": nothing is copied, submitted or output.
RunRejectsSize(size) ==
  /\ m_bEncoderInitialized
  /\ size # encodeSize
  /\ lastRun' = "encode"
  /\ RingIdle
  /\ status' = "FAIL"
  /\ output' = NoPicture
  /\ UNCHANGED <<encodeSize, implVars, ghostVars>>

(***************************************************************************)
(* Run without an input: the first one after an encode ends the stream.    *)
(***************************************************************************)
RunFlush ==
  /\ m_bEncoderInitialized
  /\ lastRun' = "flush"
  /\ IF didEncode /\ ~didFlush THEN EndEncode \/ EndEncodeFails ELSE RingIdle
  /\ IF thrown'
     THEN CatchException
     ELSE /\ didFlush' = (didFlush \/ didEncode)
          /\ PushThenPop
          /\ UNCHANGED <<didEncode, lost, failedRuns>>
  /\ UNCHANGED <<encodeSize, sentSinceFlush>>

\* NvencEncodeFrame::Reconfigure: the sizes change only if the driver agrees.
TaskReconfigure(size) ==
  /\ m_bEncoderInitialized
  /\ encodeSize' = size
  /\ RingIdle
  /\ UNCHANGED <<output, status, lastRun, implVars, ghostVars>>

\* ~NvencEncodeFrame_Impl: the ring flushes and everything queued is dropped.
TaskDestroy ==
  /\ DestroyEncoder
  /\ packetQueue' = <<>>
  /\ lost' = lost \cup {packetQueue[i] : i \in DOMAIN packetQueue}
                  \cup (m_iGot .. m_iGot' - 1)
  /\ UNCHANGED <<encodeSize, didEncode, didFlush, output, status, lastRun,
                 delivered, failedRuns, sentSinceFlush>>

TaskNext ==
  \/ \E sync \in BOOLEAN, size \in Size : RunEncode(sync, size)
  \/ \E size \in Size : RunRejectsSize(size)
  \/ RunFlush
  \/ \E size \in Size : TaskReconfigure(size)
  \/ TaskDestroy

TaskSpec == TaskInit /\ [][TaskNext]_taskVars

-----------------------------------------------------------------------------
Retrieved == delivered \o packetQueue

\* Every retrieved picture's packet has been output, waits in the queue, or was
\* dropped by exactly one call that threw; packets leave in submission order
\* and none twice, whatever calls fail, until a copy overruns the ring.
PacketsInOrderOnce ==
  ~overrun =>
    /\ \A i, j \in DOMAIN Retrieved : i < j => Retrieved[i] < Retrieved[j]
    /\ {Retrieved[i] : i \in DOMAIN Retrieved} \cap lost = {}
    /\ {Retrieved[i] : i \in DOMAIN Retrieved} \cup lost = 0 .. m_iGot - 1

\* Once a flush call outputs nothing, no picture submitted before the first
\* flush is left in the ring or the queue.  It takes that a call to encode
\* once succeeded (didEncode) and that nothing was submitted after the flush
\* (didFlush is never reset).
FlushDrains ==
  /\ m_bEncoderInitialized
  /\ lastRun = "flush" /\ status = "SUCCESS" /\ output = NoPicture
  /\ didEncode /\ ~sentSinceFlush
  => m_iGot = m_iToSend /\ packetQueue = <<>>
=============================================================================
