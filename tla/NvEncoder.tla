------------------------------ MODULE NvEncoder ------------------------------
(***************************************************************************)
(* The ring of input surfaces and output bitstreams an NvEncoder keeps     *)
(* between its client and the NVENC hardware                               *)
(* (src/TC/src/TaskNvencEncodeFrame.cpp, src/TC/inc/NvEncoder.h).          *)
(*                                                                         *)
(* Picture p is the p-th surface the hardware accepts.  It is copied to    *)
(* slot p % m_nEncoderBufferSize, mapped, submitted, and retrieved in      *)
(* order once the hardware has finished it; m_iToSend and m_iGot count the *)
(* submitted and the retrieved pictures.  An NVENC call that fails throws, *)
(* and what the call had retrieved by then is lost with its local vector.  *)
(***************************************************************************)
EXTENDS Integers, Sequences

CONSTANTS
  FrameIntervalP,    \* distance of P pictures: 1 + the number of B pictures
  LookaheadDepth,    \* pictures the rate control looks ahead
  ExtraOutputDelay,  \* m_nExtraOutputDelay, 3 in NvEncoder.h
  MaxFrames,         \* bound: pictures submitted in a behaviour
  MaxFailures        \* bound: NVENC calls that fail in a behaviour

ASSUME EncoderAssumption ==
  /\ FrameIntervalP \in Nat
  /\ LookaheadDepth \in Nat
  /\ ExtraOutputDelay \in Nat
  /\ FrameIntervalP + ExtraOutputDelay > 0
  /\ MaxFrames \in Nat
  /\ MaxFailures \in Nat

VARIABLES
  m_bEncoderInitialized,
  m_iToSend,                 \* pictures submitted
  m_iGot,                    \* pictures retrieved
  m_vMappedInputBuffers,     \* slot -> is its input surface mapped
  m_vInputFrames,            \* slot -> the picture in its input surface
  m_vBitstreamOutputBuffer,  \* slot -> the picture its bitstream belongs to
  hwReady,                   \* pictures 0 .. hwReady - 1 may be locked: NVENC
                             \* is done with them or has all it needs
  vPacket,                   \* packets the last call handed to its caller
  thrown,                    \* did the last call throw
  failures,                  \* NVENC calls that have failed
  failedPulls,               \* retrievals that threw since the last that did not
  overrun,                   \* a picture was copied over one not yet retrieved
  earlyLocks                 \* history: the kinds of calls that have locked a
                             \* picture NVENC held back

hwVars == <<m_iToSend, m_vBitstreamOutputBuffer, hwReady>>
encVars == <<m_bEncoderInitialized, m_iToSend, m_iGot, m_vMappedInputBuffers,
             m_vInputFrames, m_vBitstreamOutputBuffer, hwReady, vPacket,
             thrown, failures, failedPulls, overrun, earlyLocks>>

EncoderBufferSize == FrameIntervalP + LookaheadDepth + ExtraOutputDelay

\* Mutants: the delay is the whole ring; the delay forgets the lookahead.
BugDelayIsBufferSize == EncoderBufferSize
BugDelayWithoutLookahead == FrameIntervalP + ExtraOutputDelay - 1

OutputDelay == EncoderBufferSize - 1

Slot == 0 .. EncoderBufferSize - 1
SlotOf(p) == p % EncoderBufferSize
NoPicture == -1
Picture == 0 .. MaxFrames - 1

InFlight == m_iGot .. m_iToSend - 1

\* How many pictures NVENC may hold back: those it looks ahead, and the B
\* pictures waiting for the P picture they refer to.
HeldBack == LookaheadDepth + (IF FrameIntervalP > 1 THEN FrameIntervalP - 1 ELSE 0)

(***************************************************************************)
(* CreateEncoder: the ring is empty and nothing is mapped.                 *)
(***************************************************************************)
BugGotStartsBeforeFirst ==
  /\ m_bEncoderInitialized = TRUE
  /\ m_iToSend = 0
  /\ m_iGot = -1
  /\ m_vMappedInputBuffers = [s \in Slot |-> FALSE]
  /\ m_vInputFrames = [s \in Slot |-> NoPicture]
  /\ m_vBitstreamOutputBuffer = [s \in Slot |-> NoPicture]
  /\ hwReady = 0
  /\ vPacket = <<>>
  /\ thrown = FALSE
  /\ failures = 0
  /\ failedPulls = 0
  /\ overrun = FALSE
  /\ earlyLocks = {}

EncInit ==
  /\ m_bEncoderInitialized = TRUE
  /\ m_iToSend = 0
  /\ m_iGot = 0
  /\ m_vMappedInputBuffers = [s \in Slot |-> FALSE]
  /\ m_vInputFrames = [s \in Slot |-> NoPicture]
  /\ m_vBitstreamOutputBuffer = [s \in Slot |-> NoPicture]
  /\ hwReady = 0
  /\ vPacket = <<>>
  /\ thrown = FALSE
  /\ failures = 0
  /\ failedPulls = 0
  /\ overrun = FALSE
  /\ earlyLocks = {}

\* An NVENC or CUDA call made by the current step returns an error.
NvencFails ==
  /\ failures < MaxFailures
  /\ failures' = failures + 1

NvencSucceeds == failures' = failures

Returns(packets) == vPacket' = packets /\ thrown' = FALSE
Throws == vPacket' = <<>> /\ thrown' = TRUE

\* The surface is copied into the input frame of the next slot to send.
CopyToDeviceFrame ==
  /\ m_vInputFrames' = [m_vInputFrames EXCEPT ![SlotOf(m_iToSend)] = m_iToSend]
  /\ overrun' = (overrun \/ m_iToSend - m_iGot >= EncoderBufferSize)

\* Mutant: a call retrieves at most one picture.
BugRetrieveOne(iEnd) == IF iEnd > m_iGot THEN 1 ELSE 0

\* How many pictures a call that retrieves up to iEnd has to retrieve.
Retrievable(iEnd) == IF iEnd > m_iGot THEN iEnd - m_iGot ELSE 0

\* The picture whose bitstream the i-th lock of a call gets.
LockedBitstream(bitstream, i) == bitstream[SlotOf(m_iGot + i - 1)]

(***************************************************************************)
(* GetEncodedPacket locks, copies, unlocks and unmaps the pictures from    *)
(* m_iGot up to iEnd.  m_iGot moves past a picture only when all its calls *)
(* succeed.  A lock waits for a picture NVENC is encoding; nothing stops   *)
(* the loop from locking one that NVENC holds back, and that lock fails.   *)
(***************************************************************************)
GetEncodedPacket(mapped, bitstream, ready, iEnd, call) ==
  \E n \in 0 .. Retrievable(iEnd) :
    /\ m_iGot + n <= ready
    /\ m_iGot' = m_iGot + n
    /\ m_vMappedInputBuffers' =
         [s \in Slot |->
            mapped[s] /\ \A p \in m_iGot .. m_iGot + n - 1 : s # SlotOf(p)]
    /\ \/ /\ n = Retrievable(iEnd)
          /\ Returns([i \in 1 .. n |-> LockedBitstream(bitstream, i)])
          /\ failedPulls' = 0
          /\ NvencSucceeds
          /\ earlyLocks' = earlyLocks
       \/ /\ n < Retrievable(iEnd)
          /\ Throws
          /\ failedPulls' = failedPulls + 1
          /\ \/ m_iGot + n < ready /\ NvencFails /\ earlyLocks' = earlyLocks
             \/ /\ m_iGot + n = ready
                /\ NvencSucceeds
                /\ earlyLocks' = earlyLocks \cup {call}

\* Mutant: a flush holds the output delay back as well.
BugPullAlwaysDelayed(sent, output_delay) == sent - OutputDelay

\* The end of the pictures a call retrieves after `sent` were submitted.
PullEnd(sent, output_delay) == IF output_delay THEN sent - OutputDelay ELSE sent

(***************************************************************************)
(* EncodeFrame after Run copied the surface: the slot is mapped, the       *)
(* picture submitted (NV_ENC_SUCCESS or NV_ENC_ERR_NEED_MORE_INPUT), and   *)
(* what is due is retrieved.                                               *)
(***************************************************************************)
EncodeFrame(output_delay) ==
  LET slot == SlotOf(m_iToSend)
  IN /\ m_bEncoderInitialized
     /\ m_iToSend < MaxFrames
     /\ CopyToDeviceFrame
     /\ m_iToSend' = m_iToSend + 1
     /\ m_vBitstreamOutputBuffer' =
          [m_vBitstreamOutputBuffer EXCEPT ![slot] = m_iToSend]
     /\ hwReady' \in hwReady .. m_iToSend + 1
     /\ m_iToSend + 1 - HeldBack <= hwReady'
     /\ GetEncodedPacket([m_vMappedInputBuffers EXCEPT ![slot] = TRUE],
                         m_vBitstreamOutputBuffer', hwReady',
                         PullEnd(m_iToSend + 1, output_delay),
                         IF output_delay THEN "async" ELSE "sync")
     /\ UNCHANGED m_bEncoderInitialized

\* Nothing is submitted or retrieved: cuMemcpy2DAsync fails at the first plane,
\* or at a later one, or nvEncMapInputResource fails, when the slot has been
\* written, or nvEncEncodePicture, when it stays mapped too.
EncodeFrameFails ==
  /\ m_bEncoderInitialized
  /\ \/ UNCHANGED <<m_vInputFrames, overrun, m_vMappedInputBuffers>>
     \/ /\ CopyToDeviceFrame
        /\ m_vMappedInputBuffers' \in
             {m_vMappedInputBuffers,
              [m_vMappedInputBuffers EXCEPT ![SlotOf(m_iToSend)] = TRUE]}
  /\ NvencFails
  /\ Throws
  /\ UNCHANGED <<m_bEncoderInitialized, hwVars, m_iGot, failedPulls, earlyLocks>>

\* EndEncode: SendEOS makes the hardware finish every submitted picture.
EndEncode ==
  /\ m_bEncoderInitialized
  /\ hwReady' = m_iToSend
  /\ GetEncodedPacket(m_vMappedInputBuffers, m_vBitstreamOutputBuffer,
                      m_iToSend, PullEnd(m_iToSend, FALSE), "flush")
  /\ UNCHANGED <<m_bEncoderInitialized, m_iToSend, m_vInputFrames,
                 m_vBitstreamOutputBuffer, overrun>>

EndEncodeFails ==
  /\ m_bEncoderInitialized
  /\ NvencFails
  /\ Throws
  /\ UNCHANGED <<m_bEncoderInitialized, hwVars, m_iGot, m_vMappedInputBuffers,
                 m_vInputFrames, failedPulls, overrun, earlyLocks>>

\* DestroyEncoder flushes, swallowing a failure, drops what it retrieved and
\* unmaps, unregisters and frees every slot.
DestroyEncoder ==
  /\ m_bEncoderInitialized
  /\ \E n \in 0 .. m_iToSend - m_iGot :
       /\ m_iGot' = m_iGot + n
       /\ IF n = m_iToSend - m_iGot THEN NvencSucceeds ELSE NvencFails
  /\ hwReady' = m_iToSend
  /\ m_vMappedInputBuffers' = [s \in Slot |-> FALSE]
  /\ m_vInputFrames' = [s \in Slot |-> NoPicture]
  /\ m_vBitstreamOutputBuffer' = [s \in Slot |-> NoPicture]
  /\ m_bEncoderInitialized' = FALSE
  /\ Returns(<<>>)
  /\ UNCHANGED <<m_iToSend, failedPulls, overrun, earlyLocks>>

EncNext ==
  \/ \E output_delay \in BOOLEAN : EncodeFrame(output_delay)
  \/ EncodeFrameFails
  \/ EndEncode
  \/ EndEncodeFails
  \/ DestroyEncoder

EncSpec == EncInit /\ [][EncNext]_encVars

-----------------------------------------------------------------------------
\* Types of the ring's state.
EncTypeOK ==
  /\ m_bEncoderInitialized \in BOOLEAN
  /\ m_iToSend \in Nat
  /\ m_iGot \in Nat
  /\ m_vMappedInputBuffers \in [Slot -> BOOLEAN]
  /\ m_vInputFrames \in [Slot -> Nat \cup {NoPicture}]
  /\ m_vBitstreamOutputBuffer \in [Slot -> Nat \cup {NoPicture}]
  /\ hwReady \in Nat
  /\ vPacket \in Seq(Nat \cup {NoPicture})
  /\ thrown \in BOOLEAN
  /\ failures \in Nat
  /\ failedPulls \in Nat
  /\ overrun \in BOOLEAN
  /\ earlyLocks \subseteq {"async", "sync", "flush"}

\* However synchronous calls, asynchronous calls and flushes are mixed, at most
\* m_nOutputDelay pictures are in flight after a call that did not throw, and
\* each retrieval that throws lets at most one more pile up: what EncodeFrame
\* submits GetEncodedPacket keeps retrieving.
InFlightBounded ==
  /\ m_iGot <= m_iToSend
  /\ m_iToSend - m_iGot <= OutputDelay + failedPulls

\* The bitstream of every picture in flight is in the slot the retrieval will
\* lock for it, unless two retrievals in a row have thrown: the ring is one
\* slot larger than the output delay, which is what one failure uses up.
BitstreamsNotReused ==
  m_bEncoderInitialized /\ failedPulls <= 1 =>
    \A p \in InFlight : m_vBitstreamOutputBuffer[SlotOf(p)] = p

\* Only a synchronous call ever locks a bitstream NVENC holds back.  The loop
\* of GetEncodedPacket locks whatever is due: after failed retrievals and mixed
\* calls too, it is m_nOutputDelay, which counts the B pictures and the
\* lookahead, that makes an asynchronous call stop before those pictures.
DelayCoversLatency == earlyLocks \subseteq {"sync"}

\* A picture is copied over one that was not retrieved only by a call made
\* after a retrieval that threw.
OverrunNeedsFailedPull == [][~overrun /\ overrun' => failedPulls > 0]_encVars
=============================================================================
