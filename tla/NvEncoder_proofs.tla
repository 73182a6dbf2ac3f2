--------------------------- MODULE NvEncoder_proofs ---------------------------
(***************************************************************************)
(* What the encoder ring guarantees for every number of B pictures,        *)
(* lookahead, extra delay, number of pictures and of failing NVENC calls.  *)
(***************************************************************************)
EXTENDS NvEncoder, TLAPS

\* The ring has at least one slot, and the delay counts what NVENC holds back.
LEMMA SizesOK ==
  /\ EncoderBufferSize \in Nat \ {0}
  /\ OutputDelay \in Nat
  /\ OutputDelay = EncoderBufferSize - 1
  /\ HeldBack \in Nat
  /\ HeldBack <= OutputDelay
BY EncoderAssumption DEF EncoderBufferSize, OutputDelay, HeldBack

\* Every picture has a slot.
LEMMA SlotExists == \A p \in Nat : SlotOf(p) \in Slot
BY SizesOK DEF SlotOf, Slot

\* Two pictures fewer than m_nEncoderBufferSize apart have different slots.
LEMMA SlotsDiffer ==
  ASSUME NEW p \in Nat, NEW q \in Nat, p < q, q - p < EncoderBufferSize
  PROVE  SlotOf(p) # SlotOf(q)
<1> DEFINE B == EncoderBufferSize
<1>1. B \in Nat \ {0}
  BY SizesOK
<1>2. ASSUME p % B = q % B
      PROVE  FALSE
  <2> DEFINE a == p \div B
             c == q \div B
  <2>1. a \in Int /\ c \in Int
    BY <1>1
  <2>2. p = (B * a) + (p % B) /\ q = (B * c) + (q % B)
    BY <1>1
  <2>3. p % B \in Int /\ q % B \in Int
    BY <1>1
  <2>4. q - p = B * (c - a)
    BY <1>1, <1>2, <2>1, <2>2, <2>3
  <2> HIDE DEF a, c, B
  <2>5. c - a >= 1 \/ c - a <= 0
    BY <2>1
  <2>6. CASE c - a >= 1
    <3>1. B * (c - a) >= B
      BY <1>1, <2>1, <2>6
    <3> QED
      BY <1>1, <2>1, <2>4, <3>1 DEF B
  <2>7. CASE c - a <= 0
    <3>1. B * (c - a) <= 0
      BY <1>1, <2>1, <2>7
    <3> QED
      BY <1>1, <2>1, <2>4, <3>1
  <2> QED
    BY <2>5, <2>6, <2>7
<1> QED
  BY <1>2 DEF SlotOf

-----------------------------------------------------------------------------
(***************************************************************************)
(* The inductive invariant.  InFlightBounded needs nothing but types.  A   *)
(* picture in flight keeps its slot because a slot always holds the newest *)
(* picture submitted to it, and the m_nEncoderBufferSize newest pictures   *)
(* have different slots.  An asynchronous call locks no picture held back  *)
(* because NVENC holds back at most HeldBack of the submitted ones.        *)
(***************************************************************************)
HoldsBack ==
  /\ m_iToSend - HeldBack <= hwReady
  /\ m_iGot <= hwReady
  /\ hwReady <= m_iToSend

NewestInSlots ==
  m_bEncoderInitialized =>
    \A p \in Nat : p < m_iToSend /\ m_iToSend - EncoderBufferSize <= p
                     => m_vBitstreamOutputBuffer[SlotOf(p)] = p

RingInv ==
  /\ EncTypeOK
  /\ InFlightBounded
  /\ DelayCoversLatency
  /\ HoldsBack
  /\ NewestInSlots

\* A call that hands out no packet leaves well-typed results.
LEMMA NoPacketTypes ==
  ASSUME Throws \/ Returns(<<>>)
  PROVE  thrown' \in BOOLEAN /\ vPacket' \in Seq(Nat \cup {NoPicture})
<1>1. vPacket' = <<>> /\ (thrown' = TRUE \/ thrown' = FALSE)
  BY DEF Throws, Returns
<1>2. thrown' \in BOOLEAN
  BY <1>1
<1>3. vPacket' \in Seq(Nat \cup {NoPicture})
  BY <1>1
<1> QED
  BY <1>2, <1>3

\* What GetEncodedPacket does to the counters, whoever calls it.
LEMMA PullMovesGot ==
  ASSUME EncTypeOK,
         NEW mapped \in [Slot -> BOOLEAN],
         NEW bitstream \in [Slot -> Nat \cup {NoPicture}],
         NEW ready \in Nat,
         NEW iEnd \in Int,
         NEW call \in {"async", "sync", "flush"},
         GetEncodedPacket(mapped, bitstream, ready, iEnd, call)
  PROVE  /\ m_iGot' \in Nat
         /\ m_iGot <= m_iGot' /\ m_iGot' <= ready
         /\ m_iGot' <= m_iGot \/ m_iGot' <= iEnd
         /\ m_vMappedInputBuffers' \in [Slot -> BOOLEAN]
         /\ vPacket' \in Seq(Nat \cup {NoPicture})
         /\ thrown' \in BOOLEAN
         /\ failures' \in Nat
         /\ \/ failedPulls' = 0 /\ iEnd <= m_iGot'
            \/ failedPulls' = failedPulls + 1
         /\ \/ earlyLocks' = earlyLocks
            \/ ready < iEnd /\ earlyLocks' = earlyLocks \cup {call}
<1> DEFINE Pic == Nat \cup {NoPicture}
<1>1. m_iGot \in Nat /\ failures \in Nat /\ failedPulls \in Nat
  BY DEF EncTypeOK
<1>2. Retrievable(iEnd) \in Nat
  BY <1>1 DEF Retrievable
<1>3. PICK n \in 0 .. Retrievable(iEnd) :
        /\ m_iGot + n <= ready
        /\ m_iGot' = m_iGot + n
        /\ m_vMappedInputBuffers' =
             [s \in Slot |->
                mapped[s] /\ \A p \in m_iGot .. m_iGot + n - 1 : s # SlotOf(p)]
        /\ \/ /\ n = Retrievable(iEnd)
              /\ Returns([i \in 1 .. n |-> LockedBitstream(bitstream, i)])
              /\ failedPulls' = 0
              /\ NvencSucceeds
              /\ earlyLocks' = earlyLocks
           \/ /\ n < Retrievable(iEnd)
              /\ Throws
              /\ failedPulls' = failedPulls + 1
              /\ \/ m_iGot + n < ready /\ NvencFails /\ earlyLocks' = earlyLocks
                 \/ /\ m_iGot + n = ready
                    /\ NvencSucceeds
                    /\ earlyLocks' = earlyLocks \cup {call}
  BY DEF GetEncodedPacket
<1>4. n \in Nat /\ n <= Retrievable(iEnd)
  BY <1>2, <1>3
<1>5. /\ m_iGot' \in Nat
      /\ m_iGot <= m_iGot' /\ m_iGot' <= ready
      /\ m_iGot' <= m_iGot \/ m_iGot' <= iEnd
  BY <1>1, <1>3, <1>4 DEF Retrievable
<1>6. m_vMappedInputBuffers' \in [Slot -> BOOLEAN]
  BY <1>3
<1>7. failures' \in Nat
  BY <1>1, <1>3 DEF NvencSucceeds, NvencFails
<1>8. \A i \in 1 .. n : LockedBitstream(bitstream, i) \in Pic
  <2> SUFFICES ASSUME NEW i \in 1 .. n
               PROVE  bitstream[SlotOf(m_iGot + i - 1)] \in Pic
    BY DEF LockedBitstream
  <2>1. m_iGot + i - 1 \in Nat
    BY <1>1, <1>4
  <2> QED
    BY <2>1, SlotExists
<1>9. [i \in 1 .. n |-> LockedBitstream(bitstream, i)] \in Seq(Pic)
  BY <1>4, <1>8
<1>10. thrown' \in BOOLEAN /\ vPacket' \in Seq(Pic)
  <2>1. CASE Returns([i \in 1 .. n |-> LockedBitstream(bitstream, i)])
    <3>1. thrown' \in BOOLEAN
      BY <2>1 DEF Returns
    <3>2. vPacket' = [i \in 1 .. n |-> LockedBitstream(bitstream, i)]
      BY <2>1 DEF Returns
    <3> QED
      BY <1>9, <3>1, <3>2
  <2>2. CASE Throws
    BY <2>2, NoPacketTypes
  <2> QED
    BY <1>3, <2>1, <2>2
<1>11. \/ failedPulls' = 0 /\ iEnd <= m_iGot'
       \/ failedPulls' = failedPulls + 1
  BY <1>1, <1>3 DEF Retrievable
<1>12. \/ earlyLocks' = earlyLocks
       \/ ready < iEnd /\ earlyLocks' = earlyLocks \cup {call}
  <2>1. CASE n < Retrievable(iEnd) /\ m_iGot + n = ready
    <3>1. ready < iEnd
      BY <1>1, <1>4, <2>1 DEF Retrievable
    <3> QED
      BY <1>3, <2>1, <3>1
  <2>2. CASE ~(n < Retrievable(iEnd) /\ m_iGot + n = ready)
    BY <1>3, <2>2
  <2> QED
    BY <2>1, <2>2
<1> QED
  BY <1>5, <1>6, <1>7, <1>10, <1>11, <1>12

LEMMA RingInvInit == EncInit => RingInv
<1> SUFFICES ASSUME EncInit
             PROVE  RingInv
  OBVIOUS
<1>1. EncTypeOK
  <2>1. m_vMappedInputBuffers \in [Slot -> BOOLEAN]
    BY DEF EncInit
  <2>2. /\ m_vInputFrames \in [Slot -> Nat \cup {NoPicture}]
        /\ m_vBitstreamOutputBuffer \in [Slot -> Nat \cup {NoPicture}]
        /\ vPacket \in Seq(Nat \cup {NoPicture})
    BY DEF EncInit
  <2> QED
    BY <2>1, <2>2 DEF EncInit, EncTypeOK
<1> QED
  BY <1>1, SizesOK
  DEF EncInit, RingInv, InFlightBounded, DelayCoversLatency, HoldsBack,
      NewestInSlots

\* The slot of the picture just submitted holds it; the others are untouched.
LEMMA SubmitKeepsNewest ==
  ASSUME EncTypeOK, NewestInSlots, m_bEncoderInitialized,
         m_iToSend' = m_iToSend + 1,
         m_vBitstreamOutputBuffer' =
           [m_vBitstreamOutputBuffer EXCEPT ![SlotOf(m_iToSend)] = m_iToSend]
  PROVE  NewestInSlots'
<1>1. m_iToSend \in Nat
      /\ m_vBitstreamOutputBuffer \in [Slot -> Nat \cup {NoPicture}]
  BY DEF EncTypeOK
<1> SUFFICES ASSUME NEW p \in Nat,
                    p < m_iToSend',
                    m_iToSend' - EncoderBufferSize <= p
             PROVE  m_vBitstreamOutputBuffer'[SlotOf(p)] = p
  BY Zenon DEF NewestInSlots
<1>2. SlotOf(p) \in Slot /\ SlotOf(m_iToSend) \in Slot
  BY <1>1, SlotExists
<1>3. CASE p = m_iToSend
  BY <1>1, <1>2, <1>3
<1>4. CASE p < m_iToSend
  <2>1. SlotOf(p) # SlotOf(m_iToSend)
    BY <1>1, <1>4, SlotsDiffer, SizesOK
  <2>2. m_vBitstreamOutputBuffer[SlotOf(p)] = p
    BY <1>1, <1>4, SizesOK DEF NewestInSlots
  <2> QED
    BY <1>1, <1>2, <2>1, <2>2
<1> QED
  BY <1>1, <1>3, <1>4

LEMMA RingInvStep == RingInv /\ [EncNext]_encVars => RingInv'
<1> SUFFICES ASSUME RingInv, [EncNext]_encVars
             PROVE  RingInv'
  OBVIOUS
<1>t. EncTypeOK
  BY DEF RingInv
<1>c. /\ m_iToSend \in Nat /\ m_iGot \in Nat /\ hwReady \in Nat
      /\ failedPulls \in Nat /\ failures \in Nat
      /\ m_iGot <= hwReady /\ hwReady <= m_iToSend
      /\ m_iToSend - m_iGot <= OutputDelay + failedPulls
      /\ m_iToSend - HeldBack <= hwReady
      /\ earlyLocks \subseteq {"sync"}
  BY DEF RingInv, EncTypeOK, InFlightBounded, DelayCoversLatency, HoldsBack
<1>n. NewestInSlots
  BY DEF RingInv
<1>s. SlotOf(m_iToSend) \in Slot
  BY <1>c, SlotExists
<1>copy. ASSUME CopyToDeviceFrame
         PROVE  /\ m_vInputFrames' \in [Slot -> Nat \cup {NoPicture}]
                /\ overrun' \in BOOLEAN
  <2>1. m_vInputFrames' \in [Slot -> Nat \cup {NoPicture}]
    BY <1>t, <1>c, <1>copy DEF CopyToDeviceFrame, EncTypeOK
  <2>2. overrun' \in BOOLEAN
    BY <1>t, <1>copy DEF CopyToDeviceFrame, EncTypeOK
  <2> QED
    BY <2>1, <2>2
<1>1. ASSUME NEW output_delay \in BOOLEAN, EncodeFrame(output_delay)
      PROVE  RingInv'
  <2> DEFINE slot == SlotOf(m_iToSend)
             mapped == [m_vMappedInputBuffers EXCEPT ![slot] = TRUE]
             bitstream == [m_vBitstreamOutputBuffer EXCEPT ![slot] = m_iToSend]
             iEnd == PullEnd(m_iToSend + 1, output_delay)
             call == IF output_delay THEN "async" ELSE "sync"
  <2>1. /\ m_bEncoderInitialized /\ m_bEncoderInitialized' = m_bEncoderInitialized
        /\ CopyToDeviceFrame
        /\ m_iToSend' = m_iToSend + 1
        /\ m_vBitstreamOutputBuffer' = bitstream
        /\ hwReady' \in hwReady .. m_iToSend + 1
        /\ m_iToSend + 1 - HeldBack <= hwReady'
        /\ GetEncodedPacket(mapped, bitstream, hwReady', iEnd, call)
    BY <1>1 DEF EncodeFrame
  <2>2. bitstream \in [Slot -> Nat \cup {NoPicture}] /\ mapped \in [Slot -> BOOLEAN]
    BY <1>t, <1>c DEF EncTypeOK
  <2>3. /\ iEnd \in Int
        /\ m_iToSend + 1 - OutputDelay <= iEnd /\ iEnd <= m_iToSend + 1
        /\ output_delay => iEnd = m_iToSend + 1 - OutputDelay
        /\ call \in {"async", "sync", "flush"}
        /\ ~output_delay => call = "sync"
    BY <1>c, SizesOK DEF PullEnd
  <2>4. hwReady' \in Nat /\ hwReady <= hwReady' /\ hwReady' <= m_iToSend + 1
    BY <1>c, <2>1
  <2> HIDE DEF slot, mapped, bitstream, iEnd, call
  <2>5. /\ m_iGot' \in Nat
        /\ m_iGot <= m_iGot' /\ m_iGot' <= hwReady'
        /\ m_vMappedInputBuffers' \in [Slot -> BOOLEAN]
        /\ vPacket' \in Seq(Nat \cup {NoPicture})
        /\ thrown' \in BOOLEAN
        /\ failures' \in Nat
        /\ \/ failedPulls' = 0 /\ iEnd <= m_iGot'
           \/ failedPulls' = failedPulls + 1
        /\ \/ earlyLocks' = earlyLocks
           \/ hwReady' < iEnd /\ earlyLocks' = earlyLocks \cup {call}
    BY <1>t, <2>1, <2>2, <2>3, <2>4, PullMovesGot
  <2>l. earlyLocks' \subseteq {"sync"}
    <3>1. CASE hwReady' < iEnd /\ earlyLocks' = earlyLocks \cup {call}
      <4>1. ~output_delay
        BY <1>c, <2>1, <2>3, <2>4, <3>1, SizesOK
      <4> QED
        BY <1>c, <2>3, <3>1, <4>1
    <3> QED
      BY <1>c, <2>5, <3>1
  <2>6. EncTypeOK'
    BY <1>t, <1>c, <1>copy, <2>1, <2>2, <2>4, <2>5, <2>l DEF EncTypeOK
  <2>7. InFlightBounded'
    BY <1>c, <2>1, <2>3, <2>4, <2>5, SizesOK DEF InFlightBounded
  <2>8. DelayCoversLatency' /\ HoldsBack'
    BY <1>c, <2>1, <2>4, <2>5, <2>l, SizesOK
    DEF DelayCoversLatency, HoldsBack, HeldBack
  <2>9. NewestInSlots'
    BY <1>t, <1>n, <2>1, SubmitKeepsNewest DEF bitstream, slot
  <2> QED
    BY <2>6, <2>7, <2>8, <2>9 DEF RingInv
<1>2. CASE EncodeFrameFails
  <2>1. EncTypeOK'
    <3>1. /\ Throws
          /\ CopyToDeviceFrame \/ UNCHANGED <<m_vInputFrames, overrun>>
      BY <1>2 DEF EncodeFrameFails
    <3>2. m_vMappedInputBuffers' \in [Slot -> BOOLEAN]
      BY <1>t, <1>2 DEF EncodeFrameFails, EncTypeOK
    <3>3. failures' \in Nat
      BY <1>c, <1>2 DEF EncodeFrameFails, NvencFails
    <3>4. /\ m_vInputFrames' \in [Slot -> Nat \cup {NoPicture}]
          /\ overrun' \in BOOLEAN
      BY <1>t, <1>copy, <3>1 DEF EncTypeOK
    <3> QED
      BY <1>t, <1>2, <3>1, <3>2, <3>3, <3>4, NoPacketTypes
      DEF EncodeFrameFails, EncTypeOK, hwVars
  <2> QED
    BY <1>2, <1>c, <1>n, <2>1
    DEF EncodeFrameFails, hwVars, RingInv, InFlightBounded,
        DelayCoversLatency, HoldsBack, NewestInSlots
<1>3. CASE EndEncode
  <2>1. /\ hwReady' = m_iToSend
        /\ m_bEncoderInitialized' = m_bEncoderInitialized
        /\ m_iToSend' = m_iToSend
        /\ m_vInputFrames' = m_vInputFrames
        /\ m_vBitstreamOutputBuffer' = m_vBitstreamOutputBuffer
        /\ overrun' = overrun
        /\ GetEncodedPacket(m_vMappedInputBuffers, m_vBitstreamOutputBuffer,
                            m_iToSend, m_iToSend, "flush")
    BY <1>3 DEF EndEncode, PullEnd
  <2>2. /\ m_iGot' \in Nat
        /\ m_iGot <= m_iGot' /\ m_iGot' <= m_iToSend
        /\ m_vMappedInputBuffers' \in [Slot -> BOOLEAN]
        /\ vPacket' \in Seq(Nat \cup {NoPicture})
        /\ thrown' \in BOOLEAN
        /\ failures' \in Nat
        /\ \/ failedPulls' = 0 /\ m_iToSend <= m_iGot'
           \/ failedPulls' = failedPulls + 1
        /\ earlyLocks' = earlyLocks
    BY <1>t, <1>c, <2>1, PullMovesGot DEF EncTypeOK
  <2>3. EncTypeOK'
    BY <1>t, <1>c, <2>1, <2>2 DEF EncTypeOK
  <2>4. InFlightBounded' /\ DelayCoversLatency' /\ HoldsBack'
    BY <1>c, <2>1, <2>2, SizesOK
    DEF InFlightBounded, DelayCoversLatency, HoldsBack, HeldBack
  <2>5. NewestInSlots'
    BY <1>n, <2>1 DEF NewestInSlots
  <2> QED
    BY <2>3, <2>4, <2>5 DEF RingInv
<1>4. CASE EndEncodeFails
  <2>1. EncTypeOK'
    <3>1. failures' \in Nat
      BY <1>c, <1>4 DEF EndEncodeFails, NvencFails
    <3> QED
      BY <1>t, <1>4, <3>1, NoPacketTypes DEF EndEncodeFails, EncTypeOK, hwVars
  <2> QED
    BY <1>4, <1>c, <1>n, <2>1
    DEF EndEncodeFails, hwVars, RingInv, InFlightBounded,
        DelayCoversLatency, HoldsBack, NewestInSlots
<1>5. CASE DestroyEncoder
  <2>1. /\ m_iGot' \in Nat /\ m_iGot <= m_iGot' /\ m_iGot' <= m_iToSend
        /\ failures' \in Nat
    BY <1>5, <1>c DEF DestroyEncoder, NvencSucceeds, NvencFails
  <2>2. EncTypeOK'
    <3>1. m_vMappedInputBuffers' \in [Slot -> BOOLEAN]
      BY <1>5 DEF DestroyEncoder
    <3>2. /\ m_vInputFrames' \in [Slot -> Nat \cup {NoPicture}]
          /\ m_vBitstreamOutputBuffer' \in [Slot -> Nat \cup {NoPicture}]
      BY <1>5 DEF DestroyEncoder
    <3> QED
      BY <1>t, <1>c, <1>5, <2>1, <3>1, <3>2, NoPacketTypes
      DEF DestroyEncoder, EncTypeOK
  <2>3. NewestInSlots'
    BY <1>5 DEF DestroyEncoder, NewestInSlots
  <2> QED
    BY <1>5, <1>c, <2>1, <2>2, <2>3, SizesOK
    DEF DestroyEncoder, RingInv, InFlightBounded, DelayCoversLatency,
        HoldsBack, HeldBack
<1>6. CASE UNCHANGED encVars
  <2>1. EncTypeOK'
    BY <1>t, <1>6 DEF encVars, EncTypeOK
  <2> QED
    BY <1>6, <1>c, <1>n, <2>1
    DEF encVars, RingInv, InFlightBounded, DelayCoversLatency, HoldsBack,
        NewestInSlots
<1> QED
  BY <1>1, <1>2, <1>3, <1>4, <1>5, <1>6 DEF EncNext

LEMMA RingInvariant == EncSpec => []RingInv
BY RingInvInit, RingInvStep, PTL DEF EncSpec

-----------------------------------------------------------------------------
\* The ring's state keeps its types, for every ring size and any number of
\* pictures and failures.
THEOREM TypeCorrect == EncSpec => []EncTypeOK
<1>1. RingInv => EncTypeOK
  BY DEF RingInv
<1> QED
  BY <1>1, RingInvariant, PTL

\* What EncodeFrame submits GetEncodedPacket keeps retrieving: at most
\* m_nOutputDelay pictures stay in flight, plus one per retrieval in a row that
\* threw.
THEOREM InFlightStaysBounded == EncSpec => []InFlightBounded
<1>1. RingInv => InFlightBounded
  BY DEF RingInv
<1> QED
  BY <1>1, RingInvariant, PTL

\* m_nOutputDelay covers what NVENC holds back, however many B pictures and
\* however deep a lookahead are asked for: of the calls that retrieve, only a
\* synchronous one, which has no delay, ever locks a picture held back.
THEOREM AsyncLocksFinished == EncSpec => []DelayCoversLatency
<1>1. RingInv => DelayCoversLatency
  BY DEF RingInv
<1> QED
  BY <1>1, RingInvariant, PTL

\* Every picture in flight finds its own bitstream when GetEncodedPacket locks
\* its slot, as long as no two retrievals in a row have thrown.
THEOREM SlotsKeepTheirPictures == EncSpec => []BitstreamsNotReused
<1>1. RingInv => BitstreamsNotReused
  BY SizesOK
  DEF RingInv, EncTypeOK, InFlightBounded, NewestInSlots, BitstreamsNotReused,
      InFlight
<1> QED
  BY <1>1, RingInvariant, PTL

\* Run copies a surface over a picture that was not retrieved only after a
\* retrieval that threw.
THEOREM OverrunAfterFailure == EncSpec => OverrunNeedsFailedPull
<1>1. RingInv /\ [EncNext]_encVars
        => [~overrun /\ overrun' => failedPulls > 0]_encVars
  <2> SUFFICES ASSUME RingInv, EncNext, ~overrun, overrun'
               PROVE  failedPulls > 0
    OBVIOUS
  <2>1. CopyToDeviceFrame
    BY DEF EncNext, EncodeFrame, EncodeFrameFails, EndEncode, EndEncodeFails,
           DestroyEncoder
  <2>2. m_iToSend - m_iGot >= EncoderBufferSize
    BY <2>1 DEF CopyToDeviceFrame
  <2> QED
    BY <2>2, SizesOK DEF RingInv, EncTypeOK, InFlightBounded
<1> QED
  BY <1>1, RingInvariant, PTL DEF EncSpec, OverrunNeedsFailedPull
=============================================================================
