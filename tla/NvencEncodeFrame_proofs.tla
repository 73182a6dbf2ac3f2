------------------------ MODULE NvencEncodeFrame_proofs ------------------------
(***************************************************************************)
(* What the encoding task promises its client for every ring, any number   *)
(* of pictures, sizes and failing NVENC calls: the packets come in order   *)
(* and once, a flush drains, and until the first error the task is the     *)
(* FIFO of PacketFifo.                                                     *)
(***************************************************************************)
EXTENDS MCPyNvEncoder, NvEncoder_proofs, SequenceTheorems

-----------------------------------------------------------------------------
(* Sequences of packets.                                                   *)

Increasing(s) == \A i, j \in DOMAIN s : i < j => s[i] < s[j]
Elements(s) == {s[i] : i \in DOMAIN s}

\* The packets of the pictures from .. from + n - 1, in order.
Consecutive(s, from, n) == Len(s) = n /\ \A i \in 1 .. n : s[i] = from + i - 1

\* The elements of a concatenation are those of its parts.
LEMMA ElementsOfConcat ==
  ASSUME NEW s \in Seq(Nat), NEW t \in Seq(Nat)
  PROVE  Elements(s \o t) = Elements(s) \cup Elements(t)
<1>1. /\ Len(s) \in Nat /\ Len(t) \in Nat
      /\ DOMAIN s = 1 .. Len(s) /\ DOMAIN t = 1 .. Len(t)
      /\ s \o t \in Seq(Nat)
      /\ Len(s \o t) = Len(s) + Len(t)
      /\ DOMAIN (s \o t) = 1 .. Len(s) + Len(t)
      /\ \A i \in 1 .. Len(s) + Len(t) :
           (s \o t)[i] = IF i <= Len(s) THEN s[i] ELSE t[i - Len(s)]
  BY ConcatProperties, LenProperties
<1>2. ASSUME NEW x \in Elements(s \o t)
      PROVE  x \in Elements(s) \cup Elements(t)
  <2>1. PICK i \in 1 .. Len(s) + Len(t) : x = (s \o t)[i]
    BY <1>1 DEF Elements
  <2>2. CASE i <= Len(s)
    BY <1>1, <2>1, <2>2 DEF Elements
  <2>3. CASE i > Len(s)
    <3>1. i - Len(s) \in 1 .. Len(t) /\ x = t[i - Len(s)]
      BY <1>1, <2>1, <2>3
    <3> QED
      BY <1>1, <3>1 DEF Elements
  <2> QED
    BY <1>1, <2>2, <2>3
<1>3. ASSUME NEW x \in Elements(s)
      PROVE  x \in Elements(s \o t)
  <2>1. PICK i \in 1 .. Len(s) : x = s[i]
    BY <1>1 DEF Elements
  <2>2. i \in 1 .. Len(s) + Len(t) /\ x = (s \o t)[i]
    BY <1>1, <2>1
  <2> QED
    BY <1>1, <2>2 DEF Elements
<1>4. ASSUME NEW x \in Elements(t)
      PROVE  x \in Elements(s \o t)
  <2>1. PICK i \in 1 .. Len(t) : x = t[i]
    BY <1>1 DEF Elements
  <2>2. Len(s) + i \in 1 .. Len(s) + Len(t) /\ x = (s \o t)[Len(s) + i]
    BY <1>1, <2>1
  <2> QED
    BY <1>1, <2>2 DEF Elements
<1> QED
  BY <1>2, <1>3, <1>4

\* Consecutive packets contain exactly their pictures.
LEMMA ElementsOfConsecutive ==
  ASSUME NEW t \in Seq(Nat), NEW from \in Nat, NEW n \in Nat, Consecutive(t, from, n)
  PROVE  Elements(t) = from .. from + n - 1
<1>1. DOMAIN t = 1 .. n /\ \A i \in 1 .. n : t[i] = from + i - 1
  BY LenProperties DEF Consecutive
<1>2. ASSUME NEW x \in from .. from + n - 1
      PROVE  x \in Elements(t)
  <2>1. x - from + 1 \in 1 .. n /\ t[x - from + 1] = x
    BY <1>1
  <2> QED
    BY <1>1, <2>1 DEF Elements
<1>3. ASSUME NEW x \in Elements(t)
      PROVE  x \in from .. from + n - 1
  BY <1>1 DEF Elements
<1> QED
  BY <1>2, <1>3

\* Later pictures after earlier ones keep a sequence increasing.
LEMMA IncreasingConcat ==
  ASSUME NEW s \in Seq(Nat), NEW t \in Seq(Nat), NEW from \in Nat, NEW n \in Nat,
         Increasing(s), Elements(s) \subseteq 0 .. from - 1, Consecutive(t, from, n)
  PROVE  Increasing(s \o t)
<1>1. /\ Len(s) \in Nat /\ DOMAIN s = 1 .. Len(s)
      /\ DOMAIN (s \o t) = 1 .. Len(s) + n
      /\ \A i \in 1 .. Len(s) + n :
           (s \o t)[i] = IF i <= Len(s) THEN s[i] ELSE from + (i - Len(s)) - 1
  <2>1. /\ Len(s) \in Nat /\ DOMAIN s = 1 .. Len(s)
        /\ DOMAIN (s \o t) = 1 .. Len(s) + Len(t)
        /\ \A i \in 1 .. Len(s) + Len(t) :
             (s \o t)[i] = IF i <= Len(s) THEN s[i] ELSE t[i - Len(s)]
    BY ConcatProperties, LenProperties
  <2>2. Len(t) = n /\ \A i \in 1 .. n : t[i] = from + i - 1
    BY DEF Consecutive
  <2>3. ASSUME NEW i \in 1 .. Len(s) + n, i > Len(s)
        PROVE  t[i - Len(s)] = from + (i - Len(s)) - 1
    <3>1. i - Len(s) \in 1 .. n
      BY <2>1, <2>3
    <3> QED
      BY <2>2, <3>1
  <2> QED
    BY <2>1, <2>2, <2>3
<1>2. ASSUME NEW i \in 1 .. Len(s)
      PROVE  s[i] \in Nat /\ s[i] < from
  <2>1. s[i] \in Elements(s)
    BY <1>1 DEF Elements
  <2>2. s[i] \in 0 .. from - 1
    BY <2>1
  <2> QED
    BY <2>2
<1> SUFFICES ASSUME NEW i \in 1 .. Len(s) + n, NEW j \in 1 .. Len(s) + n, i < j
             PROVE  (s \o t)[i] < (s \o t)[j]
  BY <1>1 DEF Increasing
<1>3. CASE j <= Len(s)
  <2>1. i \in 1 .. Len(s) /\ j \in 1 .. Len(s)
    BY <1>1, <1>3
  <2>2. s[i] < s[j]
    BY <1>1, <2>1 DEF Increasing
  <2>3. (s \o t)[i] = s[i] /\ (s \o t)[j] = s[j]
    BY <1>1, <2>1
  <2> QED
    BY <2>2, <2>3
<1>4. CASE j > Len(s) /\ i <= Len(s)
  BY <1>1, <1>2, <1>4
<1>5. CASE i > Len(s)
  BY <1>1, <1>5
<1> QED
  BY <1>1, <1>3, <1>4, <1>5

\* Moving the head of a queue to the end of what was delivered changes
\* nothing in the two together.
LEMMA MoveHead ==
  ASSUME NEW d \in Seq(Nat), NEW q \in Seq(Nat), q # <<>>
  PROVE  /\ Head(q) \in Nat /\ Tail(q) \in Seq(Nat)
         /\ Append(d, Head(q)) \in Seq(Nat)
         /\ Len(Append(d, Head(q))) = Len(d) + 1
         /\ Append(d, Head(q)) \o Tail(q) = d \o q
<1>1. /\ Head(q) \in Nat /\ Tail(q) \in Seq(Nat)
      /\ Len(q) \in Nat /\ Len(q) >= 1 /\ q[1] = Head(q)
      /\ Len(Tail(q)) = Len(q) - 1
      /\ \A i \in 1 .. Len(q) - 1 : Tail(q)[i] = q[i + 1]
  BY HeadTailProperties, LenProperties, EmptySeq
<1>2. /\ Append(d, Head(q)) \in Seq(Nat)
      /\ Len(d) \in Nat
      /\ Len(Append(d, Head(q))) = Len(d) + 1
      /\ \A i \in 1 .. Len(d) : Append(d, Head(q))[i] = d[i]
      /\ Append(d, Head(q))[Len(d) + 1] = q[1]
  BY <1>1, AppendProperties, LenProperties
<1>3. /\ Append(d, Head(q)) \o Tail(q) \in Seq(Nat)
      /\ Len(Append(d, Head(q)) \o Tail(q)) = Len(d) + Len(q)
      /\ \A i \in 1 .. Len(d) + Len(q) :
           (Append(d, Head(q)) \o Tail(q))[i] =
             IF i <= Len(d) + 1 THEN Append(d, Head(q))[i]
                                ELSE Tail(q)[i - (Len(d) + 1)]
  BY <1>1, <1>2, ConcatProperties
<1>4. /\ d \o q \in Seq(Nat)
      /\ Len(d \o q) = Len(d) + Len(q)
      /\ \A i \in 1 .. Len(d) + Len(q) :
           (d \o q)[i] = IF i <= Len(d) THEN d[i] ELSE q[i - Len(d)]
  BY ConcatProperties
<1>5. ASSUME NEW i \in 1 .. Len(d) + Len(q)
      PROVE  (Append(d, Head(q)) \o Tail(q))[i] = (d \o q)[i]
  <2>1. CASE i <= Len(d)
    BY <1>1, <1>2, <1>3, <1>4, <2>1
  <2>2. CASE i = Len(d) + 1
    BY <1>1, <1>2, <1>3, <1>4, <2>2
  <2>3. CASE i > Len(d) + 1
    <3>1. i - (Len(d) + 1) \in 1 .. Len(q) - 1
      BY <1>1, <1>2, <2>3
    <3>2. Tail(q)[i - (Len(d) + 1)] = q[i - Len(d)]
      BY <1>1, <1>2, <3>1
    <3> QED
      BY <1>1, <1>2, <1>3, <1>4, <2>3, <3>2
  <2> QED
    BY <1>1, <1>2, <2>1, <2>2, <2>3
<1>6. Append(d, Head(q)) \o Tail(q) = d \o q
  BY <1>3, <1>4, <1>5, SeqEqual
<1> QED
  BY <1>1, <1>2, <1>6

-----------------------------------------------------------------------------
(***************************************************************************)
(* What a call of the ring returns to the task.  Nothing is overrun while  *)
(* at most m_nEncoderBufferSize pictures are in flight, and then every     *)
(* lock finds its own picture; in any case a lock finds some picture.      *)
(***************************************************************************)
SlotsFilled ==
  m_bEncoderInitialized =>
    \A p \in Nat : p < m_iToSend => m_vBitstreamOutputBuffer[SlotOf(p)] \in Nat

FitsUnlessOverrun == ~overrun => m_iToSend - m_iGot <= EncoderBufferSize

CallInv == RingInv /\ SlotsFilled /\ FitsUnlessOverrun

\* The calls Run makes; DestroyEncoder is made by the destructor alone.
RingCall ==
  \/ \E output_delay \in BOOLEAN : EncodeFrame(output_delay)
  \/ EncodeFrameFails
  \/ EndEncode
  \/ EndEncodeFails
  \/ RingIdle

\* What the caller learns: a call that throws hands out nothing and either
\* counts a failure or has submitted its picture; any other call hands out
\* the pictures it retrieved, in order unless one was copied over.
CallReturns ==
  /\ m_bEncoderInitialized' = m_bEncoderInitialized
  /\ m_iToSend' \in {m_iToSend, m_iToSend + 1}
  /\ m_iGot <= m_iGot' /\ m_iGot' <= m_iToSend'
  /\ vPacket' \in Seq(Nat)
  /\ thrown' \in BOOLEAN
  /\ thrown' => \/ failures' = failures + 1
                \/ failures' = failures /\ m_iToSend' = m_iToSend + 1
  /\ ~thrown' => /\ failures' = failures
                 /\ failedPulls' = 0 \/ failedPulls' = failedPulls
  /\ overrun => overrun'
  /\ ~overrun' /\ ~thrown' => Consecutive(vPacket', m_iGot, m_iGot' - m_iGot)

\* What GetEncodedPacket hands out, for a bitstream in which every picture's
\* slot holds a picture.
LEMMA PullReturns ==
  ASSUME NEW mapped, NEW bitstream, NEW ready \in Nat, NEW iEnd \in Int, NEW call,
         m_iGot \in Nat, failures \in Nat,
         \A p \in Nat : p < iEnd => bitstream[SlotOf(p)] \in Nat,
         GetEncodedPacket(mapped, bitstream, ready, iEnd, call)
  PROVE  /\ vPacket' \in Seq(Nat)
         /\ thrown' \in BOOLEAN
         /\ thrown' => \/ failures' = failures + 1
                       \/ failures' = failures /\ m_iGot' = ready
         /\ thrown' => m_iGot' < iEnd
         /\ ~thrown' => /\ failures' = failures
                        /\ failedPulls' = 0
                        /\ m_iGot' - m_iGot \in Nat
                        /\ iEnd <= m_iGot'
                        /\ Len(vPacket') = m_iGot' - m_iGot
                        /\ \A i \in 1 .. m_iGot' - m_iGot :
                             vPacket'[i] = bitstream[SlotOf(m_iGot + i - 1)]
<1>1. Retrievable(iEnd) \in Nat
  BY DEF Retrievable
<1>2. PICK n \in 0 .. Retrievable(iEnd) :
        /\ m_iGot' = m_iGot + n
        /\ \/ /\ n = Retrievable(iEnd)
              /\ Returns([i \in 1 .. n |-> LockedBitstream(bitstream, i)])
              /\ failedPulls' = 0
              /\ NvencSucceeds
           \/ /\ n < Retrievable(iEnd)
              /\ Throws
              /\ NvencFails \/ (m_iGot + n = ready /\ NvencSucceeds)
  BY DEF GetEncodedPacket
<1>3. n \in Nat /\ n <= Retrievable(iEnd)
  BY <1>1, <1>2
<1>4. CASE /\ n = Retrievable(iEnd)
           /\ Returns([i \in 1 .. n |-> LockedBitstream(bitstream, i)])
           /\ failedPulls' = 0
           /\ NvencSucceeds
  <2>1. vPacket' = [i \in 1 .. n |-> bitstream[SlotOf(m_iGot + i - 1)]]
    BY <1>4 DEF Returns, LockedBitstream
  <2>2. \A i \in 1 .. n : m_iGot + i - 1 \in Nat /\ m_iGot + i - 1 < iEnd
    BY <1>3, <1>4 DEF Retrievable
  <2>3. vPacket' \in Seq(Nat)
    <3>1. \A i \in 1 .. n : bitstream[SlotOf(m_iGot + i - 1)] \in Nat
      BY <2>2
    <3> QED
      BY <1>3, <2>1, <3>1
  <2>4. Len(vPacket') = n /\ m_iGot' - m_iGot = n
    BY <1>2, <1>3, <2>1
  <2>5. thrown' = FALSE /\ failures' = failures /\ failedPulls' = 0
    BY <1>4 DEF Returns, NvencSucceeds
  <2>6. iEnd <= m_iGot'
    BY <1>2, <1>3, <1>4 DEF Retrievable
  <2> QED
    BY <1>3, <2>1, <2>3, <2>4, <2>5, <2>6
<1>5. CASE /\ n < Retrievable(iEnd)
           /\ Throws
           /\ NvencFails \/ (m_iGot + n = ready /\ NvencSucceeds)
  <2>1. vPacket' = <<>> /\ thrown' = TRUE
    BY <1>5 DEF Throws
  <2>2. m_iGot' < iEnd
    BY <1>2, <1>3, <1>5 DEF Retrievable
  <2>3. \/ failures' = failures + 1
        \/ failures' = failures /\ m_iGot' = ready
    BY <1>2, <1>5 DEF NvencSucceeds, NvencFails
  <2> QED
    BY <2>1, <2>2, <2>3, EmptySeq
<1> QED
  BY <1>2, <1>4, <1>5

\* Submitting a picture fills its slot, whatever was in it.
LEMMA SubmitFills ==
  ASSUME RingInv, SlotsFilled, m_bEncoderInitialized,
         NEW p \in Nat, p < m_iToSend + 1
  PROVE  [m_vBitstreamOutputBuffer EXCEPT ![SlotOf(m_iToSend)] = m_iToSend][SlotOf(p)] \in Nat
<1>1. /\ m_iToSend \in Nat
      /\ m_vBitstreamOutputBuffer \in [Slot -> Nat \cup {NoPicture}]
  BY DEF RingInv, EncTypeOK
<1>2. SlotOf(p) \in Slot /\ SlotOf(m_iToSend) \in Slot
  BY <1>1, SlotExists
<1>3. CASE p = m_iToSend
  BY <1>1, <1>2, <1>3
<1>4. CASE p < m_iToSend
  <2>1. m_vBitstreamOutputBuffer[SlotOf(p)] \in Nat
    BY <1>4 DEF SlotsFilled
  <2> QED
    BY <1>1, <1>2, <2>1
<1> QED
  BY <1>1, <1>3, <1>4

\* A step of the ring or of nobody keeps the ring's invariant.
LEMMA RingIdleKeeps == RingInv /\ RingIdle => RingInv'
<1> SUFFICES ASSUME RingInv, RingIdle
             PROVE  RingInv'
  OBVIOUS
<1>1. /\ UNCHANGED <<m_bEncoderInitialized, m_iToSend, m_vBitstreamOutputBuffer,
                     hwReady, m_iGot, m_vMappedInputBuffers, m_vInputFrames,
                     failures, failedPulls, overrun, earlyLocks>>
      /\ Returns(<<>>)
  BY DEF RingIdle, hwVars
<1>2. EncTypeOK'
  BY <1>1, NoPacketTypes DEF RingInv, EncTypeOK
<1> QED
  BY <1>1, <1>2
  DEF RingInv, InFlightBounded, DelayCoversLatency, HoldsBack, NewestInSlots

\* The i-th picture a call retrieves is one of the `size` newest ones.
LEMMA RetrievedIsRecent ==
  ASSUME NEW got \in Nat, NEW got2 \in Nat, NEW sent \in Nat, NEW size \in Nat,
         got <= got2, got2 <= sent, sent - got <= size, NEW i \in 1 .. got2 - got
  PROVE  /\ got + i - 1 \in Nat
         /\ got + i - 1 < sent
         /\ sent - size <= got + i - 1
OBVIOUS

\* Retrieving makes room; submitting takes one slot.
LEMMA RetrievingFits ==
  ASSUME NEW got \in Nat, NEW got2 \in Nat, NEW sent \in Nat, NEW size \in Nat,
         got <= got2, sent - got <= size
  PROVE  sent - got2 <= size
OBVIOUS

LEMMA SubmittingFits ==
  ASSUME NEW got \in Nat, NEW got2 \in Nat, NEW sent \in Nat, NEW size \in Nat,
         got <= got2, sent - got < size, NEW next \in Nat, next = sent + 1
  PROVE  next - got2 <= size
OBVIOUS

LEMMA CallKeeps ==
  ASSUME CallInv, RingCall, m_bEncoderInitialized
  PROVE  CallInv' /\ CallReturns
<1>1. RingInv /\ RingInv'
  BY RingInvStep, RingIdleKeeps DEF CallInv, RingCall, EncNext
<1>2. /\ m_iToSend \in Nat /\ m_iGot \in Nat /\ m_iGot <= m_iToSend
      /\ failures \in Nat
      /\ m_iToSend' \in Nat /\ m_iGot' \in Nat /\ m_iGot' <= m_iToSend'
      /\ hwReady \in Nat /\ hwReady' \in Nat
      /\ EncoderBufferSize \in Nat
  BY <1>1, SizesOK DEF RingInv, EncTypeOK, InFlightBounded
<1>3. SlotsFilled /\ FitsUnlessOverrun
  BY DEF CallInv
<1>o. ASSUME CopyToDeviceFrame
      PROVE  /\ overrun => overrun'
             /\ ~overrun' => ~overrun /\ m_iToSend - m_iGot < EncoderBufferSize
  <2>1. /\ overrun => overrun'
        /\ ~overrun' => ~overrun /\ ~(m_iToSend - m_iGot >= EncoderBufferSize)
    BY <1>o, Zenon DEF CopyToDeviceFrame
  <2>2. ~(m_iToSend - m_iGot >= EncoderBufferSize) => m_iToSend - m_iGot < EncoderBufferSize
    BY <1>2
  <2> QED
    BY <2>1, <2>2, Zenon
<1>4. ASSUME NEW output_delay \in BOOLEAN, EncodeFrame(output_delay)
      PROVE  SlotsFilled' /\ FitsUnlessOverrun' /\ CallReturns
  <2> DEFINE mapped == [m_vMappedInputBuffers EXCEPT ![SlotOf(m_iToSend)] = TRUE]
             iEnd == PullEnd(m_iToSend + 1, output_delay)
             call == IF output_delay THEN "async" ELSE "sync"
  <2>1. /\ m_bEncoderInitialized' = m_bEncoderInitialized
        /\ m_iToSend' = m_iToSend + 1
        /\ m_vBitstreamOutputBuffer' =
             [m_vBitstreamOutputBuffer EXCEPT ![SlotOf(m_iToSend)] = m_iToSend]
        /\ GetEncodedPacket(mapped, m_vBitstreamOutputBuffer', hwReady', iEnd, call)
    BY <1>4 DEF EncodeFrame
  <2>o. /\ overrun => overrun'
        /\ ~overrun' => m_iToSend - m_iGot < EncoderBufferSize
    <3>1. CopyToDeviceFrame
      BY <1>4 DEF EncodeFrame
    <3> QED
      BY <1>o, <3>1, Zenon
  <2>2. iEnd \in Int /\ iEnd <= m_iToSend + 1
    BY <1>2, SizesOK DEF PullEnd
  <2>3. \A p \in Nat : p < m_iToSend + 1 => m_vBitstreamOutputBuffer'[SlotOf(p)] \in Nat
    BY <1>1, <1>3, <2>1, SubmitFills
  <2>4. m_iGot <= m_iGot'
    BY <1>2, <2>1 DEF GetEncodedPacket, Retrievable
  <2> HIDE DEF mapped, iEnd, call
  <2>5. /\ vPacket' \in Seq(Nat)
        /\ thrown' \in BOOLEAN
        /\ thrown' => \/ failures' = failures + 1
                      \/ failures' = failures /\ m_iGot' = hwReady'
        /\ ~thrown' => /\ failures' = failures
                       /\ failedPulls' = 0
                       /\ m_iGot' - m_iGot \in Nat
                       /\ Len(vPacket') = m_iGot' - m_iGot
                       /\ \A i \in 1 .. m_iGot' - m_iGot :
                            vPacket'[i] = m_vBitstreamOutputBuffer'[SlotOf(m_iGot + i - 1)]
    <3>1. \A p \in Nat : p < iEnd => m_vBitstreamOutputBuffer'[SlotOf(p)] \in Nat
      BY <1>2, <2>2, <2>3
    <3> QED
      BY <1>2, <2>1, <2>2, <3>1, PullReturns
  <2>6. SlotsFilled'
    BY <2>1, <2>3 DEF SlotsFilled
  <2>7. FitsUnlessOverrun'
    <3> SUFFICES ASSUME ~overrun'
                 PROVE  m_iToSend' - m_iGot' <= EncoderBufferSize
      BY Zenon DEF FitsUnlessOverrun, EncoderBufferSize
    <3>1. m_iToSend - m_iGot < EncoderBufferSize
      BY <2>o, Zenon
    <3> QED
      BY <1>2, <2>1, <2>4, <3>1, SubmittingFits, Zenon
  <2>8. ~overrun' /\ ~thrown' => Consecutive(vPacket', m_iGot, m_iGot' - m_iGot)
    <3> SUFFICES ASSUME ~overrun', ~thrown'
                 PROVE  Consecutive(vPacket', m_iGot, m_iGot' - m_iGot)
      OBVIOUS
    <3>1. m_iToSend' - m_iGot <= EncoderBufferSize
      <4>1. m_iToSend - m_iGot < EncoderBufferSize
        BY <2>o, Zenon
      <4> QED
        BY <1>2, <2>1, <4>1
    <3>2. ASSUME NEW i \in 1 .. m_iGot' - m_iGot
          PROVE  vPacket'[i] = m_iGot + i - 1
      <4>1. /\ m_iGot + i - 1 \in Nat
            /\ m_iGot + i - 1 < m_iToSend'
            /\ m_iToSend' - EncoderBufferSize <= m_iGot + i - 1
        BY <1>2, <2>4, <3>1, RetrievedIsRecent, Zenon
      <4>2. m_vBitstreamOutputBuffer'[SlotOf(m_iGot + i - 1)] = m_iGot + i - 1
        BY <1>1, <2>1, <4>1 DEF RingInv, NewestInSlots
      <4> QED
        BY <2>5, <4>2
    <3> QED
      BY <2>5, <3>2 DEF Consecutive
  <2>9. /\ m_iToSend' \in {m_iToSend, m_iToSend + 1}
        /\ m_iGot <= m_iGot' /\ m_iGot' <= m_iToSend'
    BY <1>2, <2>1, <2>4
  <2>10. CallReturns
    BY <2>1, <2>o, <2>5, <2>8, <2>9, Zenon DEF CallReturns
  <2> QED
    BY <2>6, <2>7, <2>10
<1>5. CASE EncodeFrameFails
  <2>1. /\ UNCHANGED <<m_bEncoderInitialized, m_iToSend, m_vBitstreamOutputBuffer, m_iGot>>
        /\ vPacket' = <<>> /\ thrown' = TRUE /\ failures' = failures + 1
        /\ overrun => overrun'
        /\ ~overrun' => ~overrun
    BY <1>o, <1>5 DEF EncodeFrameFails, hwVars, Throws, NvencFails
  <2>2. vPacket' \in Seq(Nat)
    BY <2>1
  <2>3. SlotsFilled' /\ FitsUnlessOverrun'
    BY <1>2, <1>3, <2>1 DEF SlotsFilled, FitsUnlessOverrun
  <2>4. /\ m_iToSend' \in {m_iToSend, m_iToSend + 1}
        /\ m_iGot <= m_iGot' /\ m_iGot' <= m_iToSend'
        /\ thrown' \in BOOLEAN
    BY <1>2, <2>1
  <2>5. CallReturns
    BY <2>1, <2>2, <2>4, Zenon DEF CallReturns
  <2> QED
    BY <1>1, <2>3, <2>5 DEF CallInv
<1>6. CASE EndEncode
  <2>o. UNCHANGED overrun
    BY <1>6 DEF EndEncode
  <2>1. /\ UNCHANGED <<m_bEncoderInitialized, m_iToSend, m_vBitstreamOutputBuffer>>
        /\ GetEncodedPacket(m_vMappedInputBuffers, m_vBitstreamOutputBuffer,
                            m_iToSend, m_iToSend, "flush")
    BY <1>6 DEF EndEncode, PullEnd
  <2>2. m_iGot <= m_iGot'
    BY <1>2, <2>1 DEF GetEncodedPacket, Retrievable
  <2>3. /\ vPacket' \in Seq(Nat)
        /\ thrown' \in BOOLEAN
        /\ thrown' => \/ failures' = failures + 1
                      \/ failures' = failures /\ m_iGot' = m_iToSend
        /\ thrown' => m_iGot' < m_iToSend
        /\ ~thrown' => /\ failures' = failures
                       /\ failedPulls' = 0
                       /\ m_iGot' - m_iGot \in Nat
                       /\ Len(vPacket') = m_iGot' - m_iGot
                       /\ \A i \in 1 .. m_iGot' - m_iGot :
                            vPacket'[i] = m_vBitstreamOutputBuffer[SlotOf(m_iGot + i - 1)]
    <3>1. \A p \in Nat : p < m_iToSend => m_vBitstreamOutputBuffer[SlotOf(p)] \in Nat
      BY <1>3 DEF SlotsFilled
    <3>2. m_iToSend \in Int
      BY <1>2
    <3> QED
      BY <1>2, <2>1, <3>1, <3>2, PullReturns, Zenon
  <2>4. SlotsFilled' /\ FitsUnlessOverrun'
    <3>1. SlotsFilled'
      BY <1>3, <2>1 DEF SlotsFilled
    <3>2. ASSUME ~overrun'
          PROVE  m_iToSend' - m_iGot' <= EncoderBufferSize
      <4>1. m_iToSend - m_iGot <= EncoderBufferSize
        BY <1>3, <2>o, <3>2, Zenon DEF FitsUnlessOverrun
      <4>2. m_iToSend - m_iGot' <= EncoderBufferSize
        BY <1>2, <2>2, <4>1, RetrievingFits, Zenon
      <4> QED
        BY <2>1, <4>2
    <3>3. FitsUnlessOverrun'
      BY <3>2, Zenon DEF FitsUnlessOverrun, EncoderBufferSize
    <3> QED
      BY <3>1, <3>3
  <2>5. ~overrun' /\ ~thrown' => Consecutive(vPacket', m_iGot, m_iGot' - m_iGot)
    <3> SUFFICES ASSUME ~overrun', ~thrown'
                 PROVE  Consecutive(vPacket', m_iGot, m_iGot' - m_iGot)
      OBVIOUS
    <3>1. m_iToSend - m_iGot <= EncoderBufferSize
      BY <1>3, <2>o DEF FitsUnlessOverrun
    <3>2. ASSUME NEW i \in 1 .. m_iGot' - m_iGot
          PROVE  vPacket'[i] = m_iGot + i - 1
      <4>1. /\ m_iGot + i - 1 \in Nat
            /\ m_iGot + i - 1 < m_iToSend
            /\ m_iToSend - EncoderBufferSize <= m_iGot + i - 1
        <5>1. m_iGot' <= m_iToSend
          BY <1>2, <2>1
        <5> QED
          BY <1>2, <2>2, <3>1, <5>1, RetrievedIsRecent, Zenon
      <4>2. m_vBitstreamOutputBuffer[SlotOf(m_iGot + i - 1)] = m_iGot + i - 1
        BY <1>1, <4>1 DEF RingInv, NewestInSlots
      <4> QED
        BY <2>3, <4>2
    <3> QED
      BY <2>3, <3>2 DEF Consecutive
  <2>6. /\ m_iToSend' \in {m_iToSend, m_iToSend + 1}
        /\ m_iGot <= m_iGot' /\ m_iGot' <= m_iToSend'
        /\ ~(m_iGot' = m_iToSend /\ m_iGot' < m_iToSend)
    BY <1>2, <2>1, <2>2
  <2>7. CallReturns
    BY <2>1, <2>o, <2>3, <2>5, <2>6, Zenon DEF CallReturns
  <2> QED
    BY <1>1, <2>4, <2>7 DEF CallInv
<1>7. CASE EndEncodeFails
  <2>1. /\ UNCHANGED <<m_bEncoderInitialized, m_iToSend, m_vBitstreamOutputBuffer,
                       m_iGot, overrun>>
        /\ vPacket' = <<>> /\ thrown' = TRUE /\ failures' = failures + 1
    BY <1>7 DEF EndEncodeFails, hwVars, Throws, NvencFails
  <2>2. vPacket' \in Seq(Nat)
    BY <2>1
  <2>3. SlotsFilled' /\ FitsUnlessOverrun'
    BY <1>2, <1>3, <2>1 DEF SlotsFilled, FitsUnlessOverrun
  <2>4. /\ m_iToSend' \in {m_iToSend, m_iToSend + 1}
        /\ m_iGot <= m_iGot' /\ m_iGot' <= m_iToSend'
        /\ thrown' \in BOOLEAN
    BY <1>2, <2>1
  <2>5. CallReturns
    BY <2>1, <2>2, <2>4, Zenon DEF CallReturns
  <2> QED
    BY <1>1, <2>3, <2>5 DEF CallInv
<1>8. CASE RingIdle
  <2>o. UNCHANGED overrun /\ thrown' = FALSE
    BY <1>8 DEF RingIdle, Returns
  <2>1. /\ UNCHANGED <<m_bEncoderInitialized, m_iToSend, m_vBitstreamOutputBuffer,
                       m_iGot, failures, failedPulls>>
        /\ vPacket' = <<>>
    BY <1>8 DEF RingIdle, hwVars, Returns
  <2>2. vPacket' \in Seq(Nat) /\ Len(vPacket') = 0
    BY <2>1
  <2>3. SlotsFilled' /\ FitsUnlessOverrun'
    BY <1>2, <1>3, <2>1, <2>o DEF SlotsFilled, FitsUnlessOverrun
  <2>4. Consecutive(vPacket', m_iGot, m_iGot' - m_iGot)
    BY <1>2, <2>1, <2>2 DEF Consecutive
  <2>5. /\ m_iToSend' \in {m_iToSend, m_iToSend + 1}
        /\ m_iGot <= m_iGot' /\ m_iGot' <= m_iToSend'
    BY <1>2, <2>1
  <2>6. CallReturns
    BY <2>o, <2>1, <2>2, <2>4, <2>5, Zenon DEF CallReturns
  <2> QED
    BY <1>1, <2>3, <2>6 DEF CallInv
<1> QED
  BY <1>1, <1>4, <1>5, <1>6, <1>7, <1>8 DEF RingCall, CallInv

-----------------------------------------------------------------------------
(***************************************************************************)
(* The steps of the task, by what they do to the packets: a Run whose ring *)
(* call returned, one whose call threw, a step that makes no call and      *)
(* hands out nothing, and the destructor.                                  *)
(***************************************************************************)
RunReturns ==
  /\ RingCall
  /\ ~thrown'
  /\ PushThenPop
  /\ UNCHANGED <<lost, failedRuns>>

RunThrows ==
  /\ RingCall
  /\ thrown'
  /\ CatchException

NothingRuns ==
  /\ RingIdle
  /\ output' \in {output, NoPicture}
  /\ UNCHANGED <<packetQueue, delivered, lost, failedRuns>>

LEMMA TaskSteps ==
  ASSUME TaskNext
  PROVE  /\ m_bEncoderInitialized
         /\ RunReturns \/ RunThrows \/ NothingRuns \/ TaskDestroy
<1>1. ASSUME NEW sync \in BOOLEAN, NEW size \in Size, RunEncode(sync, size)
      PROVE  m_bEncoderInitialized /\ (RunReturns \/ RunThrows)
  <2>1. RingCall
    <3>1. (~sync) \in BOOLEAN
      BY Zenon
    <3> QED
      BY <1>1, <3>1, Zenon DEF RunEncode, RingCall
  <2> QED
    BY <1>1, <2>1, Zenon DEF RunEncode, RunReturns, RunThrows
<1>2. ASSUME NEW size \in Size, RunRejectsSize(size)
      PROVE  m_bEncoderInitialized /\ NothingRuns
  BY <1>2 DEF RunRejectsSize, NothingRuns, implVars, ghostVars
<1>3. CASE RunFlush
  <2>1. RingCall
    BY <1>3, Zenon DEF RunFlush, RingCall
  <2> QED
    BY <1>3, <2>1, Zenon DEF RunFlush, RunReturns, RunThrows
<1>4. ASSUME NEW size \in Size, TaskReconfigure(size)
      PROVE  m_bEncoderInitialized /\ NothingRuns
  BY <1>4 DEF TaskReconfigure, NothingRuns, implVars, ghostVars
<1>5. CASE TaskDestroy
  BY <1>5 DEF TaskDestroy, DestroyEncoder
<1> QED
  BY <1>1, <1>2, <1>3, <1>4, <1>5, Zenon DEF TaskNext

\* What the task asks of the ring holds between calls.
LEMMA CallInvInit == TaskInit => CallInv
<1> SUFFICES ASSUME TaskInit
             PROVE  CallInv
  OBVIOUS
<1>1. EncInit
  BY DEF TaskInit
<1>2. RingInv
  BY <1>1, RingInvInit
<1>3. SlotsFilled
  BY <1>1 DEF EncInit, SlotsFilled
<1>4. FitsUnlessOverrun
  BY <1>1, SizesOK DEF EncInit, FitsUnlessOverrun
<1> QED
  BY <1>2, <1>3, <1>4 DEF CallInv

LEMMA CallInvStep == CallInv /\ [TaskNext]_taskVars => CallInv'
<1> SUFFICES ASSUME CallInv, [TaskNext]_taskVars
             PROVE  CallInv'
  OBVIOUS
<1>1. CASE RingCall /\ m_bEncoderInitialized
  BY <1>1, CallKeeps
<1>2. CASE TaskDestroy
  <2>1. DestroyEncoder
    BY <1>2 DEF TaskDestroy
  <2>2. RingInv'
    BY <2>1, RingInvStep DEF CallInv, EncNext
  <2>3. SlotsFilled'
    BY <2>1 DEF DestroyEncoder, SlotsFilled
  <2>4. /\ m_iToSend \in Nat /\ m_iGot \in Nat /\ m_iGot' \in Nat
        /\ EncoderBufferSize \in Nat
    BY <2>2, SizesOK DEF CallInv, RingInv, EncTypeOK
  <2>5. m_iGot <= m_iGot'
    BY <2>1, <2>4 DEF DestroyEncoder
  <2>6. m_iToSend' = m_iToSend /\ overrun' = overrun
    BY <2>1 DEF DestroyEncoder
  <2>7. ASSUME ~overrun'
        PROVE  m_iToSend - m_iGot' <= EncoderBufferSize
    <3>1. m_iToSend - m_iGot <= EncoderBufferSize
      BY <2>6, <2>7, Zenon DEF CallInv, FitsUnlessOverrun
    <3> QED
      BY <2>4, <2>5, <3>1, RetrievingFits, Zenon
  <2>8. FitsUnlessOverrun'
    BY <2>6, <2>7, Zenon DEF FitsUnlessOverrun, EncoderBufferSize
  <2> QED
    BY <2>2, <2>3, <2>8 DEF CallInv
<1>3. CASE UNCHANGED taskVars
  <2>1. UNCHANGED encVars
    BY <1>3 DEF taskVars
  <2>2. RingInv'
    BY <2>1, RingInvStep DEF CallInv
  <2>3. SlotsFilled' /\ FitsUnlessOverrun'
    BY <2>1 DEF encVars, CallInv, SlotsFilled, FitsUnlessOverrun
  <2> QED
    BY <2>2, <2>3 DEF CallInv
<1> QED
  BY <1>1, <1>2, <1>3, TaskSteps, Zenon
  DEF RunReturns, RunThrows, NothingRuns, RingCall

LEMMA CallInvariant == TaskSpec => []CallInv
BY CallInvInit, CallInvStep, PTL DEF TaskSpec

-----------------------------------------------------------------------------
(***************************************************************************)
(* Packets in order and once.                                              *)
(***************************************************************************)
TaskTypeOK ==
  /\ packetQueue \in Seq(Nat)
  /\ delivered \in Seq(Nat)
  /\ output \in Nat \cup {NoPicture}
  /\ failedRuns \in Nat

OrderInv == CallInv /\ TaskTypeOK /\ PacketsInOrderOnce

\* An increasing sequence has no element in two of its parts.
LEMMA IncreasingParts ==
  ASSUME NEW s \in Seq(Nat), NEW t \in Seq(Nat), Increasing(s \o t)
  PROVE  Increasing(s) /\ Elements(s) \cap Elements(t) = {}
<1>1. /\ Len(s) \in Nat /\ Len(t) \in Nat
      /\ DOMAIN s = 1 .. Len(s) /\ DOMAIN t = 1 .. Len(t)
      /\ DOMAIN (s \o t) = 1 .. Len(s) + Len(t)
      /\ \A i \in 1 .. Len(s) + Len(t) :
           (s \o t)[i] = IF i <= Len(s) THEN s[i] ELSE t[i - Len(s)]
  BY ConcatProperties, LenProperties
<1>2. \A i \in 1 .. Len(s) : i \in DOMAIN (s \o t) /\ (s \o t)[i] = s[i]
  BY <1>1
<1>3. ASSUME NEW j \in 1 .. Len(t)
      PROVE  /\ Len(s) + j \in DOMAIN (s \o t)
             /\ (s \o t)[Len(s) + j] = t[j]
             /\ \A i \in 1 .. Len(s) : i < Len(s) + j
  BY <1>1
<1>4. Increasing(s)
  BY <1>1, <1>2 DEF Increasing
<1>5. ASSUME NEW i \in 1 .. Len(s), NEW j \in 1 .. Len(t), s[i] = t[j]
      PROVE  FALSE
  <2>1. s[i] < t[j]
    BY <1>2, <1>3 DEF Increasing
  <2>2. s[i] \in Nat
    BY <1>1, ElementOfSeq
  <2> QED
    BY <1>5, <2>1, <2>2
<1>6. Elements(s) \cap Elements(t) = {}
  BY <1>1, <1>5 DEF Elements
<1> QED
  BY <1>4, <1>6

\* The pictures before `got` are either kept or gone.
Divides(kept, gone, got) == kept \cap gone = {} /\ kept \cup gone = 0 .. got - 1

\* The next pictures join either.
LEMMA NextPictures ==
  ASSUME NEW got \in Nat, NEW got2 \in Nat, got <= got2,
         NEW kept, NEW gone, Divides(kept, gone, got)
  PROVE  /\ Divides(kept \cup (got .. got2 - 1), gone, got2)
         /\ Divides(kept, gone \cup (got .. got2 - 1), got2)
<1>1. 0 .. got2 - 1 = (0 .. got - 1) \cup (got .. got2 - 1)
  OBVIOUS
<1>2. (0 .. got - 1) \cap (got .. got2 - 1) = {}
  OBVIOUS
<1> QED
  BY <1>1, <1>2, Zenon DEF Divides

\* ConcatAssociative for packets.
LEMMA PacketsAssociative ==
  ASSUME NEW s \in Seq(Nat), NEW t \in Seq(Nat), NEW u \in Seq(Nat)
  PROVE  (s \o t) \o u = s \o (t \o u)
BY ConcatAssociative

\* PushThenPop keeps the packets in the order they were handed over.
LEMMA PushPop ==
  ASSUME packetQueue \in Seq(Nat), delivered \in Seq(Nat), vPacket' \in Seq(Nat),
         PushThenPop
  PROVE  /\ packetQueue' \in Seq(Nat)
         /\ delivered' \in Seq(Nat)
         /\ output' \in Nat \cup {NoPicture}
         /\ Retrieved' = Retrieved \o vPacket'
         /\ \/ /\ output' = NoPicture
               /\ packetQueue' = <<>>
               /\ delivered' = delivered
            \/ /\ output' \in Nat
               /\ delivered' = Append(delivered, output')
<1> DEFINE queue == packetQueue \o vPacket'
<1>1. queue \in Seq(Nat) /\ delivered \o queue = Retrieved \o vPacket'
  <2>1. (delivered \o packetQueue) \o vPacket' = delivered \o (packetQueue \o vPacket')
    BY PacketsAssociative, Zenon
  <2> QED
    BY <2>1, ConcatProperties DEF Retrieved
<1>2. \/ queue = <<>> /\ output' = NoPicture /\ packetQueue' = queue
         /\ delivered' = delivered
      \/ queue # <<>> /\ output' = Head(queue) /\ packetQueue' = Tail(queue)
         /\ delivered' = Append(delivered, Head(queue))
  BY Zenon DEF PushThenPop, Pushed, HasOutput
<1> HIDE DEF queue
<1>3. CASE queue = <<>> /\ output' = NoPicture /\ packetQueue' = queue
           /\ delivered' = delivered
  <2>1. packetQueue' \in Seq(Nat) /\ delivered' \in Seq(Nat)
    BY <1>1, <1>3
  <2>2. Retrieved' = delivered \o queue
    BY <1>3 DEF Retrieved
  <2> QED
    BY <1>1, <1>3, <2>1, <2>2
<1>4. CASE queue # <<>> /\ output' = Head(queue) /\ packetQueue' = Tail(queue)
           /\ delivered' = Append(delivered, Head(queue))
  <2>1. /\ Head(queue) \in Nat /\ Tail(queue) \in Seq(Nat)
        /\ Append(delivered, Head(queue)) \in Seq(Nat)
        /\ Append(delivered, Head(queue)) \o Tail(queue) = delivered \o queue
    BY <1>1, <1>4, MoveHead
  <2>2. Retrieved' = Append(delivered, Head(queue)) \o Tail(queue)
    BY <1>4 DEF Retrieved
  <2> QED
    BY <1>1, <1>4, <2>1, <2>2
<1> QED
  BY <1>2, <1>3, <1>4

\* How many a call retrieved, and how many it submitted.
LEMMA Difference ==
  ASSUME NEW from \in Nat, NEW to \in Nat, from <= to
  PROVE  to - from \in Nat /\ from + (to - from) - 1 = to - 1
OBVIOUS

LEMMA OneMore ==
  ASSUME NEW runs \in Nat, NEW from \in Nat, NEW to \in {from, from + 1}
  PROVE  runs + (to - from) \in Nat
OBVIOUS

\* PacketsInOrderOnce, in the words of the lemmas.
LEMMA OrderOnce ==
  PacketsInOrderOnce
    <=> (~overrun => /\ Increasing(Retrieved)
                     /\ Divides(Elements(Retrieved), lost, m_iGot))
BY Zenon DEF PacketsInOrderOnce, Increasing, Elements, Divides

LEMMA OrderInvInit == TaskInit => OrderInv
<1> SUFFICES ASSUME TaskInit
             PROVE  OrderInv
  OBVIOUS
<1>1. CallInv
  BY CallInvInit
<1>2. /\ packetQueue = <<>> /\ delivered = <<>> /\ output = NoPicture
      /\ failedRuns = 0 /\ lost = {} /\ m_iGot = 0
  BY DEF TaskInit, EncInit
<1>3. TaskTypeOK
  BY <1>2, EmptySeq DEF TaskTypeOK
<1>4. Retrieved = <<>>
  BY <1>2, ConcatEmptySeq, EmptySeq DEF Retrieved
<1>5. PacketsInOrderOnce
  BY <1>2, <1>4 DEF PacketsInOrderOnce
<1> QED
  BY <1>1, <1>3, <1>5 DEF OrderInv

\* The numbers of a step of the task, whichever it is.
LEMMA StepNumbers ==
  ASSUME CallInv, CallInv'
  PROVE  /\ m_iToSend \in Nat /\ m_iGot \in Nat /\ m_iGot <= m_iToSend
         /\ m_iToSend' \in Nat /\ m_iGot' \in Nat /\ m_iGot' <= m_iToSend'
         /\ failures \in Nat /\ failures' \in Nat
         /\ failedPulls \in Nat /\ failedPulls' \in Nat
BY DEF CallInv, RingInv, EncTypeOK, InFlightBounded

LEMMA OrderInvStep == OrderInv /\ [TaskNext]_taskVars => OrderInv'
<1> SUFFICES ASSUME OrderInv, [TaskNext]_taskVars
             PROVE  OrderInv'
  OBVIOUS
<1>1. CallInv /\ CallInv'
  BY CallInvStep DEF OrderInv
<1>2. /\ packetQueue \in Seq(Nat) /\ delivered \in Seq(Nat)
      /\ output \in Nat \cup {NoPicture} /\ failedRuns \in Nat
      /\ Retrieved \in Seq(Nat)
  BY ConcatProperties DEF OrderInv, TaskTypeOK, Retrieved
<1>3. /\ m_iToSend \in Nat /\ m_iGot \in Nat
      /\ m_iToSend' \in Nat /\ m_iGot' \in Nat
  BY <1>1, StepNumbers
<1>4. ASSUME ~overrun
      PROVE  /\ Increasing(Retrieved)
             /\ Divides(Elements(Retrieved), lost, m_iGot)
  BY <1>4, OrderOnce, Zenon DEF OrderInv
<1>5. ASSUME RingCall, m_bEncoderInitialized
      PROVE  /\ m_iGot <= m_iGot'
             /\ m_iToSend' \in {m_iToSend, m_iToSend + 1}
             /\ vPacket' \in Seq(Nat)
             /\ ~overrun' => ~overrun
             /\ ~overrun' /\ ~thrown' => Consecutive(vPacket', m_iGot, m_iGot' - m_iGot)
  BY <1>1, <1>5, CallKeeps, Zenon DEF CallReturns
<1>6. CASE RunReturns /\ m_bEncoderInitialized
  <2>1. RingCall /\ ~thrown' /\ PushThenPop /\ lost' = lost /\ failedRuns' = failedRuns
    BY <1>6 DEF RunReturns
  <2>2. /\ packetQueue' \in Seq(Nat) /\ delivered' \in Seq(Nat)
        /\ output' \in Nat \cup {NoPicture}
        /\ Retrieved' = Retrieved \o vPacket'
    BY <1>2, <1>5, <1>6, <2>1, PushPop
  <2>3. TaskTypeOK'
    BY <1>2, <2>1, <2>2 DEF TaskTypeOK
  <2>4. ASSUME ~overrun'
        PROVE  /\ Increasing(Retrieved')
               /\ Divides(Elements(Retrieved'), lost', m_iGot')
    <3> DEFINE n == m_iGot' - m_iGot
    <3>1. /\ m_iGot <= m_iGot' /\ vPacket' \in Seq(Nat)
          /\ Consecutive(vPacket', m_iGot, n)
      BY <1>5, <1>6, <2>1, <2>4, Zenon
    <3>2. n \in Nat /\ m_iGot + n - 1 = m_iGot' - 1
      BY <1>3, <3>1, Difference, Zenon
    <3>3. /\ Increasing(Retrieved)
          /\ Divides(Elements(Retrieved), lost, m_iGot)
      BY <1>4, <1>5, <1>6, <2>1, <2>4, Zenon
    <3> HIDE DEF n
    <3>4. Elements(Retrieved) \subseteq 0 .. m_iGot - 1
      BY <3>3 DEF Divides
    <3>5. Increasing(Retrieved')
      BY <1>2, <1>3, <2>2, <3>1, <3>2, <3>3, <3>4, IncreasingConcat, Zenon
    <3>6. Elements(vPacket') = m_iGot .. m_iGot' - 1
      <4>1. Elements(vPacket') = m_iGot .. m_iGot + n - 1
        BY <1>3, <3>1, <3>2, ElementsOfConsecutive, Zenon
      <4> QED
        BY <3>2, <4>1, Zenon
    <3>7. Elements(Retrieved') = Elements(Retrieved) \cup (m_iGot .. m_iGot' - 1)
      BY <1>2, <2>2, <3>1, <3>6, ElementsOfConcat
    <3> QED
      BY <1>3, <3>1, <3>3, <2>1, <3>5, <3>7, NextPictures, Zenon
  <2>5. PacketsInOrderOnce'
    BY <2>4, OrderOnce, Zenon DEF PacketsInOrderOnce, Increasing, Elements, Divides
  <2> QED
    BY <1>1, <2>3, <2>5 DEF OrderInv
<1>7. CASE RunThrows /\ m_bEncoderInitialized
  <2>1. /\ RingCall
        /\ UNCHANGED <<packetQueue, delivered>>
        /\ output' = NoPicture
        /\ lost' = lost \cup (m_iGot .. m_iGot' - 1)
        /\ failedRuns' = failedRuns + (m_iToSend' - m_iToSend)
    BY <1>7 DEF RunThrows, CatchException, implVars
  <2>2. failedRuns' \in Nat
    BY <1>2, <1>3, <1>5, <1>7, <2>1, OneMore, Zenon
  <2>3. TaskTypeOK'
    BY <1>2, <2>1, <2>2 DEF TaskTypeOK
  <2>4. Retrieved' = Retrieved
    BY <2>1 DEF Retrieved
  <2>5. ASSUME ~overrun'
        PROVE  /\ Increasing(Retrieved')
               /\ Divides(Elements(Retrieved'), lost', m_iGot')
    <3>1. m_iGot <= m_iGot' /\ ~overrun
      BY <1>5, <1>7, <2>1, <2>5, Zenon
    <3>2. /\ Increasing(Retrieved)
          /\ Divides(Elements(Retrieved), lost, m_iGot)
      BY <1>4, <3>1, Zenon
    <3> QED
      BY <1>3, <3>1, <3>2, <2>1, <2>4, <3>2, NextPictures, Zenon
  <2>6. PacketsInOrderOnce'
    BY <2>5, Zenon DEF PacketsInOrderOnce, Increasing, Elements, Divides
  <2> QED
    BY <1>1, <2>3, <2>6 DEF OrderInv
<1>8. CASE NothingRuns
  <2>1. /\ UNCHANGED <<packetQueue, delivered, lost, failedRuns, m_iGot, overrun>>
        /\ output' \in {output, NoPicture}
    BY <1>8 DEF NothingRuns, RingIdle
  <2>2. TaskTypeOK'
    BY <1>2, <2>1 DEF TaskTypeOK
  <2>3. PacketsInOrderOnce'
    BY <2>1 DEF OrderInv, PacketsInOrderOnce, Retrieved
  <2> QED
    BY <1>1, <2>2, <2>3 DEF OrderInv
<1>9. CASE TaskDestroy
  <2>1. /\ UNCHANGED <<delivered, failedRuns, output, overrun>>
        /\ packetQueue' = <<>>
        /\ lost' = (lost \cup Elements(packetQueue)) \cup (m_iGot .. m_iGot' - 1)
    BY <1>9 DEF TaskDestroy, DestroyEncoder, Elements
  <2>2. m_iGot <= m_iGot'
    BY <1>3, <1>9 DEF TaskDestroy, DestroyEncoder
  <2>3. TaskTypeOK'
    BY <1>2, <2>1, EmptySeq DEF TaskTypeOK
  <2>4. Retrieved' = delivered
    BY <1>2, <2>1, ConcatEmptySeq DEF Retrieved
  <2>5. ASSUME ~overrun'
        PROVE  /\ Increasing(Retrieved')
               /\ Divides(Elements(Retrieved'), lost', m_iGot')
    <3>1. /\ Increasing(Retrieved)
          /\ Divides(Elements(Retrieved), lost, m_iGot)
      BY <1>4, <2>1, <2>5, Zenon
    <3>2. Increasing(delivered) /\ Elements(delivered) \cap Elements(packetQueue) = {}
      BY <1>2, <3>1, IncreasingParts DEF Retrieved
    <3>3. Elements(Retrieved) = Elements(delivered) \cup Elements(packetQueue)
      BY <1>2, ElementsOfConcat DEF Retrieved
    <3>4. Divides(Elements(delivered), lost \cup Elements(packetQueue), m_iGot)
      BY <3>1, <3>2, <3>3, Zenon DEF Divides
    <3> QED
      BY <1>3, <2>2, <3>4, <2>1, <2>4, <3>2, NextPictures, Zenon
  <2>6. PacketsInOrderOnce'
    BY <2>5, Zenon DEF PacketsInOrderOnce, Increasing, Elements, Divides
  <2> QED
    BY <1>1, <2>3, <2>6 DEF OrderInv
<1>10. CASE UNCHANGED taskVars
  <2>1. UNCHANGED <<packetQueue, delivered, output, lost, failedRuns, m_iGot, overrun>>
    BY <1>10 DEF taskVars, implVars, ghostVars, encVars
  <2>2. TaskTypeOK'
    BY <1>2, <2>1 DEF TaskTypeOK
  <2>3. PacketsInOrderOnce'
    BY <2>1 DEF OrderInv, PacketsInOrderOnce, Retrieved
  <2> QED
    BY <1>1, <2>2, <2>3 DEF OrderInv
<1> QED
  BY <1>6, <1>7, <1>8, <1>9, <1>10, TaskSteps, Zenon

LEMMA OrderInvariant == TaskSpec => []OrderInv
BY OrderInvInit, OrderInvStep, PTL DEF TaskSpec

-----------------------------------------------------------------------------
(***************************************************************************)
(* A flush that outputs nothing leaves nothing: the call that set didFlush *)
(* retrieved everything, and a Run outputs nothing only from an empty      *)
(* queue.                                                                  *)
(***************************************************************************)
Drained ==
  m_bEncoderInitialized /\ didFlush /\ ~sentSinceFlush => m_iGot = m_iToSend

QuietFlush ==
  lastRun = "flush" /\ status = "SUCCESS" /\ output = NoPicture
    => packetQueue = <<>> /\ (didEncode => didFlush)

FlushInv == OrderInv /\ Drained /\ QuietFlush

\* Nothing more can be retrieved when everything was.
LEMMA NothingLeft ==
  ASSUME NEW got \in Nat, NEW got2 \in Nat, NEW sent \in Nat,
         got = sent \/ sent <= got2, got <= got2, got2 <= sent
  PROVE  got2 = sent
OBVIOUS

LEMMA EndEncodeDrains ==
  ASSUME CallInv, CallInv', EndEncode, ~thrown'
  PROVE  m_iGot' = m_iToSend'
<1>1. /\ m_iToSend \in Nat /\ m_iGot \in Nat /\ m_iGot' \in Nat /\ m_iToSend \in Int
      /\ failures \in Nat
      /\ m_iGot' <= m_iToSend'
  BY StepNumbers
<1>2. /\ m_iToSend' = m_iToSend
      /\ m_bEncoderInitialized
      /\ GetEncodedPacket(m_vMappedInputBuffers, m_vBitstreamOutputBuffer,
                          m_iToSend, m_iToSend, "flush")
  BY DEF EndEncode, PullEnd
<1>3. \A p \in Nat : p < m_iToSend => m_vBitstreamOutputBuffer[SlotOf(p)] \in Nat
  BY <1>2 DEF CallInv, SlotsFilled
<1>4. m_iToSend <= m_iGot'
  BY <1>1, <1>2, <1>3, PullReturns, Zenon
<1> QED
  BY <1>1, <1>2, <1>4

LEMMA FlushInvInit == TaskInit => FlushInv
<1> SUFFICES ASSUME TaskInit
             PROVE  FlushInv
  OBVIOUS
<1>1. OrderInv
  BY OrderInvInit
<1>2. Drained /\ QuietFlush
  BY DEF TaskInit, EncInit, Drained, QuietFlush
<1> QED
  BY <1>1, <1>2 DEF FlushInv

LEMMA FlushInvStep == FlushInv /\ [TaskNext]_taskVars => FlushInv'
<1> SUFFICES ASSUME FlushInv, [TaskNext]_taskVars
             PROVE  FlushInv'
  OBVIOUS
<1>1. OrderInv /\ OrderInv' /\ CallInv /\ CallInv'
  BY OrderInvStep DEF FlushInv, OrderInv
<1>2. packetQueue \in Seq(Nat) /\ delivered \in Seq(Nat)
  BY <1>1 DEF OrderInv, TaskTypeOK
<1>3. /\ m_iToSend \in Nat /\ m_iGot \in Nat
      /\ m_iToSend' \in Nat /\ m_iGot' \in Nat
      /\ m_iGot' <= m_iToSend'
  BY <1>1, StepNumbers
<1>4. ASSUME RingCall, m_bEncoderInitialized
      PROVE  /\ m_bEncoderInitialized' = m_bEncoderInitialized
             /\ m_iGot <= m_iGot'
             /\ m_iToSend' \in {m_iToSend, m_iToSend + 1}
             /\ vPacket' \in Seq(Nat)
  BY <1>1, <1>4, CallKeeps, Zenon DEF CallReturns
<1>5. ASSUME NEW sync \in BOOLEAN, NEW size \in Size, RunEncode(sync, size)
      PROVE  Drained' /\ QuietFlush'
  <2>1. RingCall /\ m_bEncoderInitialized
    <3>1. (~sync) \in BOOLEAN
      BY Zenon
    <3> QED
      BY <1>5, <3>1, Zenon DEF RunEncode, RingCall
  <2>2. /\ lastRun' = "encode"
        /\ didFlush' = didFlush
        /\ sentSinceFlush' = (sentSinceFlush \/ (didFlush /\ m_iToSend' > m_iToSend))
    BY <1>5, Zenon DEF RunEncode, CatchException, implVars
  <2>3. ASSUME didFlush', ~sentSinceFlush'
        PROVE  m_iGot' = m_iToSend'
    <3>1. didFlush /\ ~sentSinceFlush /\ ~(m_iToSend' > m_iToSend)
      BY <2>2, <2>3, Zenon
    <3>2. m_iGot = m_iToSend
      BY <2>1, <3>1, Zenon DEF FlushInv, Drained
    <3>3. m_iToSend' = m_iToSend
      BY <1>3, <1>4, <2>1, <3>1
    <3> QED
      BY <1>3, <1>4, <2>1, <3>2, <3>3, NothingLeft, Zenon
  <2>4. Drained'
    BY <2>3, Zenon DEF Drained
  <2>5. QuietFlush'
    BY <2>2 DEF QuietFlush
  <2> QED
    BY <2>4, <2>5
<1>6. ASSUME NEW size \in Size, RunRejectsSize(size)
      PROVE  Drained' /\ QuietFlush'
  <2>1. /\ lastRun' = "encode"
        /\ UNCHANGED <<m_bEncoderInitialized, didFlush, sentSinceFlush, m_iGot, m_iToSend>>
    BY <1>6 DEF RunRejectsSize, RingIdle, hwVars, implVars, ghostVars
  <2>2. Drained'
    BY <2>1, Zenon DEF FlushInv, Drained
  <2>3. QuietFlush'
    BY <2>1 DEF QuietFlush
  <2> QED
    BY <2>2, <2>3
<1>7. CASE RunFlush
  <2>1. RingCall /\ m_bEncoderInitialized /\ UNCHANGED sentSinceFlush
    BY <1>7, Zenon DEF RunFlush, RingCall
  <2>2. CASE thrown'
    <3>1. didEncode /\ ~didFlush
      BY <1>7, <2>2, Zenon DEF RunFlush, RingIdle, Returns
    <3>2. status' = "FAIL" /\ didFlush' = didFlush
      BY <1>7, <2>2, Zenon DEF RunFlush, CatchException, implVars
    <3>3. Drained'
      BY <3>1, <3>2, Zenon DEF Drained
    <3>4. QuietFlush'
      BY <3>2 DEF QuietFlush
    <3> QED
      BY <1>1, <3>3, <3>4 DEF FlushInv
  <2>3. CASE ~thrown'
    <3>1. PushThenPop /\ didFlush' = (didFlush \/ didEncode) /\ didEncode' = didEncode
      BY <1>7, <2>3, Zenon DEF RunFlush
    <3>2. output' = NoPicture => packetQueue' = <<>>
      <4>1. NoPicture \notin Nat
        BY DEF NoPicture
      <4> QED
        BY <1>2, <1>4, <2>1, <3>1, <4>1, PushPop
    <3>3. QuietFlush'
      BY <3>1, <3>2, Zenon DEF QuietFlush, NoPicture
    <3>4. CASE didEncode /\ ~didFlush
      <4>1. EndEncode
        BY <1>7, <2>3, <3>4, Zenon DEF RunFlush, EndEncodeFails, Throws
      <4>2. m_iGot' = m_iToSend'
        BY <1>1, <2>3, <4>1, EndEncodeDrains, Zenon
      <4>3. Drained'
        BY <4>2, Zenon DEF Drained
      <4> QED
        BY <1>1, <3>3, <4>3 DEF FlushInv
    <3>5. CASE ~(didEncode /\ ~didFlush)
      <4>1. RingIdle
        BY <1>7, <3>5, Zenon DEF RunFlush
      <4>2. UNCHANGED <<m_bEncoderInitialized, m_iGot, m_iToSend>>
        BY <4>1 DEF RingIdle, hwVars
      <4>3. Drained'
        BY <2>1, <3>1, <3>5, <4>2, Zenon DEF FlushInv, Drained
      <4> QED
        BY <1>1, <3>3, <4>3 DEF FlushInv
    <3> QED
      BY <3>4, <3>5
  <2> QED
    BY <2>2, <2>3
<1>8. ASSUME NEW size \in Size, TaskReconfigure(size)
      PROVE  Drained' /\ QuietFlush'
  <2>1. UNCHANGED <<m_bEncoderInitialized, m_iGot, m_iToSend, didFlush, didEncode,
                    sentSinceFlush, lastRun, status, output, packetQueue>>
    BY <1>8 DEF TaskReconfigure, RingIdle, hwVars, implVars, ghostVars
  <2> QED
    BY <2>1, Zenon DEF FlushInv, Drained, QuietFlush, NoPicture
<1>9. CASE TaskDestroy
  <2>1. /\ m_bEncoderInitialized' = FALSE
        /\ packetQueue' = <<>>
        /\ UNCHANGED <<didEncode, didFlush, lastRun, status, output>>
    BY <1>9 DEF TaskDestroy, DestroyEncoder
  <2>2. Drained'
    BY <2>1, Zenon DEF Drained
  <2>3. QuietFlush'
    BY <2>1, Zenon DEF FlushInv, QuietFlush, NoPicture
  <2> QED
    BY <1>1, <2>2, <2>3 DEF FlushInv
<1>10. CASE UNCHANGED taskVars
  <2>1. UNCHANGED <<m_bEncoderInitialized, m_iGot, m_iToSend, didFlush, didEncode,
                    sentSinceFlush, lastRun, status, output, packetQueue>>
    BY <1>10 DEF taskVars, encVars, implVars, ghostVars
  <2> QED
    BY <1>1, <2>1, Zenon DEF FlushInv, Drained, QuietFlush, NoPicture
<1> QED
  BY <1>1, <1>5, <1>6, <1>7, <1>8, <1>9, <1>10, Zenon DEF FlushInv, TaskNext

LEMMA FlushInvariant == TaskSpec => []FlushInv
BY FlushInvInit, FlushInvStep, PTL DEF TaskSpec

-----------------------------------------------------------------------------
(***************************************************************************)
(* Until the first failure the task is the FIFO: every ring call that      *)
(* returns hands over the next pictures and leaves at most m_nOutputDelay  *)
(* in flight, so what was delivered is 0, 1, 2, ... and not further behind.*)
(***************************************************************************)
Failed == failures > 0 \/ failedRuns > 0

Unbroken ==
  m_bEncoderInitialized /\ ~Failed =>
    /\ failedPulls = 0
    /\ ~overrun
    /\ Consecutive(Retrieved, 0, m_iGot)
    /\ m_iToSend - Len(delivered) <= OutputDelay

FifoInv == OrderInv /\ Unbroken

\* The next packets after the first ones.
LEMMA ConsecutiveConcat ==
  ASSUME NEW s \in Seq(Nat), NEW t \in Seq(Nat), NEW n \in Nat, NEW m \in Nat, n <= m,
         Consecutive(s, 0, n), Consecutive(t, n, m - n)
  PROVE  Consecutive(s \o t, 0, m)
<1>1. /\ Len(s \o t) = Len(s) + Len(t)
      /\ \A i \in 1 .. Len(s) + Len(t) :
           (s \o t)[i] = IF i <= Len(s) THEN s[i] ELSE t[i - Len(s)]
  BY ConcatProperties
<1>2. /\ Len(s) = n /\ \A i \in 1 .. n : s[i] = 0 + i - 1
      /\ Len(t) = m - n /\ \A i \in 1 .. m - n : t[i] = n + i - 1
  BY DEF Consecutive
<1>3. /\ Len(s \o t) = m
      /\ \A i \in 1 .. m : (s \o t)[i] = IF i <= n THEN s[i] ELSE t[i - n]
  <2>1. Len(s) = n /\ Len(s) + Len(t) = m
    BY <1>2
  <2> QED
    BY <1>1, <2>1, Zenon
<1>4. ASSUME NEW i \in 1 .. m
      PROVE  (s \o t)[i] = 0 + i - 1
  <2>1. (s \o t)[i] = IF i <= n THEN s[i] ELSE t[i - n]
    BY <1>3, Zenon
  <2>2. CASE i <= n
    BY <1>2, <2>1, <2>2
  <2>3. CASE i > n
    <3>1. i - n \in 1 .. m - n
      BY <2>3
    <3>2. t[i - n] = n + (i - n) - 1
      BY <1>2, <3>1
    <3> QED
      BY <2>1, <2>3, <3>2
  <2>4. i <= n \/ i > n
    OBVIOUS
  <2> QED
    BY <2>2, <2>3, <2>4, Zenon
<1> QED
  BY <1>3, <1>4, Zenon DEF Consecutive

\* The packet delivered last is numbered by what was delivered before it.
LEMMA LastDelivered ==
  ASSUME NEW d \in Seq(Nat), NEW x \in Nat, NEW q \in Seq(Nat), NEW n \in Nat,
         Consecutive(Append(d, x) \o q, 0, n)
  PROVE  x = Len(d) /\ Len(d) < n /\ Len(Append(d, x)) = Len(d) + 1 /\ Len(d) \in Nat
<1>1. /\ Append(d, x) \in Seq(Nat)
      /\ Len(Append(d, x)) = Len(d) + 1
      /\ Append(d, x)[Len(d) + 1] = x
      /\ Len(d) \in Nat /\ Len(q) \in Nat
  BY AppendProperties, LenProperties
<1>2. /\ Len(Append(d, x) \o q) = Len(d) + 1 + Len(q)
      /\ (Append(d, x) \o q)[Len(d) + 1] = x
  BY <1>1, ConcatProperties
<1>3. n = Len(d) + 1 + Len(q)
  BY <1>2 DEF Consecutive
<1>4. Len(d) + 1 \in 1 .. n
  BY <1>1, <1>3
<1>5. (Append(d, x) \o q)[Len(d) + 1] = 0 + (Len(d) + 1) - 1
  BY <1>4 DEF Consecutive
<1> QED
  BY <1>1, <1>2, <1>3, <1>5

\* One picture more and one packet more are not further behind.
LEMMA NotFurtherBehind ==
  ASSUME NEW from \in Nat, NEW to \in {from, from + 1}, NEW len \in Nat, NEW delay \in Nat,
         from - len <= delay, NEW len2 \in Nat, len2 = len + 1
  PROVE  to - len2 <= delay
OBVIOUS

\* While no retrieval has thrown no picture is copied over another.
LEMMA NoOverrun ==
  ASSUME RingInv, RingCall, ~overrun, failedPulls = 0
  PROVE  ~overrun'
<1> SUFFICES ASSUME overrun'
             PROVE  FALSE
  OBVIOUS
<1>1. CopyToDeviceFrame
  BY DEF RingCall, EncodeFrame, EncodeFrameFails, EndEncode, EndEncodeFails, RingIdle
<1>2. m_iToSend - m_iGot >= EncoderBufferSize
  BY <1>1, Zenon DEF CopyToDeviceFrame
<1>3. /\ m_iToSend \in Nat /\ m_iGot \in Nat /\ OutputDelay \in Nat
      /\ EncoderBufferSize \in Nat /\ OutputDelay = EncoderBufferSize - 1
      /\ m_iToSend - m_iGot <= OutputDelay + failedPulls
  BY SizesOK DEF RingInv, EncTypeOK, InFlightBounded
<1> QED
  BY <1>2, <1>3

\* What a call that returns does to a task that has not failed.
LEMMA UnbrokenReturn ==
  ASSUME FifoInv, OrderInv', m_bEncoderInitialized, RunReturns, ~Failed
  PROVE  /\ failures' = failures /\ failedRuns' = failedRuns
         /\ failedPulls' = 0
         /\ ~overrun'
         /\ Consecutive(Retrieved', 0, m_iGot')
         /\ m_iToSend' \in {m_iToSend, m_iToSend + 1}
         /\ m_iToSend' - Len(delivered') <= OutputDelay
         /\ \/ delivered' = delivered
            \/ /\ Len(delivered) < m_iToSend'
               /\ delivered' = Append(delivered, Len(delivered))
<1>1. /\ CallInv /\ CallInv' /\ RingInv
      /\ packetQueue \in Seq(Nat) /\ delivered \in Seq(Nat)
      /\ Retrieved \in Seq(Nat)
  BY ConcatProperties DEF FifoInv, OrderInv, TaskTypeOK, CallInv, Retrieved
<1>2. /\ failedPulls = 0
      /\ ~overrun
      /\ Consecutive(Retrieved, 0, m_iGot)
      /\ m_iToSend - Len(delivered) <= OutputDelay
  BY Zenon DEF FifoInv, Unbroken
<1>3. RingCall /\ ~thrown' /\ PushThenPop /\ failedRuns' = failedRuns
  BY DEF RunReturns
<1>4. ~overrun'
  BY <1>1, <1>2, <1>3, NoOverrun, Zenon
<1>5. CallReturns
  BY <1>1, <1>3, CallKeeps, Zenon
<1>6. /\ failures' = failures
      /\ failedPulls' = 0
      /\ m_iToSend' \in {m_iToSend, m_iToSend + 1}
      /\ m_iGot <= m_iGot' /\ m_iGot' <= m_iToSend'
      /\ vPacket' \in Seq(Nat)
      /\ Consecutive(vPacket', m_iGot, m_iGot' - m_iGot)
  BY <1>2, <1>3, <1>4, <1>5, Zenon DEF CallReturns
<1>7. /\ m_iToSend \in Nat /\ m_iGot \in Nat
      /\ m_iToSend' \in Nat /\ m_iGot' \in Nat
  BY <1>1, StepNumbers
<1>8. /\ packetQueue' \in Seq(Nat)
      /\ Retrieved' = Retrieved \o vPacket'
      /\ \/ packetQueue' = <<>> /\ delivered' = delivered
         \/ output' \in Nat /\ delivered' = Append(delivered, output')
  BY <1>1, <1>3, <1>6, PushPop
<1>9. Consecutive(Retrieved', 0, m_iGot')
  BY <1>1, <1>2, <1>6, <1>7, <1>8, ConsecutiveConcat, Zenon
<1>10. CASE packetQueue' = <<>> /\ delivered' = delivered
  <2>1. Retrieved' = delivered
    BY <1>1, <1>10, ConcatEmptySeq DEF Retrieved
  <2>2. Len(delivered') = m_iGot'
    BY <1>9, <1>10, <2>1 DEF Consecutive
  <2>3. m_iToSend' - m_iGot' <= OutputDelay
    <3>1. m_iToSend' - m_iGot' <= OutputDelay' + failedPulls'
      BY <1>1 DEF CallInv, RingInv, InFlightBounded
    <3>2. OutputDelay' = OutputDelay /\ OutputDelay + 0 = OutputDelay
      BY SizesOK DEF OutputDelay, EncoderBufferSize
    <3> QED
      BY <1>6, <3>1, <3>2, Zenon
  <2> QED
    BY <1>3, <1>4, <1>6, <1>9, <1>10, <2>2, <2>3, Zenon
<1>11. CASE output' \in Nat /\ delivered' = Append(delivered, output')
  <2>1. Retrieved' = Append(delivered, output') \o packetQueue'
    BY <1>11 DEF Retrieved
  <2>2. /\ output' = Len(delivered) /\ Len(delivered) < m_iGot'
        /\ Len(delivered') = Len(delivered) + 1
        /\ Len(delivered) \in Nat
    <3>1. Consecutive(Append(delivered, output') \o packetQueue', 0, m_iGot')
      BY <1>9, <2>1
    <3>2. /\ output' = Len(delivered) /\ Len(delivered) < m_iGot'
          /\ Len(Append(delivered, output')) = Len(delivered) + 1
          /\ Len(delivered) \in Nat
      BY <1>1, <1>7, <1>8, <1>11, <3>1, LastDelivered, Zenon
    <3> QED
      BY <1>11, <3>2, Zenon
  <2>3. Len(delivered') \in Nat
    BY <2>2
  <2>4. Len(delivered) < m_iToSend'
    BY <1>6, <1>7, <2>2
  <2>5. m_iToSend' - Len(delivered') <= OutputDelay
    BY <1>2, <1>6, <1>7, <2>2, <2>3, SizesOK, NotFurtherBehind, Zenon
  <2> QED
    BY <1>3, <1>4, <1>6, <1>9, <1>11, <2>2, <2>4, <2>5, Zenon
<1> QED
  BY <1>8, <1>10, <1>11

\* A call that throws fails the task: it counts a failed NVENC call, or a
\* picture it submitted and could not retrieve anything for.
LEMMA ThrowFails ==
  ASSUME OrderInv, OrderInv', m_bEncoderInitialized, RunThrows
  PROVE  Failed' /\ m_iToSend' \in {m_iToSend, m_iToSend + 1} /\ delivered' = delivered
<1>1. CallInv /\ CallInv' /\ failedRuns \in Nat
  BY DEF OrderInv, TaskTypeOK
<1>2. /\ RingCall /\ thrown' /\ delivered' = delivered
      /\ failedRuns' = failedRuns + (m_iToSend' - m_iToSend)
  BY DEF RunThrows, CatchException, implVars
<1>3. /\ m_iToSend' \in {m_iToSend, m_iToSend + 1}
      /\ \/ failures' = failures + 1
         \/ m_iToSend' = m_iToSend + 1
  BY <1>1, <1>2, CallKeeps, Zenon DEF CallReturns
<1>4. m_iToSend \in Nat /\ failures \in Nat
  BY <1>1, StepNumbers
<1>5. CASE failures' = failures + 1
  <2>1. failures' > 0
    BY <1>4, <1>5
  <2> QED
    BY <1>2, <1>3, <2>1 DEF Failed
<1>6. CASE m_iToSend' = m_iToSend + 1
  <2>1. failedRuns' > 0
    BY <1>1, <1>2, <1>4, <1>6
  <2> QED
    BY <1>2, <1>3, <2>1 DEF Failed
<1> QED
  BY <1>3, <1>5, <1>6

\* A failed task stays failed.
LEMMA FailedForGood ==
  ASSUME OrderInv, OrderInv', [TaskNext]_taskVars, Failed
  PROVE  Failed'
<1>1. CallInv /\ CallInv' /\ failedRuns \in Nat /\ failures \in Nat
  BY StepNumbers DEF OrderInv, TaskTypeOK
<1>2. CASE RunReturns /\ m_bEncoderInitialized
  <2>1. failures' = failures /\ failedRuns' = failedRuns
    BY <1>1, <1>2, CallKeeps, Zenon DEF RunReturns, CallReturns
  <2> QED
    BY <2>1 DEF Failed
<1>3. CASE RunThrows /\ m_bEncoderInitialized
  BY <1>3, ThrowFails, Zenon
<1>4. CASE NothingRuns
  BY <1>4 DEF NothingRuns, RingIdle, Failed
<1>5. CASE TaskDestroy
  <2>1. failedRuns' = failedRuns /\ failures' \in {failures, failures + 1}
    BY <1>5 DEF TaskDestroy, DestroyEncoder, NvencSucceeds, NvencFails
  <2> QED
    BY <1>1, <2>1 DEF Failed
<1>6. CASE UNCHANGED taskVars
  BY <1>6 DEF taskVars, encVars, ghostVars, Failed
<1> QED
  BY <1>2, <1>3, <1>4, <1>5, <1>6, TaskSteps, Zenon

LEMMA FifoInvInit == TaskInit => FifoInv
<1> SUFFICES ASSUME TaskInit
             PROVE  FifoInv
  OBVIOUS
<1>1. OrderInv
  BY OrderInvInit
<1>2. /\ delivered = <<>> /\ packetQueue = <<>> /\ m_iGot = 0 /\ m_iToSend = 0
      /\ failedPulls = 0 /\ ~overrun
  BY DEF TaskInit, EncInit
<1>3. Retrieved = <<>>
  BY <1>2, ConcatEmptySeq, EmptySeq DEF Retrieved
<1>4. Consecutive(Retrieved, 0, m_iGot)
  BY <1>2, <1>3, EmptySeq DEF Consecutive
<1>5. m_iToSend - Len(delivered) <= OutputDelay
  BY <1>2, EmptySeq, SizesOK
<1>6. Unbroken
  BY <1>2, <1>4, <1>5, Zenon DEF Unbroken
<1> QED
  BY <1>1, <1>6 DEF FifoInv

LEMMA FifoInvStep == FifoInv /\ [TaskNext]_taskVars => FifoInv'
<1> SUFFICES ASSUME FifoInv, [TaskNext]_taskVars
             PROVE  FifoInv'
  OBVIOUS
<1>1. OrderInv /\ OrderInv'
  BY OrderInvStep DEF FifoInv
<1>2. CASE RunReturns /\ m_bEncoderInitialized
  <2>1. ASSUME ~Failed'
        PROVE  ~Failed
    BY <1>1, <2>1, FailedForGood, Zenon
  <2>2. OutputDelay' = OutputDelay
    BY DEF OutputDelay, EncoderBufferSize
  <2>3. Unbroken'
    BY <1>1, <1>2, <2>1, <2>2, UnbrokenReturn, Zenon DEF Unbroken
  <2> QED
    BY <1>1, <2>3 DEF FifoInv
<1>3. CASE RunThrows /\ m_bEncoderInitialized
  <2>1. Unbroken'
    BY <1>1, <1>3, ThrowFails, Zenon DEF Unbroken
  <2> QED
    BY <1>1, <2>1 DEF FifoInv
<1>4. CASE NothingRuns
  <2>1. UNCHANGED <<m_bEncoderInitialized, failures, failedRuns, failedPulls, overrun,
                    packetQueue, delivered, m_iGot, m_iToSend>>
    BY <1>4 DEF NothingRuns, RingIdle, hwVars
  <2>2. Unbroken'
    BY <2>1 DEF FifoInv, Unbroken, Failed, Retrieved, Consecutive
  <2> QED
    BY <1>1, <2>2 DEF FifoInv
<1>5. CASE TaskDestroy
  <2>1. ~m_bEncoderInitialized'
    BY <1>5 DEF TaskDestroy, DestroyEncoder
  <2> QED
    BY <1>1, <2>1 DEF FifoInv, Unbroken
<1>6. CASE UNCHANGED taskVars
  <2>1. UNCHANGED <<m_bEncoderInitialized, failures, failedRuns, failedPulls, overrun,
                    packetQueue, delivered, m_iGot, m_iToSend>>
    BY <1>6 DEF taskVars, encVars, implVars, ghostVars
  <2>2. Unbroken'
    BY <2>1 DEF FifoInv, Unbroken, Failed, Retrieved, Consecutive
  <2> QED
    BY <1>1, <2>2 DEF FifoInv
<1> QED
  BY <1>2, <1>3, <1>4, <1>5, <1>6, TaskSteps, Zenon

LEMMA FifoInvariant == TaskSpec => []FifoInv
BY FifoInvInit, FifoInvStep, PTL DEF TaskSpec

\* Every step of the task is a step of the FIFO, or none.
LEMMA FifoStep ==
  FifoInv /\ FifoInv' /\ [TaskNext]_taskVars => [Fifo!Next]_Fifo!fifoVars
<1> SUFFICES ASSUME FifoInv, FifoInv', [TaskNext]_taskVars
             PROVE  Fifo!Next \/ UNCHANGED <<m_iToSend, delivered, Failed>>
  BY Zenon DEF Fifo!fifoVars, Failed
<1>1. OrderInv /\ OrderInv'
  BY DEF FifoInv
<1>2. CASE Failed
  <2>1. Failed'
    BY <1>1, <1>2, FailedForGood, Zenon
  <2>2. Fifo!Broken
    BY <1>2, <2>1, Zenon DEF Fifo!Broken, Failed
  <2> QED
    BY <2>2 DEF Fifo!Next
<1>3. CASE ~Failed /\ RunReturns /\ m_bEncoderInitialized
  <2>1. /\ failures' = failures /\ failedRuns' = failedRuns
        /\ m_iToSend' \in {m_iToSend, m_iToSend + 1}
        /\ m_iToSend' - Len(delivered') <= OutputDelay
        /\ \/ delivered' = delivered
           \/ /\ Len(delivered) < m_iToSend'
              /\ delivered' = Append(delivered, Len(delivered))
    BY <1>1, <1>3, UnbrokenReturn, Zenon
  <2>2. Failed' = Failed
    BY <2>1 DEF Failed
  <2>3. CASE m_iToSend' = m_iToSend + 1
    <3>1. Fifo!Encode
      BY <1>3, <2>1, <2>2, <2>3, Zenon DEF Fifo!Encode, Fifo!Deliver, Failed
    <3> QED
      BY <3>1 DEF Fifo!Next
  <2>4. CASE m_iToSend' = m_iToSend /\ delivered' = delivered
    BY <2>2, <2>4, Zenon
  <2>5. CASE /\ m_iToSend' = m_iToSend
             /\ Len(delivered) < m_iToSend'
             /\ delivered' = Append(delivered, Len(delivered))
    <3>1. Fifo!Flush
      BY <1>3, <2>2, <2>5, Zenon DEF Fifo!Flush, Fifo!Deliver, Failed
    <3> QED
      BY <3>1 DEF Fifo!Next
  <2> QED
    BY <2>1, <2>3, <2>4, <2>5, Zenon
<1>4. CASE RunThrows /\ m_bEncoderInitialized
  <2>1. Failed' /\ m_iToSend' \in {m_iToSend, m_iToSend + 1} /\ delivered' = delivered
    BY <1>1, <1>4, ThrowFails, Zenon
  <2>2. Fifo!Break
    BY <2>1, Zenon DEF Fifo!Break, Failed
  <2> QED
    BY <2>2 DEF Fifo!Next
<1>5. CASE NothingRuns
  <2>1. UNCHANGED <<m_iToSend, delivered, failures, failedRuns>>
    BY <1>5 DEF NothingRuns, RingIdle, hwVars
  <2> QED
    BY <2>1 DEF Failed
<1>6. CASE ~Failed /\ TaskDestroy
  <2>1. UNCHANGED <<m_iToSend, delivered, failedRuns>>
    BY <1>6 DEF TaskDestroy, DestroyEncoder
  <2>2. CASE Failed'
    <3>1. Fifo!Break
      BY <2>1, <2>2, Zenon DEF Fifo!Break, Failed
    <3> QED
      BY <3>1 DEF Fifo!Next
  <2>3. CASE ~Failed'
    <3>1. Failed' = Failed
      BY <1>6, <2>3, Zenon DEF Failed
    <3> QED
      BY <2>1, <3>1
  <2> QED
    BY <2>2, <2>3
<1>7. CASE UNCHANGED taskVars
  <2>1. UNCHANGED <<m_iToSend, delivered, failures, failedRuns>>
    BY <1>7 DEF taskVars, encVars, implVars, ghostVars
  <2> QED
    BY <2>1 DEF Failed
<1> QED
  BY <1>2, <1>3, <1>4, <1>5, <1>6, <1>7, TaskSteps, Zenon

-----------------------------------------------------------------------------
(***************************************************************************)
(* The ring's guarantees, for the client that is the task.                 *)
(***************************************************************************)
LEMMA TaskKeepsRing == TaskSpec => []RingInv
<1>1. CallInv => RingInv
  BY DEF CallInv
<1> QED
  BY <1>1, CallInvariant, PTL

\* The task leaves the ring's state well-typed, whatever Run, Reconfigure and
\* the destructor do and whichever calls fail.
THEOREM TaskTypeCorrect == TaskSpec => []EncTypeOK
<1>1. RingInv => EncTypeOK
  BY DEF RingInv
<1> QED
  BY <1>1, TaskKeepsRing, PTL

\* However Run mixes synchronous calls, asynchronous calls and flushes, at
\* most m_nOutputDelay pictures stay in flight, plus one per retrieval in a row
\* that threw.
THEOREM TaskInFlightBounded == TaskSpec => []InFlightBounded
<1>1. RingInv => InFlightBounded
  BY DEF RingInv
<1> QED
  BY <1>1, TaskKeepsRing, PTL

\* Every picture of the task in flight finds its own bitstream when
\* GetEncodedPacket locks its slot, unless two retrievals in a row have thrown.
THEOREM TaskBitstreamsNotReused == TaskSpec => []BitstreamsNotReused
<1>1. RingInv => BitstreamsNotReused
  BY SizesOK
  DEF RingInv, EncTypeOK, InFlightBounded, NewestInSlots, BitstreamsNotReused,
      InFlight
<1> QED
  BY <1>1, TaskKeepsRing, PTL

\* Whatever the task asked of the ring before, an asynchronous Run or a flush
\* never locks a picture NVENC holds back for its B pictures or lookahead: only
\* a synchronous Run may.
THEOREM TaskAsyncLocksFinished == TaskSpec => []DelayCoversLatency
<1>1. RingInv => DelayCoversLatency
  BY DEF RingInv
<1> QED
  BY <1>1, TaskKeepsRing, PTL

\* Run copies a surface over a picture that was not retrieved only after a
\* retrieval that threw.
THEOREM TaskOverrunAfterFailure == TaskSpec => OverrunNeedsFailedPull
<1>1. RingInv /\ [TaskNext]_taskVars
        => [~overrun /\ overrun' => failedPulls > 0]_encVars
  <2> SUFFICES ASSUME RingInv, [TaskNext]_taskVars, ~overrun, overrun'
               PROVE  failedPulls > 0
    OBVIOUS
  <2>1. CASE RingCall
    <3>1. failedPulls # 0
      BY <2>1, NoOverrun, Zenon
    <3> QED
      BY <3>1 DEF RingInv, EncTypeOK
  <2>2. CASE TaskDestroy
    <3>1. overrun' = overrun
      BY <2>2 DEF TaskDestroy, DestroyEncoder
    <3> QED
      BY <3>1
  <2>3. CASE UNCHANGED taskVars
    <3>1. overrun' = overrun
      BY <2>3 DEF taskVars, encVars
    <3> QED
      BY <3>1
  <2> QED
    BY <2>1, <2>2, <2>3, TaskSteps, Zenon
    DEF RunReturns, RunThrows, NothingRuns, RingCall
<1> QED
  BY <1>1, TaskKeepsRing, PTL DEF TaskSpec, OverrunNeedsFailedPull

-----------------------------------------------------------------------------
(***************************************************************************)
(* The task's own guarantees.                                              *)
(***************************************************************************)
\* Whatever calls fail, Run outputs the packets in the order of the surfaces
\* and none twice, and every retrieved picture was output, waits in packetQueue
\* or went down with one call that threw, until a copy overruns the ring.
THEOREM PacketsStayInOrder == TaskSpec => []PacketsInOrderOnce
<1>1. OrderInv => PacketsInOrderOnce
  BY DEF OrderInv
<1> QED
  BY <1>1, OrderInvariant, PTL

\* A flush that outputs nothing means that nothing submitted before it is left
\* in the ring or in packetQueue.
THEOREM QuietFlushDrained == TaskSpec => []FlushDrains
<1>1. FlushInv => FlushDrains
  BY Zenon DEF FlushInv, Drained, QuietFlush, FlushDrains
<1> QED
  BY <1>1, FlushInvariant, PTL

\* Until the first failed call the task implements the FIFO of PacketFifo: one
\* packet per surface, in order, never more than m_nOutputDelay behind.
THEOREM TaskIsFifo == TaskSpec => ImplementsFifo
<1>1. TaskInit => Fifo!Init
  <2> SUFFICES ASSUME TaskInit
               PROVE  Fifo!Init
    OBVIOUS
  <2>1. m_iToSend = 0 /\ delivered = <<>> /\ failures = 0 /\ failedRuns = 0
    BY DEF TaskInit, EncInit
  <2>2. ~Failed
    BY <2>1 DEF Failed
  <2> QED
    BY <2>1, <2>2, Zenon DEF Fifo!Init, Failed
<1> QED
  BY <1>1, FifoStep, FifoInvariant, PTL DEF TaskSpec, ImplementsFifo, Fifo!Spec

-----------------------------------------------------------------------------
(***************************************************************************)
(* What the Python encoder adds: every call of it is a call of the task or *)
(* leaves the task alone, and what it reports about the encoder stays true.*)
(***************************************************************************)
\* No call of the Python class reaches the task but through its operations.
LEMMA PyStepIsTaskStep == [PyNext]_pyVars => [TaskNext]_taskVars
<1> SUFFICES ASSUME [PyNext]_pyVars
             PROVE  TaskNext \/ UNCHANGED taskVars
  OBVIOUS
<1>1. ASSUME NEW size \in Size, NEW sync \in BOOLEAN,
             EncodeSurface(size, sync)
      PROVE  TaskNext
  BY <1>1, Zenon DEF EncodeSurface, TaskNext
<1>2. CASE FlushSinglePacket \/ FlushIterate
  BY <1>2, Zenon DEF FlushSinglePacket, FlushIterate, TaskNext
<1>3. CASE FlushBegin \/ Capabilities \/ CreateThrows
  BY <1>3, Zenon DEF FlushBegin, Capabilities, CreateThrows
<1>4. ASSUME NEW size \in Size, Reconfigure(size)
      PROVE  TaskNext \/ UNCHANGED taskVars
  BY <1>4, Zenon DEF Reconfigure, TaskNext
<1>5. CASE PyDestroy
  BY <1>5, Zenon DEF PyDestroy, TaskNext
<1>6. CASE UNCHANGED pyVars
  BY <1>6 DEF pyVars
<1> QED
  BY <1>1, <1>2, <1>3, <1>4, <1>5, <1>6, Zenon DEF PyNext

\* The Python encoder is a client of the task: whatever holds of the task's
\* state for any client holds of it, for any mix of calls.
THEOREM PyImplementsTask == PySpec => TaskSpec
<1>1. PyInit => TaskInit
  BY DEF PyInit
<1> QED
  BY <1>1, PyStepIsTaskStep, PTL DEF PySpec, TaskSpec

\* So its packets come in the order of the surfaces and none twice, until a
\* copy overruns the ring.
COROLLARY PyPacketsStayInOrder == PySpec => []PacketsInOrderOnce
BY PyImplementsTask, PacketsStayInOrder, PTL

-----------------------------------------------------------------------------
(***************************************************************************)
(* encWidth and encHeight follow the encoder before the task exists too,   *)
(* and the format the task was created with is eFormat, because the only   *)
(* other one a call may ask for is rejected by the constructor.            *)
(***************************************************************************)
ReportInv ==
  /\ encSize = encodeSize
  /\ upEncoder => encFormat = eFormat

\* A call that may create the task creates it in eFormat.
LEMMA CreatedInFormat ==
  ASSUME ReportInv, NEW format, Created(format), format \in {eFormat, "UNDEFINED"}
  PROVE  (upEncoder => encFormat = eFormat)' /\ encSize' = encSize
<1>1. CASE upEncoder
  BY <1>1, Zenon DEF ReportInv, Created
<1>2. CASE ~upEncoder
  <2>1. format = eFormat
    BY <1>2, Zenon DEF Created
  <2> QED
    BY <1>2, <2>1, Zenon DEF Created
<1> QED
  BY <1>1, <1>2

LEMMA ReportInvStep == ReportInv /\ [PyNext]_pyVars => ReportInv'
<1> SUFFICES ASSUME ReportInv, [PyNext]_pyVars
             PROVE  ReportInv'
  OBVIOUS
<1>1. ASSUME NEW size \in Size, NEW sync \in BOOLEAN,
             EncodeSurface(size, sync)
      PROVE  ReportInv'
  <2>1. encodeSize' = encodeSize
    BY <1>1 DEF EncodeSurface, RunEncode, RunRejectsSize
  <2>2. Created(eFormat)
    BY <1>1 DEF EncodeSurface
  <2> QED
    BY <2>1, <2>2, CreatedInFormat DEF ReportInv
<1>2. CASE FlushSinglePacket \/ FlushIterate
  <2>1. encodeSize' = encodeSize
    BY <1>2 DEF FlushSinglePacket, FlushIterate, RunFlush
  <2>2. Created(eFormat)
    BY <1>2 DEF FlushSinglePacket, FlushIterate
  <2> QED
    BY <2>1, <2>2, CreatedInFormat DEF ReportInv
<1>3. CASE FlushBegin \/ CreateThrows
  BY <1>3 DEF FlushBegin, CreateThrows, taskVars, pyOnly, ReportInv
<1>4. ASSUME NEW size \in Size, Reconfigure(size)
      PROVE  ReportInv'
  <2>1. encSize' = encodeSize'
    BY <1>4 DEF Reconfigure, taskVars, ReportInv
  <2> QED
    BY <1>4, <2>1 DEF Reconfigure, ReportInv
<1>5. CASE Capabilities
  <2>1. encodeSize' = encodeSize
    BY <1>5 DEF Capabilities, taskVars
  <2>2. Created(CapabilitiesFormat)
    BY <1>5 DEF Capabilities
  <2>3. CapabilitiesFormat \in {eFormat, "UNDEFINED"}
    BY DEF CapabilitiesFormat
  <2> QED
    BY <2>1, <2>2, <2>3, CreatedInFormat DEF ReportInv
<1>6. CASE PyDestroy
  BY <1>6 DEF PyDestroy, TaskDestroy, pyOnly, ReportInv
<1>7. CASE UNCHANGED pyVars
  BY <1>7 DEF pyVars, pyOnly, taskVars, ReportInv
<1> QED
  BY <1>1, <1>2, <1>3, <1>4, <1>5, <1>6, <1>7, Zenon DEF PyNext

\* Width, Height and Format tell what the encoder really accepts, whichever
\* call created the task and whichever reconfigurations the driver refused.
THEOREM ReportsStayTrue == PySpec => []ReportsEncoder
<1>1. PyInit => ReportInv
  BY DEF PyInit, ReportInv
<1>2. ReportInv => ReportsEncoder
  BY Zenon DEF ReportInv, ReportsEncoder
<1> QED
  BY <1>1, <1>2, ReportInvStep, PTL DEF PySpec
=============================================================================
