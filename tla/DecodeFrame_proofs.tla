-------------------------- MODULE DecodeFrame_proofs --------------------------
(***************************************************************************)
(* What DecodeFrame guarantees for any file, codec, failures and timeout.  *)
(* Where the file may be positioned anew the order of the frames needs     *)
(* more than the code provides, and the theorems say what: see PlainFile.  *)
(***************************************************************************)
EXTENDS DecodeFrame, SequenceTheorems, WellFoundedInduction, TLAPS

(***************************************************************************)
(* Every packet makes one frame, so that the codec refuses none, and there *)
(* is one resolution: a packet refused before a seek is sent after it, and *)
(* the loop of a seek takes no notice of a change.                         *)
(***************************************************************************)
PlainFile == FramesPerPacket = 1 /\ ChangeAt > NumPackets
Orderly == seeks = 0 \/ PlainFile

-----------------------------------------------------------------------------
(***************************************************************************)
(* The inductive invariant: the clock, the control, the packets on their   *)
(* way to the codec, the frames on their way to the caller, the sizes, and *)
(* the way of a seek to its frame.                                         *)
(***************************************************************************)
Clocked == pc = "reading" => elapsed = silence

\* The last call has ended the decoding with nothing kept.
Over == m_end_decode /\ m_frame.id = NoFrame /\ ret.status # "SUCCESS"

Controlled ==
  /\ pc \in {"reading", "send", "receive"} => ~m_end_decode
  /\ timedOut => m_end_decode
  /\ seeks = 0 => target = NoSeek
  /\ m_end_decode /\ NothingFailed => Over
  /\ ret.info = "END_OF_STREAM" => Over
  /\ Idle /\ ret.info = "RES_CHANGE" => m_res_change /\ ~m_end_decode /\ m_frame.id # NoFrame

\* Packets the codec was given, and the last frame taken out of it.
Sent == IF m_pkt = 0 THEN position ELSE position - 1
Taken == Sent * FramesPerPacket - Len(codec.held)

\* m_pkt holds a packet from when it is read, or refused, until it is sent.
PacketKept ==
  /\ m_flush \/ m_resend \/ (pc = "send" /\ ~m_eof) => m_pkt # 0
  /\ m_pkt # 0 => m_end_decode \/ m_flush \/ m_resend \/ (pc = "send" /\ ~m_eof)
  /\ m_resend => pc = "read" /\ ~m_end_decode /\ ~m_flush
  /\ m_eof \/ pc = "reading" => ~m_flush /\ ~m_resend
  /\ pc = "reading" => ~m_eof
  /\ m_eof => position = NumPackets
  /\ codec.draining => m_eof
  /\ codec.needKey => codec.held = <<>>

\* It is the last one read, and the codec holds the frames of the ones before.
PacketsFlow ==
  /\ m_pkt # 0 => m_pkt = position
  /\ \A i \in 1 .. Len(codec.held) : codec.held[i] = Taken + i

\* In a plain file the codec always has room and no size changes.
PlainFlow ==
  PlainFile =>
    /\ ~m_flush
    /\ Len(codec.held) <= Capacity /\ (pc # "receive" => Len(codec.held) < Capacity)
    /\ codec.size = "first" /\ (pc = "receive" => m_last = "first")
    /\ Idle => ~m_res_change

LastOf(s) == IF s = <<>> THEN 0 ELSE s[Len(s)]
Last == LastOf(delivered)
Kept == Idle /\ m_res_change
Given == IF Kept THEN Taken - 1 ELSE Taken  \* the last frame given to the caller, or skipped

\* The caller has had nothing that is not taken out of the codec, and all of
\* it when nothing failed.
FramesFlow ==
  /\ Len(delivered) <= Last /\ Last <= Taken
  /\ Kept => Last < m_frame.id /\ m_frame.id <= Taken
  /\ target # NoSeek /\ ~Idle => delivered = <<>>
  /\ failures = 0 =>
       /\ Kept => m_frame.id = Taken /\ ~codec.needKey
       /\ delivered # <<>> => Last = Given /\ ~codec.needKey
       /\ seeks = 0 => Len(delivered) = Given /\ (codec.needKey => Sent = 0)

Flows == Orderly /\ ~m_end_decode => PacketsFlow /\ PlainFlow /\ FramesFlow

\* A kept frame, which may come again once the decoding has ended, is not
\* before the last one.
NeverBack == Orderly => FramesInOrder /\ (m_frame.id # NoFrame => Last <= m_frame.id)

\* Unless a packet changes it early, the codec has the size of the frame before,
\* and so has the token.
SizesAgree ==
  seeks = 0 /\ ~EarlySize =>
    /\ m_frame.id # NoFrame => codec.size = PacketSize(PacketOf(m_frame.id))
    /\ pc # "idle" => dst.size = codec.size
    /\ pc = "receive" => m_last = codec.size
    /\ DstHoldsItsSize

\* A seek is not past its frame.
Sought == target - StartTime
SeekApproaches ==
  PlainFile /\ target # NoSeek /\ ~Idle /\ ~m_end_decode =>
    /\ Sought \in 0 .. NumFrames - 1 /\ Taken <= Sought
    /\ codec.needKey => Sent + 1 \in KeyPackets
SeekArrives == PlainFile /\ StartTime = 0 => SeekReachesTarget

DecInv ==
  /\ DecTypeOK /\ Clocked /\ Controlled /\ PacketKept /\ Flows /\ NeverBack /\ EndMeansAll
  /\ SizesAgree /\ SeekApproaches /\ SeekArrives

-----------------------------------------------------------------------------
(***************************************************************************)
(* Numbers of packets and frames.                                          *)
(***************************************************************************)
LEMMA ProductOfNats == ASSUME NEW m \in Nat, NEW n \in Nat PROVE m * n \in Nat
OBVIOUS

LEMMA NumFramesNat == NumFrames \in Nat \ {0}
<1>1. NumPackets \in Nat \ {0} /\ FramesPerPacket \in Nat \ {0}
  BY DecodeAssumption
<1>2. \A m, n \in Nat \ {0} : m * n \in Nat \ {0}
  OBVIOUS
<1> QED BY <1>1, <1>2 DEF NumFrames

LEMMA FramesAreFrames ==
  ASSUME NEW n \in Nat \ {0}, NEW k \in Nat \ {0}, NEW p \in 1 .. n, NEW i \in 1 .. k
  PROVE  (p - 1) * k + i \in 1 .. n * k
<1>1. (p - 1) * k \in Nat /\ (n - p) * k \in Nat
  BY ProductOfNats
<1>2. (p - 1) * k + k + (n - p) * k = n * k
  OBVIOUS
<1>3. n * k \in Nat
  BY ProductOfNats
<1> DEFINE before == (p - 1) * k
           after == (n - p) * k
           all == n * k
<1> HIDE DEF before, after, all
<1>4. before \in Nat /\ after \in Nat /\ all \in Nat /\ before + k + after = all
  BY <1>1, <1>2, <1>3 DEF before, after, all
<1>5. before + i \in 1 .. all
  BY <1>4
<1> QED BY <1>5 DEF before, all

\* The frames of a packet are frames of the file.
LEMMA FramesOfType ==
  ASSUME NEW p \in 1 .. NumPackets
  PROVE  FramesOf(p) \in Seq(Frame) /\ Len(FramesOf(p)) = FramesPerPacket
<1>1. \A i \in 1 .. FramesPerPacket : (p - 1) * FramesPerPacket + i \in Frame
  BY DecodeAssumption, FramesAreFrames DEF Frame, NumFrames
<1> QED BY <1>1, DecodeAssumption DEF FramesOf

\* Every nonempty set of numbers below a bound has a greatest.
LEMMA GreatestNumber ==
  ASSUME NEW n \in Nat, NEW S \in SUBSET (0 .. n), S # {}
  PROVE  Max(S) \in S /\ \A y \in S : Max(S) >= y
<1> DEFINE T == {x \in Nat : n - x \in S}
<1>0. \A x \in S : x \in Nat /\ n - x \in Nat /\ n - (n - x) = x
  <2>1. \A x \in 0 .. n : x \in Nat /\ n - x \in Nat /\ n - (n - x) = x
    OBVIOUS
  <2> QED BY <2>1
<1>1. T \subseteq Nat /\ T # {}
  BY <1>0
<1>2. \E x \in T : \A y \in T : ~(<<y, x>> \in OpToRel(<, Nat))
  BY <1>1, NatLessThanWellFounded, WFMin, Zenon
<1>3. \E x \in T : \A y \in T : ~(y < x)
  BY <1>1, <1>2 DEF OpToRel
<1>4. \E x \in S : \A y \in S : x >= y
  <2>1. PICK x \in T : \A y \in T : ~(y < x)
    BY <1>3
  <2>2. x \in Nat /\ n - x \in S
    OBVIOUS
  <2>3. ASSUME NEW y \in S PROVE n - x >= y
    <3>1. y \in Nat /\ n - y \in Nat /\ n - y \in T
      BY <1>0
    <3>2. ~(n - y < x)
      BY <2>1, <3>1
    <3> QED BY <2>2, <3>1, <3>2
  <2> QED BY <2>2, <2>3
<1> QED BY <1>4, Zenon DEF Max

\* A seek lands on a key packet that is not behind its frame.
LEMMA KeyBeforeIsKey ==
  ASSUME NEW t \in Nat
  PROVE  KeyBefore(t) \in KeyPackets /\ (KeyBefore(t) - 1) * FramesPerPacket <= t
<1> DEFINE S == {p \in KeyPackets : (p - 1) * FramesPerPacket <= t}
<1>1. NumPackets \in Nat /\ S \in SUBSET (0 .. NumPackets)
  <2>1. \A p \in 1 .. NumPackets : p \in 0 .. NumPackets
    BY DecodeAssumption
  <2> QED BY <2>1, DecodeAssumption
<1>2. 1 \in S
  BY DecodeAssumption
<1>3. Max(S) \in S
  BY <1>1, <1>2, GreatestNumber
<1> QED BY <1>3 DEF KeyBefore

-----------------------------------------------------------------------------
(***************************************************************************)
(* How a call ends.                                                        *)
(***************************************************************************)
LEMMA FailReturns ==
  ASSUME NEW info, Return("FAIL", info)
  PROVE  /\ pc' = "idle" /\ ret' = [status |-> "FAIL", info |-> info]
         /\ delivered' = delivered
BY DEF Return, SeekGoesOn, Finish

\* A seek that got a frame goes on, or succeeds.
LEMMA SuccessReturns ==
  ASSUME NEW info, Return("SUCCESS", info)
  PROVE  \/ /\ target # NoSeek /\ m_frame'.pts + StartTime < target
            /\ pc' = "read" /\ UNCHANGED <<ret, delivered>>
         \/ /\ target # NoSeek /\ ~(m_frame'.pts + StartTime < target)
            /\ Finish("SUCCESS", "SUCCESS")
         \/ target = NoSeek /\ Finish("SUCCESS", info)
BY DEF Return, SeekGoesOn

LEMMA AfterSuccess ==
  ASSUME NEW info, Return("SUCCESS", info)
  PROVE  \/ pc' = "read" /\ UNCHANGED ret
         \/ pc' = "idle" /\ ret'.status = "SUCCESS" /\ ret'.info \in {"SUCCESS", info}
BY SuccessReturns DEF Finish

\* What is counted is no longer zero.
LEMMA Counted ==
  ASSUME DecTypeOK
  PROVE  /\ SeekBegins => seeks' # 0
         /\ LibraryFails => failures' # 0 /\ ~NothingFailed'
<1>1. seeks \in Nat /\ failures \in Nat
  BY DecodeAssumption DEF DecTypeOK
<1>2. \A n \in Nat : n + 1 # 0
  OBVIOUS
<1> QED BY <1>1, <1>2 DEF SeekBegins, LibraryFails, NothingFailed

\* What the codec is after a packet or a frame.
LEMMA CodecFields ==
  ASSUME DecTypeOK
  PROVE  /\ codec' = Fed =>
              /\ codec'.draining = codec.draining /\ codec'.needKey = Dropped
              /\ codec'.held = IF Dropped THEN codec.held ELSE codec.held \o FramesOf(m_pkt)
              /\ codec'.size = IF EarlySize /\ ~Dropped THEN PacketSize(m_pkt) ELSE codec.size
         /\ ReceiveBeginsFrame =>
              /\ codec'.draining = codec.draining /\ codec'.needKey = codec.needKey
              /\ codec'.held = Tail(codec.held)
              /\ codec'.size = IF EarlySize THEN codec.size
                               ELSE PacketSize(PacketOf(Head(codec.held)))
<1>1. codec \in [held : Seq(Frame), draining : BOOLEAN, needKey : BOOLEAN, size : Size]
  BY DEF DecTypeOK
<1>2. ASSUME codec' = Fed
      PROVE  /\ codec'.draining = codec.draining /\ codec'.needKey = Dropped
             /\ codec'.held = IF Dropped THEN codec.held ELSE codec.held \o FramesOf(m_pkt)
             /\ codec'.size = IF EarlySize /\ ~Dropped THEN PacketSize(m_pkt) ELSE codec.size
  BY <1>1, <1>2 DEF Fed
<1>3. ASSUME ReceiveBeginsFrame
      PROVE  /\ codec'.draining = codec.draining /\ codec'.needKey = codec.needKey
             /\ codec'.held = Tail(codec.held)
             /\ codec'.size = IF EarlySize THEN codec.size
                              ELSE PacketSize(PacketOf(Head(codec.held)))
  BY <1>1, <1>3 DEF ReceiveBeginsFrame
<1> QED BY <1>2, <1>3

\* The frame received is one of the file.
LEMMA ReceivedFrame ==
  ASSUME DecTypeOK, ReceiveBeginsFrame
  PROVE  /\ Head(codec.held) \in Frame /\ Tail(codec.held) \in Seq(Frame)
         /\ Len(Tail(codec.held)) = Len(codec.held) - 1
         /\ m_frame'.id = Head(codec.held) /\ m_frame'.id # NoFrame
         /\ m_frame'.pts = PtsOf(Head(codec.held))
<1>1. codec.held \in Seq(Frame) /\ codec.held # <<>>
  BY DEF DecTypeOK, ReceiveBeginsFrame
<1>2. \A f \in Frame : f # NoFrame
  BY NumFramesNat DEF Frame, NoFrame
<1>3. /\ Head(codec.held) \in Frame /\ Tail(codec.held) \in Seq(Frame)
      /\ Len(Tail(codec.held)) = Len(codec.held) - 1
  BY <1>1, HeadTailProperties
<1> QED BY <1>2, <1>3 DEF ReceiveBeginsFrame, Decoded

-----------------------------------------------------------------------------
(***************************************************************************)
(* The control.                                                            *)
(***************************************************************************)
LEMMA ClockStep == ASSUME Clocked, [DecNext]_vars PROVE Clocked'
<1> USE DEF Clocked, flags, saved, clock, bounds
<1>1. CASE UNCHANGED vars
  BY <1>1 DEF vars
<1>2. CASE RunDecode
  BY <1>2
     DEF RunDecode, NewDst
<1>3. CASE RunReturnsStash
  BY <1>3
     DEF RunReturnsStash, StashBegins, Finish, NewDst
<1>4. CASE RunFindsBlank
  BY <1>4
     DEF RunFindsBlank, StashBegins, Finish, NewDst, BlankCopyStatus
<1>5. CASE RunStashCopyFails
  BY <1>5
     DEF RunStashCopyFails, StashBegins, Finish, NewDst, LibraryFails
<1>6. ASSUME NEW t \in 0 .. NumFrames - 1, RunSeek(t) PROVE Clocked'
  BY <1>6
     DEF RunSeek, SeekBegins, ResChangeInSeek, EofAfterSeek, Reset, NewDst,
         OpenedCodec
<1>7. ASSUME NEW t \in 0 .. NumFrames - 1, RunSeekFails(t) PROVE Clocked'
  BY <1>7
     DEF RunSeekFails, SeekBegins, ResChangeInSeek, LibraryFails, Reset,
         NewDst, OpenedCodec
<1>8. ASSUME NEW t \in 0 .. NumFrames - 1, RunSeekNotSupported(t) PROVE Clocked'
  BY <1>8
     DEF RunSeekNotSupported, SeekBegins, ResChangeInSeek, NewDst
<1>9. CASE DecodeFinished
  BY FailReturns, <1>9
     DEF DecodeFinished, InCall
<1>10. CASE ReadSkipped
  BY <1>10
     DEF ReadSkipped, ReadBegins, ReadsNothing, InCall
<1>11. CASE ReadResent
  BY <1>11
     DEF ReadResent, ReadBegins, ReadsNothing, InCall
<1>12. CASE ReadCalls
  BY <1>12
     DEF ReadCalls, ReadBegins, ReadsNothing, ResetBeforeRead, Reset, InCall
<1>13. CASE ReadTimesOut
  BY FailReturns, <1>13
     DEF ReadTimesOut, ReadReturns, EndDecode, InCall
<1>14. CASE ReadPacket
  BY <1>14
     DEF ReadPacket, ReadReturns, InCall
<1>15. CASE ReadEof
  BY <1>15
     DEF ReadEof, ReadReturns, InCall
<1>16. CASE ReadFails
  BY FailReturns, <1>16
     DEF ReadFails, ReadReturns, LibraryFails, EndDecode, InCall
<1>17. CASE Tick
  BY <1>17
     DEF Tick, TimePasses
<1>18. CASE SendsNothing
  BY <1>18
     DEF SendsNothing, SendBegins, InCall
<1>19. CASE SendNull
  BY <1>19
     DEF SendNull, SendBegins, InCall
<1>20. CASE SendPacket
  BY <1>20
     DEF SendPacket, SendBegins, InCall
<1>21. CASE SendRefused
  BY <1>21
     DEF SendRefused, SendBegins, InCall
<1>22. CASE SendFails
  BY FailReturns, <1>22
     DEF SendFails, SendBegins, LibraryFails, EndDecode, InCall
<1>23. CASE ReceiveEof
  BY FailReturns, <1>23
     DEF ReceiveEof, ReceiveBegins, EndDecode, InCall, Blank
<1>24. CASE ReceiveMore
  BY <1>24
     DEF ReceiveMore, ReceiveBegins, InCall, Blank
<1>25. CASE ReceiveFails
  BY FailReturns, <1>25
     DEF ReceiveFails, ReceiveBegins, LibraryFails, EndDecode, InCall, Blank
<1>26. CASE ReceiveChanged
  BY AfterSuccess, <1>26
     DEF ReceiveChanged, ReceiveBeginsFrame, ReceiveBegins, InCall
<1>27. ASSUME NEW f \in Frame, ReceiveFrame(f) PROVE Clocked'
  BY AfterSuccess, <1>27
     DEF ReceiveFrame, ReceiveSameSize, ReceiveBeginsFrame, ReceiveBegins,
         InCall
<1>28. ASSUME NEW f \in Frame, ReceiveCopyFails(f) PROVE Clocked'
  BY FailReturns, <1>28
     DEF ReceiveCopyFails, ReceiveSameSize, ReceiveBeginsFrame, ReceiveBegins,
         LibraryFails, EndDecode, InCall
<1> QED BY <1>1, <1>2, <1>3, <1>4, <1>5, <1>6, <1>7, <1>8, <1>9, <1>10, <1>11,
           <1>12, <1>13, <1>14, <1>15, <1>16, <1>17, <1>18, <1>19, <1>20,
           <1>21, <1>22, <1>23, <1>24, <1>25, <1>26, <1>27, <1>28
       DEF DecNext, RunBegins, RunContinues, SourceAnswers

LEMMA KeptPacketStep == ASSUME PacketKept, Controlled, DecTypeOK, [DecNext]_vars PROVE PacketKept'
<1> USE DEF PacketKept, flags, saved, clock, bounds
<1>1. CASE UNCHANGED vars
  BY <1>1 DEF vars
<1>2. CASE RunDecode
  BY <1>2
     DEF RunDecode, NewDst
<1>3. CASE RunReturnsStash
  BY <1>3
     DEF RunReturnsStash, StashBegins, Finish, NewDst
<1>4. CASE RunFindsBlank
  BY <1>4
     DEF RunFindsBlank, StashBegins, Finish, NewDst, BlankCopyStatus
<1>5. CASE RunStashCopyFails
  BY <1>5
     DEF RunStashCopyFails, StashBegins, Finish, NewDst, LibraryFails
<1>6. ASSUME NEW t \in 0 .. NumFrames - 1, RunSeek(t) PROVE PacketKept'
  BY <1>6
     DEF RunSeek, SeekBegins, ResChangeInSeek, EofAfterSeek, Reset, NewDst,
         OpenedCodec
<1>7. ASSUME NEW t \in 0 .. NumFrames - 1, RunSeekFails(t) PROVE PacketKept'
  BY <1>7
     DEF RunSeekFails, SeekBegins, ResChangeInSeek, LibraryFails, Reset,
         NewDst, OpenedCodec
<1>8. ASSUME NEW t \in 0 .. NumFrames - 1, RunSeekNotSupported(t) PROVE PacketKept'
  BY <1>8
     DEF RunSeekNotSupported, SeekBegins, ResChangeInSeek, NewDst
<1>9. CASE DecodeFinished
  BY FailReturns, <1>9
     DEF DecodeFinished, InCall
<1>10. CASE ReadSkipped
  BY <1>10
     DEF ReadSkipped, ReadBegins, ReadsNothing, InCall
<1>11. CASE ReadResent
  BY <1>11
     DEF ReadResent, ReadBegins, ReadsNothing, InCall
<1>12. CASE ReadCalls
  BY <1>12
     DEF ReadCalls, ReadBegins, ReadsNothing, ResetBeforeRead, Reset, InCall
<1>13. CASE ReadTimesOut
  BY FailReturns, <1>13
     DEF ReadTimesOut, ReadReturns, EndDecode, InCall
<1>14. CASE ReadPacket
  <2>1. position + 1 # 0
    BY DecodeAssumption DEF DecTypeOK
  <2> QED BY <1>14, <2>1 DEF ReadPacket, ReadReturns, InCall
<1>15. CASE ReadEof
  BY <1>15
     DEF ReadEof, ReadReturns, InCall
<1>16. CASE ReadFails
  BY FailReturns, <1>16
     DEF ReadFails, ReadReturns, LibraryFails, EndDecode, InCall
<1>17. CASE Tick
  BY <1>17
     DEF Tick, TimePasses
<1>18. CASE SendsNothing
  BY <1>18
     DEF SendsNothing, SendBegins, InCall
<1>19. CASE SendNull
  BY <1>19
     DEF SendNull, SendBegins, InCall
<1>20. CASE SendPacket
  <2>1. codec'.draining = codec.draining /\ (codec'.needKey => codec'.held = codec.held)
    BY <1>20, CodecFields DEF SendPacket
  <2>2. codec'.needKey => codec.needKey
    BY <1>20, CodecFields DEF SendPacket, Dropped
  <2> QED BY <1>20, <2>1, <2>2 DEF SendPacket, SendBegins, InCall
<1>21. CASE SendRefused
  BY <1>21
     DEF SendRefused, SendBegins, InCall
<1>22. CASE SendFails
  BY FailReturns, <1>22
     DEF SendFails, SendBegins, LibraryFails, EndDecode, InCall
<1>23. CASE ReceiveEof
  BY FailReturns, <1>23
     DEF ReceiveEof, ReceiveBegins, EndDecode, InCall, Blank
<1>24. CASE ReceiveMore
  <2>1. m_resend' <=> m_resend \/ m_flush
    BY <1>24 DEF ReceiveMore, Resends
  <2> QED BY <1>24, <2>1 DEF ReceiveMore, ReceiveBegins, InCall, Controlled
<1>25. CASE ReceiveFails
  BY FailReturns, <1>25
     DEF ReceiveFails, ReceiveBegins, LibraryFails, EndDecode, InCall, Blank
<1>26. CASE ReceiveChanged
  <2>1. codec'.draining = codec.draining /\ codec'.needKey = codec.needKey /\ codec.held # <<>>
    BY <1>26, CodecFields DEF ReceiveChanged, ReceiveBeginsFrame
  <2>2. ~codec'.needKey
    BY <2>1
  <2> QED BY <1>26, <2>1, <2>2, AfterSuccess
          DEF ReceiveChanged, ReceiveBeginsFrame, ReceiveBegins, InCall
<1>27. ASSUME NEW f \in Frame, ReceiveFrame(f) PROVE PacketKept'
  <2>1. codec'.draining = codec.draining /\ codec'.needKey = codec.needKey /\ codec.held # <<>>
    BY <1>27, CodecFields DEF ReceiveFrame, ReceiveSameSize, ReceiveBeginsFrame
  <2>2. ~codec'.needKey
    BY <2>1
  <2> QED BY <1>27, <2>1, <2>2, AfterSuccess
          DEF ReceiveFrame, ReceiveSameSize, ReceiveBeginsFrame, ReceiveBegins, InCall
<1>28. ASSUME NEW f \in Frame, ReceiveCopyFails(f) PROVE PacketKept'
  <2>1. codec'.draining = codec.draining /\ codec'.needKey = codec.needKey /\ codec.held # <<>>
    BY <1>28, CodecFields DEF ReceiveCopyFails, ReceiveSameSize, ReceiveBeginsFrame
  <2>2. ~codec'.needKey
    BY <2>1
  <2> QED BY <1>28, <2>1, <2>2, FailReturns
          DEF ReceiveCopyFails, ReceiveSameSize, ReceiveBeginsFrame, ReceiveBegins, EndDecode, InCall
<1> QED BY <1>1, <1>2, <1>3, <1>4, <1>5, <1>6, <1>7, <1>8, <1>9, <1>10, <1>11,
           <1>12, <1>13, <1>14, <1>15, <1>16, <1>17, <1>18, <1>19, <1>20,
           <1>21, <1>22, <1>23, <1>24, <1>25, <1>26, <1>27, <1>28
       DEF DecNext, RunBegins, RunContinues, SourceAnswers

LEMMA ControlStep == ASSUME Controlled, DecTypeOK, [DecNext]_vars PROVE Controlled'
<1> USE DEF Controlled, Over, Idle, NothingFailed, flags, saved, clock, bounds
<1>1. CASE UNCHANGED vars
  BY <1>1 DEF vars
<1>2. CASE RunDecode
  BY <1>2
     DEF RunDecode, NewDst
<1>3. CASE RunReturnsStash
  BY <1>3
     DEF RunReturnsStash, StashBegins, Finish, NewDst
<1>4. CASE RunFindsBlank
  BY <1>4
     DEF RunFindsBlank, StashBegins, Finish, NewDst, BlankCopyStatus
<1>5. CASE RunStashCopyFails
  BY Counted, <1>5
     DEF RunStashCopyFails, StashBegins, Finish, NewDst, LibraryFails
<1>6. ASSUME NEW t \in 0 .. NumFrames - 1, RunSeek(t) PROVE Controlled'
  BY Counted, <1>6
     DEF RunSeek, SeekBegins, ResChangeInSeek, EofAfterSeek, Reset, NewDst,
         OpenedCodec
<1>7. ASSUME NEW t \in 0 .. NumFrames - 1, RunSeekFails(t) PROVE Controlled'
  BY Counted, <1>7
     DEF RunSeekFails, SeekBegins, ResChangeInSeek, LibraryFails, Reset,
         NewDst, OpenedCodec
<1>8. ASSUME NEW t \in 0 .. NumFrames - 1, RunSeekNotSupported(t) PROVE Controlled'
  BY Counted, <1>8
     DEF RunSeekNotSupported, SeekBegins, ResChangeInSeek, NewDst
<1>9. CASE DecodeFinished
  BY FailReturns, <1>9
     DEF DecodeFinished, InCall
<1>10. CASE ReadSkipped
  BY <1>10
     DEF ReadSkipped, ReadBegins, ReadsNothing, InCall
<1>11. CASE ReadResent
  BY <1>11
     DEF ReadResent, ReadBegins, ReadsNothing, InCall
<1>12. CASE ReadCalls
  BY <1>12
     DEF ReadCalls, ReadBegins, ReadsNothing, ResetBeforeRead, Reset, InCall
<1>13. CASE ReadTimesOut
  BY FailReturns, <1>13
     DEF ReadTimesOut, ReadReturns, EndDecode, InCall
<1>14. CASE ReadPacket
  BY <1>14
     DEF ReadPacket, ReadReturns, InCall
<1>15. CASE ReadEof
  BY <1>15
     DEF ReadEof, ReadReturns, InCall
<1>16. CASE ReadFails
  BY FailReturns, Counted, <1>16
     DEF ReadFails, ReadReturns, LibraryFails, EndDecode, InCall
<1>17. CASE Tick
  BY <1>17
     DEF Tick, TimePasses
<1>18. CASE SendsNothing
  BY <1>18
     DEF SendsNothing, SendBegins, InCall
<1>19. CASE SendNull
  BY <1>19
     DEF SendNull, SendBegins, InCall
<1>20. CASE SendPacket
  BY <1>20
     DEF SendPacket, SendBegins, InCall
<1>21. CASE SendRefused
  BY <1>21
     DEF SendRefused, SendBegins, InCall
<1>22. CASE SendFails
  BY FailReturns, Counted, <1>22
     DEF SendFails, SendBegins, LibraryFails, EndDecode, InCall
<1>23. CASE ReceiveEof
  BY FailReturns, <1>23
     DEF ReceiveEof, ReceiveBegins, EndDecode, InCall, Blank
<1>24. CASE ReceiveMore
  BY <1>24
     DEF ReceiveMore, ReceiveBegins, InCall, Blank
<1>25. CASE ReceiveFails
  BY FailReturns, Counted, <1>25
     DEF ReceiveFails, ReceiveBegins, LibraryFails, EndDecode, InCall, Blank
<1>26. CASE ReceiveChanged
  BY AfterSuccess, ReceivedFrame, <1>26
     DEF ReceiveChanged, ReceiveBeginsFrame, ReceiveBegins, InCall
<1>27. ASSUME NEW f \in Frame, ReceiveFrame(f) PROVE Controlled'
  BY AfterSuccess, <1>27
     DEF ReceiveFrame, ReceiveSameSize, ReceiveBeginsFrame, ReceiveBegins,
         InCall
<1>28. ASSUME NEW f \in Frame, ReceiveCopyFails(f) PROVE Controlled'
  BY FailReturns, Counted, <1>28
     DEF ReceiveCopyFails, ReceiveSameSize, ReceiveBeginsFrame, ReceiveBegins,
         LibraryFails, EndDecode, InCall
<1> QED BY <1>1, <1>2, <1>3, <1>4, <1>5, <1>6, <1>7, <1>8, <1>9, <1>10, <1>11,
           <1>12, <1>13, <1>14, <1>15, <1>16, <1>17, <1>18, <1>19, <1>20,
           <1>21, <1>22, <1>23, <1>24, <1>25, <1>26, <1>27, <1>28
       DEF DecNext, RunBegins, RunContinues, SourceAnswers

-----------------------------------------------------------------------------
(***************************************************************************)
(* Types, in parts.                                                        *)
(***************************************************************************)
PacketTypes ==
  /\ position \in 0 .. NumPackets /\ m_pkt \in 0 .. NumPackets
  /\ codec \in [held : Seq(Frame), draining : BOOLEAN, needKey : BOOLEAN, size : Size]
FrameTypes ==
  /\ m_frame \in [id : Frame \cup {NoFrame}, pts : Int]
  /\ m_packet_data \in Frame \cup {NoFrame}
  /\ m_side_data \in [of : Frame \cup {NoFrame}, count : Nat]
  /\ m_last \in Size \cup {"none"}
  /\ dst \in [size : Size, frame : Frame \cup {NoFrame}]
FlagTypes ==
  /\ m_end_decode \in BOOLEAN /\ m_flush \in BOOLEAN /\ m_resend \in BOOLEAN
  /\ m_eof \in BOOLEAN /\ m_res_change \in BOOLEAN /\ timedOut \in BOOLEAN
CallTypes ==
  /\ pc \in {"idle", "read", "reading", "send", "receive"}
  /\ target \in Int
  /\ ret \in [status : {"none", "SUCCESS", "FAIL", "THROW"},
              info : {"none", "SUCCESS", "FAIL", "END_OF_STREAM", "RES_CHANGE", "NOT_SUPPORTED"}]
  /\ delivered \in Seq(Frame \cup {NoFrame})
CountTypes ==
  /\ elapsed \in 0 .. m_timeout + 1 /\ silence \in 0 .. m_timeout + 1
  /\ seeks \in 0 .. MaxSeeks /\ failures \in 0 .. MaxFailures

LEMMA TypeParts ==
  DecTypeOK <=> PacketTypes /\ FrameTypes /\ FlagTypes /\ CallTypes /\ CountTypes
BY DEF DecTypeOK, PacketTypes, FrameTypes, FlagTypes, CallTypes, CountTypes

LEMMA TimeoutNat == m_timeout \in Nat
BY TimeoutAssumption DEF m_timeout, fromString

LEMMA Sizes ==
  /\ \A p : PacketSize(p) \in Size
  /\ DecTypeOK => Reported \in Size
BY DEF PacketSize, Size, Reported, DecTypeOK

LEMMA PacketTypesStep ==
  ASSUME DecTypeOK, PacketKept, [DecNext]_vars PROVE PacketTypes'
<1>t. PacketTypes
  BY TypeParts
<1>o. OpenedCodec \in [held : Seq(Frame), draining : BOOLEAN, needKey : BOOLEAN, size : Size]
  <2>1. <<>> \in Seq(Frame)
    BY EmptySeq
  <2> QED BY <2>1, Sizes DEF OpenedCodec
<1> USE DEF PacketTypes
<1>1. CASE UNCHANGED <<position, m_pkt, codec>>
  BY <1>t, <1>1
<1>2. ASSUME NEW t \in 0 .. NumFrames - 1, RunSeek(t) PROVE PacketTypes'
  <2>1. t \in Nat
    BY NumFramesNat
  <2>2. KeyBefore(t) \in 1 .. NumPackets
    BY <2>1, KeyBeforeIsKey, DecodeAssumption
  <2>3. KeyBefore(t) - 1 \in 0 .. NumPackets
    BY <2>2, DecodeAssumption
  <2> QED BY <1>t, <1>o, <1>2, <2>3 DEF RunSeek, SeekBegins
<1>3. ASSUME NEW t \in 0 .. NumFrames - 1, RunSeekFails(t) PROVE PacketTypes'
  BY <1>t, <1>o, <1>3 DEF RunSeekFails, SeekBegins
<1>4. CASE ReadPacket
  <2>1. position + 1 \in 0 .. NumPackets
    BY <1>t, <1>4, DecodeAssumption DEF ReadPacket
  <2> QED BY <1>t, <1>4, <2>1 DEF ReadPacket, ReadReturns
<1>5. CASE SendNull
  BY <1>t, <1>5 DEF SendNull, SendBegins
<1>6. CASE SendPacket
  <2>1. m_pkt \in 1 .. NumPackets
    <3>1. m_pkt # 0
      BY <1>6 DEF SendPacket, SendBegins, PacketKept
    <3> QED BY <1>t, <3>1, DecodeAssumption
  <2>2. codec.held \in Seq(Frame) /\ FramesOf(m_pkt) \in Seq(Frame)
    BY <1>t, <2>1, FramesOfType
  <2>3. codec.held \o FramesOf(m_pkt) \in Seq(Frame)
    BY <2>2, ConcatProperties
  <2>4. Dropped \in BOOLEAN
    BY <1>t DEF Dropped
  <2>5. Fed \in [held : Seq(Frame), draining : BOOLEAN, needKey : BOOLEAN, size : Size]
    BY <1>t, <2>3, <2>4, Sizes DEF Fed
  <2>6. 0 \in 0 .. NumPackets
    BY DecodeAssumption
  <2> QED BY <1>t, <1>6, <2>5, <2>6 DEF SendPacket, SendBegins
<1>7. CASE ReceiveBeginsFrame
  <2>1. Tail(codec.held) \in Seq(Frame)
    BY <1>7, ReceivedFrame
  <2> QED BY <1>t, <1>7, <2>1, Sizes DEF ReceiveBeginsFrame, ReceiveBegins
<1> QED BY <1>1, <1>2, <1>3, <1>4, <1>5, <1>6, <1>7
       DEF DecNext, RunBegins, RunContinues, SourceAnswers, RunDecode,
           RunReturnsStash, RunFindsBlank, RunStashCopyFails, RunSeek,
           RunSeekFails, RunSeekNotSupported, DecodeFinished, ReadSkipped,
           ReadResent, ReadCalls, ReadTimesOut, ReadPacket, ReadEof, ReadFails,
           Tick, SendsNothing, SendNull, SendPacket, SendRefused, SendFails,
           ReceiveEof, ReceiveMore, ReceiveFails, ReceiveChanged, ReceiveFrame,
           ReceiveCopyFails, StashBegins, SeekBegins, ReadBegins, ReadReturns,
           SendBegins, ReceiveBegins, ReceiveSameSize, ReceiveBeginsFrame,
           EndDecode, InCall, vars

LEMMA FrameTypesStep == ASSUME DecTypeOK, [DecNext]_vars PROVE FrameTypes'
<1>t. FrameTypes /\ PacketTypes
  BY TypeParts
<1> USE DEF FrameTypes
<1>1. \/ UNCHANGED dst \/ dst' = NewDst \/ dst' = [NewDst EXCEPT !.frame = m_frame.id]
      \/ \E f \in Frame : CopyFrame(f)
  BY DEF DecNext, RunBegins, RunContinues, SourceAnswers, RunDecode,
         RunReturnsStash, RunFindsBlank, RunStashCopyFails, RunSeek,
         RunSeekFails, RunSeekNotSupported, DecodeFinished, ReadSkipped,
         ReadResent, ReadCalls, ReadTimesOut, ReadPacket, ReadEof, ReadFails,
         Tick, SendsNothing, SendNull, SendPacket, SendRefused, SendFails,
         ReceiveEof, ReceiveMore, ReceiveFails, ReceiveChanged, ReceiveFrame,
         ReceiveCopyFails, StashBegins, SeekBegins, ReadBegins, ReadReturns,
         SendBegins, ReceiveBegins, ReceiveSameSize, ReceiveBeginsFrame,
         EndDecode, InCall, vars
<1>2. dst' \in [size : Size, frame : Frame \cup {NoFrame}]
  BY <1>t, <1>1, Sizes DEF NewDst, CopyFrame
<1>3. \/ UNCHANGED m_frame \/ m_frame' = Blank \/ m_frame' = [m_frame EXCEPT !.pts = NoPts]
      \/ ReceiveBeginsFrame
  BY DEF DecNext, RunBegins, RunContinues, SourceAnswers, RunDecode,
         RunReturnsStash, RunFindsBlank, RunStashCopyFails, RunSeek,
         RunSeekFails, RunSeekNotSupported, DecodeFinished, ReadSkipped,
         ReadResent, ReadCalls, ReadTimesOut, ReadPacket, ReadEof, ReadFails,
         Tick, SendsNothing, SendNull, SendPacket, SendRefused, SendFails,
         ReceiveEof, ReceiveMore, ReceiveFails, ReceiveChanged, ReceiveFrame,
         ReceiveCopyFails, StashBegins, SeekBegins, ReadBegins, ReadReturns,
         SendBegins, ReceiveBegins, ReceiveSameSize, ReceiveBeginsFrame,
         EndDecode, InCall, vars
<1>4. m_frame' \in [id : Frame \cup {NoFrame}, pts : Int]
  <2>1. NoPts \in Int
    BY NumFramesNat, DecodeAssumption DEF NoPts
  <2>2. \A f \in Frame : PtsOf(f) \in Int
    BY NumFramesNat, DecodeAssumption DEF Frame, PtsOf
  <2> QED BY <1>t, <1>3, <2>1, <2>2, ReceivedFrame DEF Blank, ReceiveBeginsFrame, Decoded
<1>5. UNCHANGED m_last \/ m_last' = Reported
  BY DEF DecNext, RunBegins, RunContinues, SourceAnswers, RunDecode,
         RunReturnsStash, RunFindsBlank, RunStashCopyFails, RunSeek,
         RunSeekFails, RunSeekNotSupported, DecodeFinished, ReadSkipped,
         ReadResent, ReadCalls, ReadTimesOut, ReadPacket, ReadEof, ReadFails,
         Tick, SendsNothing, SendNull, SendPacket, SendRefused, SendFails,
         ReceiveEof, ReceiveMore, ReceiveFails, ReceiveChanged, ReceiveFrame,
         ReceiveCopyFails, StashBegins, SeekBegins, ReadBegins, ReadReturns,
         SendBegins, ReceiveBegins, ReceiveSameSize, ReceiveBeginsFrame,
         EndDecode, InCall, vars
<1>6. \/ UNCHANGED saved
      \/ \E f \in Frame : m_packet_data' = f /\ m_side_data' = SavedVectors(f)
  BY DEF DecNext, RunBegins, RunContinues, SourceAnswers, RunDecode,
         RunReturnsStash, RunFindsBlank, RunStashCopyFails, RunSeek,
         RunSeekFails, RunSeekNotSupported, DecodeFinished, ReadSkipped,
         ReadResent, ReadCalls, ReadTimesOut, ReadPacket, ReadEof, ReadFails,
         Tick, SendsNothing, SendNull, SendPacket, SendRefused, SendFails,
         ReceiveEof, ReceiveMore, ReceiveFails, ReceiveChanged, ReceiveFrame,
         ReceiveCopyFails, StashBegins, SeekBegins, ReadBegins, ReadReturns,
         SendBegins, ReceiveBegins, ReceiveSameSize, ReceiveBeginsFrame,
         EndDecode, InCall, vars
<1>7. /\ m_packet_data' \in Frame \cup {NoFrame}
      /\ m_side_data' \in [of : Frame \cup {NoFrame}, count : Nat]
  BY <1>t, <1>6, DecodeAssumption DEF SavedVectors, saved
<1> QED BY <1>t, <1>2, <1>4, <1>5, <1>7, Sizes

LEMMA FlagTypesStep == ASSUME DecTypeOK, [DecNext]_vars PROVE FlagTypes'
<1>t. FlagTypes
  BY TypeParts
<1>1. UNCHANGED m_end_decode \/ m_end_decode' = TRUE
  BY DEF DecNext, RunBegins, RunContinues, SourceAnswers, RunDecode,
         RunReturnsStash, RunFindsBlank, RunStashCopyFails, RunSeek,
         RunSeekFails, RunSeekNotSupported, DecodeFinished, ReadSkipped,
         ReadResent, ReadCalls, ReadTimesOut, ReadPacket, ReadEof, ReadFails,
         Tick, SendsNothing, SendNull, SendPacket, SendRefused, SendFails,
         ReceiveEof, ReceiveMore, ReceiveFails, ReceiveChanged, ReceiveFrame,
         ReceiveCopyFails, StashBegins, SeekBegins, ReadBegins, ReadReturns,
         SendBegins, ReceiveBegins, ReceiveSameSize, ReceiveBeginsFrame,
         EndDecode, InCall, vars, flags
<1>2. UNCHANGED m_flush \/ m_flush' = TRUE \/ m_flush' = FALSE
  BY DEF DecNext, RunBegins, RunContinues, SourceAnswers, RunDecode,
         RunReturnsStash, RunFindsBlank, RunStashCopyFails, RunSeek,
         RunSeekFails, RunSeekNotSupported, DecodeFinished, ReadSkipped,
         ReadResent, ReadCalls, ReadTimesOut, ReadPacket, ReadEof, ReadFails,
         Tick, SendsNothing, SendNull, SendPacket, SendRefused, SendFails,
         ReceiveEof, ReceiveMore, ReceiveFails, ReceiveChanged, ReceiveFrame,
         ReceiveCopyFails, StashBegins, SeekBegins, ReadBegins, ReadReturns,
         SendBegins, ReceiveBegins, ReceiveSameSize, ReceiveBeginsFrame,
         EndDecode, InCall, vars, flags
<1>3. UNCHANGED m_resend \/ m_resend' = FALSE \/ m_resend' = (m_resend \/ m_flush)
  BY DEF DecNext, RunBegins, RunContinues, SourceAnswers, RunDecode,
         RunReturnsStash, RunFindsBlank, RunStashCopyFails, RunSeek,
         RunSeekFails, RunSeekNotSupported, DecodeFinished, ReadSkipped,
         ReadResent, ReadCalls, ReadTimesOut, ReadPacket, ReadEof, ReadFails,
         Tick, SendsNothing, SendNull, SendPacket, SendRefused, SendFails,
         ReceiveEof, ReceiveMore, ReceiveFails, ReceiveChanged, ReceiveFrame,
         ReceiveCopyFails, StashBegins, SeekBegins, ReadBegins, ReadReturns,
         SendBegins, ReceiveBegins, ReceiveSameSize, ReceiveBeginsFrame,
         EndDecode, InCall, vars, flags, Resends
<1>4. UNCHANGED m_eof \/ m_eof' = TRUE \/ m_eof' = FALSE
  BY DEF DecNext, RunBegins, RunContinues, SourceAnswers, RunDecode,
         RunReturnsStash, RunFindsBlank, RunStashCopyFails, RunSeek,
         RunSeekFails, RunSeekNotSupported, DecodeFinished, ReadSkipped,
         ReadResent, ReadCalls, ReadTimesOut, ReadPacket, ReadEof, ReadFails,
         Tick, SendsNothing, SendNull, SendPacket, SendRefused, SendFails,
         ReceiveEof, ReceiveMore, ReceiveFails, ReceiveChanged, ReceiveFrame,
         ReceiveCopyFails, StashBegins, SeekBegins, ReadBegins, ReadReturns,
         SendBegins, ReceiveBegins, ReceiveSameSize, ReceiveBeginsFrame,
         EndDecode, InCall, vars, flags, EofAfterSeek
<1>5. UNCHANGED m_res_change \/ m_res_change' = TRUE \/ m_res_change' = FALSE
  BY DEF DecNext, RunBegins, RunContinues, SourceAnswers, RunDecode,
         RunReturnsStash, RunFindsBlank, RunStashCopyFails, RunSeek,
         RunSeekFails, RunSeekNotSupported, DecodeFinished, ReadSkipped,
         ReadResent, ReadCalls, ReadTimesOut, ReadPacket, ReadEof, ReadFails,
         Tick, SendsNothing, SendNull, SendPacket, SendRefused, SendFails,
         ReceiveEof, ReceiveMore, ReceiveFails, ReceiveChanged, ReceiveFrame,
         ReceiveCopyFails, StashBegins, SeekBegins, ReadBegins, ReadReturns,
         SendBegins, ReceiveBegins, ReceiveSameSize, ReceiveBeginsFrame,
         EndDecode, InCall, vars, ResChangeInSeek
<1>6. UNCHANGED timedOut \/ timedOut' = TRUE
  BY DEF DecNext, RunBegins, RunContinues, SourceAnswers, RunDecode,
         RunReturnsStash, RunFindsBlank, RunStashCopyFails, RunSeek,
         RunSeekFails, RunSeekNotSupported, DecodeFinished, ReadSkipped,
         ReadResent, ReadCalls, ReadTimesOut, ReadPacket, ReadEof, ReadFails,
         Tick, SendsNothing, SendNull, SendPacket, SendRefused, SendFails,
         ReceiveEof, ReceiveMore, ReceiveFails, ReceiveChanged, ReceiveFrame,
         ReceiveCopyFails, StashBegins, SeekBegins, ReadBegins, ReadReturns,
         SendBegins, ReceiveBegins, ReceiveSameSize, ReceiveBeginsFrame,
         EndDecode, InCall, vars, clock
<1> QED BY <1>t, <1>1, <1>2, <1>3, <1>4, <1>5, <1>6, Zenon DEF FlagTypes

LEMMA CallTypesStep == ASSUME DecTypeOK, [DecNext]_vars PROVE CallTypes'
<1>t. CallTypes /\ FrameTypes' /\ DecTypeOK
  BY TypeParts, FrameTypesStep
<1> DEFINE Status == {"none", "SUCCESS", "FAIL", "THROW"}
           Info == {"none", "SUCCESS", "FAIL", "END_OF_STREAM", "RES_CHANGE", "NOT_SUPPORTED"}
           Finished == \E status \in Status, info \in Info : Finish(status, info)
           SeekEnds == pc' = "idle" /\ UNCHANGED delivered
                       /\ \E status \in Status, info \in Info :
                            ret' = [status |-> status, info |-> info]
<1>1. ASSUME NEW info \in Info, Return("SUCCESS", info)
      PROVE  Finished \/ (pc' = "read" /\ UNCHANGED <<ret, delivered>>)
  BY <1>1, SuccessReturns, Zenon
<1>2. ASSUME NEW info \in Info, Return("FAIL", info) PROVE SeekEnds
  BY <1>2, FailReturns
<1>3. \/ Finished \/ SeekEnds
      \/ /\ pc' \in {"idle", "read", "reading", "send", "receive"} /\ UNCHANGED ret
         /\ UNCHANGED delivered \/ delivered' = <<>>
  <2> HIDE DEF Finished, SeekEnds
  <2>1. ASSUME NEW status \in Status, NEW info \in Info, Finish(status, info) PROVE Finished
    BY <2>1 DEF Finished
  <2>2. CASE RunReturnsStash \/ RunFindsBlank \/ RunStashCopyFails
    <3>1. CASE RunReturnsStash
      BY <2>1, <3>1 DEF RunReturnsStash
    <3>2. CASE RunFindsBlank
      BY <2>1, <3>2 DEF RunFindsBlank, BlankCopyStatus
    <3>3. CASE RunStashCopyFails
      BY <2>1, <3>3 DEF RunStashCopyFails
    <3> QED BY <2>2, <3>1, <3>2, <3>3
  <2>3. CASE \E t \in 0 .. NumFrames - 1 : RunSeek(t)
    BY <2>3 DEF RunSeek
  <2>4. CASE \E t \in 0 .. NumFrames - 1 : RunSeekFails(t) \/ RunSeekNotSupported(t)
    BY <2>4 DEF RunSeekFails, RunSeekNotSupported, SeekEnds
  <2>5. CASE \E info \in {"FAIL", "END_OF_STREAM"} : EndDecode(info)
    BY <1>2, <2>5 DEF EndDecode
  <2>6. CASE DecodeFinished
    BY <1>2, <2>6 DEF DecodeFinished
  <2>7. CASE ReceiveChanged
    BY <1>1, <2>7 DEF ReceiveChanged
  <2>8. ASSUME NEW f \in Frame, ReceiveFrame(f)
        PROVE  Finished \/ (pc' = "read" /\ UNCHANGED <<ret, delivered>>)
    BY <1>1, <2>8 DEF ReceiveFrame
  <2>9. CASE UNCHANGED vars
    BY <1>t, <2>9 DEF vars, CallTypes
  <2>10. CASE UNCHANGED <<ret, delivered>> /\ pc' \in {pc, "read", "reading", "send", "receive"}
    BY <1>t, <2>10 DEF CallTypes
  <2>11. ASSUME [DecNext]_vars
         PROVE  \/ RunReturnsStash \/ RunFindsBlank \/ RunStashCopyFails
                \/ \E t \in 0 .. NumFrames - 1 : RunSeek(t)
                \/ \E t \in 0 .. NumFrames - 1 : RunSeekFails(t) \/ RunSeekNotSupported(t)
                \/ \E info \in {"FAIL", "END_OF_STREAM"} : EndDecode(info)
                \/ DecodeFinished \/ ReceiveChanged \/ \E f \in Frame : ReceiveFrame(f)
                \/ UNCHANGED vars
                \/ UNCHANGED <<ret, delivered>> /\ pc' \in {pc, "read", "reading", "send", "receive"}
    BY <2>11
       DEF DecNext, RunBegins, RunContinues, SourceAnswers, RunDecode,
           ReadSkipped, ReadResent, ReadCalls, ReadTimesOut, ReadPacket,
           ReadEof, ReadFails, Tick, SendsNothing, SendNull, SendPacket,
           SendRefused, SendFails, ReceiveEof, ReceiveMore, ReceiveFails,
           ReceiveCopyFails, ReadBegins, ReadReturns, SendBegins, ReceiveBegins
  <2> QED BY <2>2, <2>3, <2>4, <2>5, <2>6, <2>7, <2>8, <2>9, <2>10, <2>11
<1>4. UNCHANGED target \/ target' = NoSeek \/ \E t \in 0 .. NumFrames - 1 : target' = Timestamp(t)
  BY DEF DecNext, RunBegins, RunContinues, SourceAnswers, RunDecode,
         RunReturnsStash, RunFindsBlank, RunStashCopyFails, RunSeek,
         RunSeekFails, RunSeekNotSupported, DecodeFinished, ReadSkipped,
         ReadResent, ReadCalls, ReadTimesOut, ReadPacket, ReadEof, ReadFails,
         Tick, SendsNothing, SendNull, SendPacket, SendRefused, SendFails,
         ReceiveEof, ReceiveMore, ReceiveFails, ReceiveChanged, ReceiveFrame,
         ReceiveCopyFails, StashBegins, SeekBegins, ReadBegins, ReadReturns,
         SendBegins, ReceiveBegins, ReceiveSameSize, ReceiveBeginsFrame,
         EndDecode, InCall, vars
<1>5. target' \in Int
  BY <1>t, <1>4, NumFramesNat, DecodeAssumption DEF CallTypes, NoSeek, Timestamp
<1>6. <<>> \in Seq(Frame \cup {NoFrame})
  BY EmptySeq
<1>7. Append(delivered, dst'.frame) \in Seq(Frame \cup {NoFrame})
  BY <1>t, AppendProperties DEF CallTypes, FrameTypes
<1>8. /\ pc' \in {"idle", "read", "reading", "send", "receive"}
      /\ ret' \in [status : Status, info : Info]
      /\ delivered' \in Seq(Frame \cup {NoFrame})
  <2>1. ret \in [status : Status, info : Info] /\ delivered \in Seq(Frame \cup {NoFrame})
    BY <1>t DEF CallTypes
  <2>2. CASE Finished
    BY <1>7, <2>1, <2>2 DEF Finish
  <2>3. CASE SeekEnds
    BY <2>1, <2>3
  <2> QED BY <1>3, <1>6, <2>1, <2>2, <2>3
<1> QED BY <1>5, <1>8 DEF CallTypes

LEMMA CountTypesStep == ASSUME DecTypeOK, Clocked, [DecNext]_vars PROVE CountTypes'
<1>t. CountTypes /\ m_timeout \in Nat
  BY TypeParts, TimeoutNat
<1> USE DEF CountTypes
<1>1. UNCHANGED seeks \/ (seeks < MaxSeeks /\ seeks' = seeks + 1)
  BY DEF DecNext, RunBegins, RunContinues, SourceAnswers, RunDecode,
         RunReturnsStash, RunFindsBlank, RunStashCopyFails, RunSeek,
         RunSeekFails, RunSeekNotSupported, DecodeFinished, ReadSkipped,
         ReadResent, ReadCalls, ReadTimesOut, ReadPacket, ReadEof, ReadFails,
         Tick, SendsNothing, SendNull, SendPacket, SendRefused, SendFails,
         ReceiveEof, ReceiveMore, ReceiveFails, ReceiveChanged, ReceiveFrame,
         ReceiveCopyFails, StashBegins, SeekBegins, ReadBegins, ReadReturns,
         SendBegins, ReceiveBegins, ReceiveSameSize, ReceiveBeginsFrame,
         EndDecode, InCall, vars, bounds
<1>2. UNCHANGED failures \/ LibraryFails
  BY DEF DecNext, RunBegins, RunContinues, SourceAnswers, RunDecode,
         RunReturnsStash, RunFindsBlank, RunStashCopyFails, RunSeek,
         RunSeekFails, RunSeekNotSupported, DecodeFinished, ReadSkipped,
         ReadResent, ReadCalls, ReadTimesOut, ReadPacket, ReadEof, ReadFails,
         Tick, SendsNothing, SendNull, SendPacket, SendRefused, SendFails,
         ReceiveEof, ReceiveMore, ReceiveFails, ReceiveChanged, ReceiveFrame,
         ReceiveCopyFails, StashBegins, SeekBegins, ReadBegins, ReadReturns,
         SendBegins, ReceiveBegins, ReceiveSameSize, ReceiveBeginsFrame,
         EndDecode, InCall, vars, bounds
<1>3. /\ UNCHANGED elapsed \/ elapsed' = 0 \/ (elapsed <= m_timeout /\ elapsed' = elapsed + 1)
      /\ UNCHANGED silence \/ silence' = 0
         \/ (elapsed = silence /\ elapsed <= m_timeout /\ silence' = silence + 1)
  BY DEF DecNext, RunBegins, RunContinues, SourceAnswers, RunDecode,
         RunReturnsStash, RunFindsBlank, RunStashCopyFails, RunSeek,
         RunSeekFails, RunSeekNotSupported, DecodeFinished, ReadSkipped,
         ReadResent, ReadCalls, ReadTimesOut, ReadPacket, ReadEof, ReadFails,
         Tick, SendsNothing, SendNull, SendPacket, SendRefused, SendFails,
         ReceiveEof, ReceiveMore, ReceiveFails, ReceiveChanged, ReceiveFrame,
         ReceiveCopyFails, StashBegins, SeekBegins, ReadBegins, ReadReturns,
         SendBegins, ReceiveBegins, ReceiveSameSize, ReceiveBeginsFrame,
         EndDecode, InCall, vars, clock, Reset, ResetBeforeRead, TimePasses,
         Clocked
<1> QED BY <1>t, <1>1, <1>2, <1>3, DecodeAssumption DEF LibraryFails

LEMMA DecTypeStep == ASSUME DecTypeOK, Clocked, PacketKept, [DecNext]_vars PROVE DecTypeOK'
<1>1. (PacketTypes /\ FrameTypes /\ FlagTypes /\ CallTypes /\ CountTypes)'
  BY PacketTypesStep, FrameTypesStep, FlagTypesStep, CallTypesStep, CountTypesStep
<1> QED BY <1>1 DEF DecTypeOK, PacketTypes, FrameTypes, FlagTypes, CallTypes, CountTypes

-----------------------------------------------------------------------------
(***************************************************************************)
(* Sizes.  Without a seek a call ends with the first frame, so the token   *)
(* made for the size reported meets the frame of that size, or is spared.  *)
(***************************************************************************)
LEMMA SizesStep == ASSUME SizesAgree, Controlled, DecTypeOK, [DecNext]_vars PROVE SizesAgree'
<1> SUFFICES ASSUME seeks' = 0, ~EarlySize PROVE SizesAgree'
  BY DEF SizesAgree
<1>s. seeks = 0
  <2>1. UNCHANGED seeks \/ SeekBegins
    BY DEF DecNext, RunBegins, RunContinues, SourceAnswers, RunDecode,
         RunReturnsStash, RunFindsBlank, RunStashCopyFails, RunSeek,
         RunSeekFails, RunSeekNotSupported, DecodeFinished, ReadSkipped,
         ReadResent, ReadCalls, ReadTimesOut, ReadPacket, ReadEof, ReadFails,
         Tick, SendsNothing, SendNull, SendPacket, SendRefused, SendFails,
         ReceiveEof, ReceiveMore, ReceiveFails, ReceiveChanged, ReceiveFrame,
         ReceiveCopyFails, StashBegins, SeekBegins, ReadBegins, ReadReturns,
         SendBegins, ReceiveBegins, ReceiveSameSize, ReceiveBeginsFrame,
         EndDecode, InCall, vars, bounds
  <2> QED BY <2>1, Counted
<1>t. /\ m_frame.id # NoFrame => codec.size = PacketSize(PacketOf(m_frame.id))
      /\ pc # "idle" => dst.size = codec.size
      /\ pc = "receive" => m_last = codec.size
      /\ dst.frame # NoFrame => dst.size = PacketSize(PacketOf(dst.frame))
  BY <1>s DEF SizesAgree, DstHoldsItsSize
<1>r. Reported = codec.size /\ target = NoSeek
  BY <1>s, <1>t DEF Reported, Controlled
<1>d. dst \in [size : Size, frame : Frame \cup {NoFrame}] /\ m_frame \in [id : Frame \cup {NoFrame}, pts : Int]
  BY DEF DecTypeOK
<1>c. ReceiveBeginsFrame =>
        m_frame'.id = Head(codec.held) /\ codec'.size = PacketSize(PacketOf(m_frame'.id))
  BY ReceivedFrame, CodecFields
<1>e. ASSUME NEW info, Return("SUCCESS", info) PROVE pc' = "idle"
  BY <1>r, <1>e, SuccessReturns DEF Finish
<1> USE DEF SizesAgree, DstHoldsItsSize, flags, saved, clock, bounds
<1>1. CASE UNCHANGED vars
  BY <1>s, <1>t, <1>r, <1>d, <1>1 DEF vars
<1>2. CASE RunDecode
  BY <1>s, <1>t, <1>r, <1>d, <1>2
     DEF RunDecode, NewDst
<1>3. CASE RunReturnsStash
  BY <1>s, <1>t, <1>r, <1>d, <1>3
     DEF RunReturnsStash, StashBegins, Finish, NewDst
<1>4. CASE RunFindsBlank
  BY <1>s, <1>t, <1>r, <1>d, <1>4
     DEF RunFindsBlank, StashBegins, Finish, NewDst, BlankCopyStatus
<1>5. CASE RunStashCopyFails
  BY <1>s, <1>t, <1>r, <1>d, Counted, <1>5
     DEF RunStashCopyFails, StashBegins, Finish, NewDst, LibraryFails
<1>6. ASSUME NEW t \in 0 .. NumFrames - 1, RunSeek(t) PROVE SizesAgree'
  BY <1>s, <1>t, <1>r, <1>d, Counted, <1>6
     DEF RunSeek, SeekBegins, ResChangeInSeek, EofAfterSeek, Reset, NewDst,
         OpenedCodec
<1>7. ASSUME NEW t \in 0 .. NumFrames - 1, RunSeekFails(t) PROVE SizesAgree'
  BY <1>s, <1>t, <1>r, <1>d, Counted, <1>7
     DEF RunSeekFails, SeekBegins, ResChangeInSeek, LibraryFails, Reset,
         NewDst, OpenedCodec
<1>8. ASSUME NEW t \in 0 .. NumFrames - 1, RunSeekNotSupported(t) PROVE SizesAgree'
  BY <1>s, <1>t, <1>r, <1>d, Counted, <1>8
     DEF RunSeekNotSupported, SeekBegins, ResChangeInSeek, NewDst
<1>9. CASE DecodeFinished
  BY <1>s, <1>t, <1>r, <1>d, FailReturns, <1>9
     DEF DecodeFinished, InCall
<1>10. CASE ReadSkipped
  BY <1>s, <1>t, <1>r, <1>d, <1>10
     DEF ReadSkipped, ReadBegins, ReadsNothing, InCall
<1>11. CASE ReadResent
  BY <1>s, <1>t, <1>r, <1>d, <1>11
     DEF ReadResent, ReadBegins, ReadsNothing, InCall
<1>12. CASE ReadCalls
  BY <1>s, <1>t, <1>r, <1>d, <1>12
     DEF ReadCalls, ReadBegins, ReadsNothing, ResetBeforeRead, Reset, InCall
<1>13. CASE ReadTimesOut
  BY <1>s, <1>t, <1>r, <1>d, FailReturns, <1>13
     DEF ReadTimesOut, ReadReturns, EndDecode, InCall
<1>14. CASE ReadPacket
  BY <1>s, <1>t, <1>r, <1>d, <1>14
     DEF ReadPacket, ReadReturns, InCall
<1>15. CASE ReadEof
  BY <1>s, <1>t, <1>r, <1>d, <1>15
     DEF ReadEof, ReadReturns, InCall
<1>16. CASE ReadFails
  BY <1>s, <1>t, <1>r, <1>d, FailReturns, Counted, <1>16
     DEF ReadFails, ReadReturns, LibraryFails, EndDecode, InCall
<1>17. CASE Tick
  BY <1>s, <1>t, <1>r, <1>d, <1>17
     DEF Tick, TimePasses
<1>18. CASE SendsNothing
  BY <1>s, <1>t, <1>r, <1>d, <1>18
     DEF SendsNothing, SendBegins, InCall
<1>19. CASE SendNull
  BY <1>s, <1>t, <1>r, <1>d, <1>19
     DEF SendNull, SendBegins, InCall
<1>20. CASE SendPacket
  <2>1. codec'.size = codec.size
    BY <1>20, CodecFields DEF SendPacket
  <2> QED BY <1>t, <1>r, <1>20, <2>1 DEF SendPacket, SendBegins, InCall
<1>21. CASE SendRefused
  BY <1>s, <1>t, <1>r, <1>d, <1>21
     DEF SendRefused, SendBegins, InCall
<1>22. CASE SendFails
  BY <1>s, <1>t, <1>r, <1>d, FailReturns, Counted, <1>22
     DEF SendFails, SendBegins, LibraryFails, EndDecode, InCall
<1>23. CASE ReceiveEof
  BY <1>s, <1>t, <1>r, <1>d, FailReturns, <1>23
     DEF ReceiveEof, ReceiveBegins, EndDecode, InCall, Blank
<1>24. CASE ReceiveMore
  BY <1>s, <1>t, <1>r, <1>d, <1>24
     DEF ReceiveMore, ReceiveBegins, InCall, Blank
<1>25. CASE ReceiveFails
  BY <1>s, <1>t, <1>r, <1>d, FailReturns, Counted, <1>25
     DEF ReceiveFails, ReceiveBegins, LibraryFails, EndDecode, InCall, Blank
<1>26. CASE ReceiveChanged
  <2>1. pc' = "idle" /\ UNCHANGED dst
    BY <1>e, <1>26 DEF ReceiveChanged
  <2> QED BY <1>t, <1>c, <1>26, <2>1 DEF ReceiveChanged
<1>27. ASSUME NEW f \in Frame, ReceiveFrame(f) PROVE SizesAgree'
  <2>1. pc' = "idle"
    BY <1>e, <1>27 DEF ReceiveFrame
  <2>2. /\ f = Head(codec.held) /\ pc = "receive" /\ m_last = PacketSize(PacketOf(f))
        /\ dst' = [dst EXCEPT !.frame = f]
    BY <1>27 DEF ReceiveFrame, ReceiveSameSize, ReceiveBeginsFrame, ReceiveBegins, SizeChanged,
                CopyFrame
  <2>3. dst'.frame = f /\ dst'.size = dst.size
    BY <1>d, <2>2
  <2> QED BY <1>t, <1>c, <1>27, <2>1, <2>2, <2>3 DEF ReceiveFrame, ReceiveSameSize
<1>28. ASSUME NEW f \in Frame, ReceiveCopyFails(f) PROVE SizesAgree'
  <2>1. pc' = "idle" /\ UNCHANGED dst
    BY <1>28, FailReturns DEF ReceiveCopyFails, EndDecode
  <2> QED BY <1>t, <1>c, <1>28, <2>1 DEF ReceiveCopyFails, ReceiveSameSize
<1> QED BY <1>1, <1>2, <1>3, <1>4, <1>5, <1>6, <1>7, <1>8, <1>9, <1>10, <1>11,
           <1>12, <1>13, <1>14, <1>15, <1>16, <1>17, <1>18, <1>19, <1>20,
           <1>21, <1>22, <1>23, <1>24, <1>25, <1>26, <1>27, <1>28
       DEF DecNext, RunBegins, RunContinues, SourceAnswers

-----------------------------------------------------------------------------
(***************************************************************************)
(* The packets on their way to the codec.                                  *)
(***************************************************************************)
\* What never goes back.
LEMMA Monotone ==
  ASSUME DecTypeOK, [DecNext]_vars
  PROVE  /\ m_end_decode => m_end_decode'
         /\ timedOut => timedOut'
         /\ seeks' = 0 => seeks = 0
         /\ failures' = 0 => failures = 0
<1>1. UNCHANGED m_end_decode \/ m_end_decode' = TRUE
  BY DEF DecNext, RunBegins, RunContinues, SourceAnswers, RunDecode,
         RunReturnsStash, RunFindsBlank, RunStashCopyFails, RunSeek,
         RunSeekFails, RunSeekNotSupported, DecodeFinished, ReadSkipped,
         ReadResent, ReadCalls, ReadTimesOut, ReadPacket, ReadEof, ReadFails,
         Tick, SendsNothing, SendNull, SendPacket, SendRefused, SendFails,
         ReceiveEof, ReceiveMore, ReceiveFails, ReceiveChanged, ReceiveFrame,
         ReceiveCopyFails, StashBegins, SeekBegins, ReadBegins, ReadReturns,
         SendBegins, ReceiveBegins, ReceiveSameSize, ReceiveBeginsFrame,
         EndDecode, InCall, vars, flags
<1>2. UNCHANGED timedOut \/ timedOut' = TRUE
  BY DEF DecNext, RunBegins, RunContinues, SourceAnswers, RunDecode,
         RunReturnsStash, RunFindsBlank, RunStashCopyFails, RunSeek,
         RunSeekFails, RunSeekNotSupported, DecodeFinished, ReadSkipped,
         ReadResent, ReadCalls, ReadTimesOut, ReadPacket, ReadEof, ReadFails,
         Tick, SendsNothing, SendNull, SendPacket, SendRefused, SendFails,
         ReceiveEof, ReceiveMore, ReceiveFails, ReceiveChanged, ReceiveFrame,
         ReceiveCopyFails, StashBegins, SeekBegins, ReadBegins, ReadReturns,
         SendBegins, ReceiveBegins, ReceiveSameSize, ReceiveBeginsFrame,
         EndDecode, InCall, vars, clock
<1>3. UNCHANGED seeks \/ SeekBegins
  BY DEF DecNext, RunBegins, RunContinues, SourceAnswers, RunDecode,
         RunReturnsStash, RunFindsBlank, RunStashCopyFails, RunSeek,
         RunSeekFails, RunSeekNotSupported, DecodeFinished, ReadSkipped,
         ReadResent, ReadCalls, ReadTimesOut, ReadPacket, ReadEof, ReadFails,
         Tick, SendsNothing, SendNull, SendPacket, SendRefused, SendFails,
         ReceiveEof, ReceiveMore, ReceiveFails, ReceiveChanged, ReceiveFrame,
         ReceiveCopyFails, StashBegins, SeekBegins, ReadBegins, ReadReturns,
         SendBegins, ReceiveBegins, ReceiveSameSize, ReceiveBeginsFrame,
         EndDecode, InCall, vars, bounds
<1>4. UNCHANGED failures \/ LibraryFails
  BY DEF DecNext, RunBegins, RunContinues, SourceAnswers, RunDecode,
         RunReturnsStash, RunFindsBlank, RunStashCopyFails, RunSeek,
         RunSeekFails, RunSeekNotSupported, DecodeFinished, ReadSkipped,
         ReadResent, ReadCalls, ReadTimesOut, ReadPacket, ReadEof, ReadFails,
         Tick, SendsNothing, SendNull, SendPacket, SendRefused, SendFails,
         ReceiveEof, ReceiveMore, ReceiveFails, ReceiveChanged, ReceiveFrame,
         ReceiveCopyFails, StashBegins, SeekBegins, ReadBegins, ReadReturns,
         SendBegins, ReceiveBegins, ReceiveSameSize, ReceiveBeginsFrame,
         EndDecode, InCall, vars, bounds
<1> QED BY <1>1, <1>2, <1>3, <1>4, Counted

\* While the decoding goes on in order, it did so before.
LEMMA Underway ==
  ASSUME DecInv, [DecNext]_vars, Orderly', ~m_end_decode'
  PROVE  /\ Orderly /\ ~m_end_decode
         /\ PacketsFlow /\ PlainFlow /\ FramesFlow
         /\ DecTypeOK /\ Controlled /\ PacketKept
BY Monotone DEF DecInv, Flows, Orderly, PlainFile

LEMMA TakenType ==
  ASSUME DecTypeOK
  PROVE  /\ Sent \in Int /\ Taken \in Int /\ Len(codec.held) \in Nat
         /\ codec.held \in Seq(Frame) /\ FramesPerPacket \in Nat \ {0}
<1>1. position \in Nat /\ FramesPerPacket \in Nat \ {0} /\ codec.held \in Seq(Frame)
  BY DecodeAssumption DEF DecTypeOK
<1>2. Len(codec.held) \in Nat
  BY <1>1, LenProperties
<1>3. Sent \in Int
  BY <1>1 DEF Sent
<1>4. \A a \in Int, k \in Nat, n \in Nat : a * k - n \in Int
  OBVIOUS
<1> QED BY <1>1, <1>2, <1>3, <1>4 DEF Taken

LEMMA TakenSame ==
  ASSUME UNCHANGED <<position, m_pkt>>, codec'.held = codec.held
  PROVE  Sent' = Sent /\ Taken' = Taken
BY DEF Sent, Taken

LEMMA OnePacketMore ==
  ASSUME NEW a \in Int, NEW k \in Nat PROVE (a + 1) * k = a * k + k
OBVIOUS

\* A packet adds its frames at the end, or, dropped, is skipped.
LEMMA Sending ==
  ASSUME DecTypeOK, PacketKept, PacketsFlow, SendPacket
  PROVE  /\ Sent' = Sent + 1 /\ Sent + 1 = m_pkt /\ codec'.needKey = Dropped
         /\ Dropped => codec'.held = <<>> /\ Taken' = Taken + FramesPerPacket
         /\ ~Dropped => /\ Taken' = Taken
                        /\ Len(codec'.held) = Len(codec.held) + FramesPerPacket
                        /\ \A i \in 1 .. Len(codec'.held) : codec'.held[i] = Taken + i
<1>1. /\ m_pkt # 0 /\ m_pkt = position /\ m_pkt' = 0 /\ position' = position
      /\ m_pkt \in 1 .. NumPackets /\ position \in Nat
  <2>1. m_pkt # 0
    BY DEF SendPacket, SendBegins, PacketKept
  <2> QED BY <2>1, DecodeAssumption DEF SendPacket, SendBegins, PacketsFlow, DecTypeOK
<1>2. Sent = position - 1 /\ Sent' = position
  BY <1>1 DEF Sent
<1>3. Sent' = Sent + 1 /\ Sent + 1 = m_pkt /\ Sent \in Int
  BY <1>1, <1>2
<1>4. codec'.needKey = Dropped
      /\ codec'.held = IF Dropped THEN codec.held ELSE codec.held \o FramesOf(m_pkt)
  BY CodecFields DEF SendPacket
<1>5. Sent' * FramesPerPacket = Sent * FramesPerPacket + FramesPerPacket
  BY <1>3, TakenType, OnePacketMore
<1> DEFINE before == Sent * FramesPerPacket
<1>6. before \in Int
  BY <1>3, TakenType
<1>7. ASSUME Dropped PROVE codec'.held = <<>> /\ Taken' = Taken + FramesPerPacket
  <2>1. codec.held = <<>> /\ codec'.held = codec.held
    BY <1>4, <1>7 DEF PacketKept, Dropped
  <2>2. Taken' = Sent' * FramesPerPacket - Len(codec.held) /\ Taken = before - Len(codec.held)
    BY <2>1 DEF Taken
  <2> HIDE DEF before
  <2>3. Taken' = (before + FramesPerPacket) - Len(codec.held)
    BY <2>2, <1>5 DEF before
  <2> QED BY <1>6, <2>1, <2>2, <2>3, TakenType
<1>8. ASSUME ~Dropped
      PROVE  /\ Taken' = Taken
             /\ Len(codec'.held) = Len(codec.held) + FramesPerPacket
             /\ \A i \in 1 .. Len(codec'.held) : codec'.held[i] = Taken + i
  <2>1. codec'.held = codec.held \o FramesOf(m_pkt)
    BY <1>4, <1>8
  <2>2. /\ FramesOf(m_pkt) \in Seq(Frame) /\ Len(FramesOf(m_pkt)) = FramesPerPacket
        /\ codec.held \in Seq(Frame)
    BY <1>1, FramesOfType, TakenType
  <2>3. /\ Len(codec'.held) = Len(codec.held) + FramesPerPacket
        /\ \A i \in 1 .. Len(codec.held) + FramesPerPacket :
             codec'.held[i] = IF i <= Len(codec.held) THEN codec.held[i]
                              ELSE FramesOf(m_pkt)[i - Len(codec.held)]
    <3> DEFINE new == FramesOf(m_pkt)
    <3>1. new \in Seq(Frame) /\ Len(new) = FramesPerPacket /\ codec'.held = codec.held \o new
      BY <2>1, <2>2
    <3> HIDE DEF new
    <3>2. /\ Len(codec.held \o new) = Len(codec.held) + Len(new)
          /\ \A i \in 1 .. Len(codec.held) + Len(new) :
               (codec.held \o new)[i] = IF i <= Len(codec.held) THEN codec.held[i]
                                        ELSE new[i - Len(codec.held)]
      BY <2>2, <3>1, ConcatProperties
    <3> QED BY <3>1, <3>2, Zenon DEF new
  <2>4. Taken' = Sent' * FramesPerPacket - Len(codec'.held) /\ Taken = before - Len(codec.held)
    BY DEF Taken
  <2>5. \A i \in 1 .. FramesPerPacket : FramesOf(m_pkt)[i] = before + i
    BY <1>3 DEF FramesOf
  <2> HIDE DEF before
  <2>6. Taken' = (before + FramesPerPacket) - (Len(codec.held) + FramesPerPacket)
    BY <2>3, <2>4, <1>5 DEF before
  <2>7. Taken' = Taken
    BY <1>6, <2>4, <2>6, TakenType
  <2>8. ASSUME NEW i \in 1 .. Len(codec'.held) PROVE codec'.held[i] = Taken + i
    <3>1. Len(codec.held) \in Nat /\ FramesPerPacket \in Nat /\ i \in 1 .. Len(codec.held) + FramesPerPacket
      BY <2>3, TakenType
    <3>2. CASE i <= Len(codec.held)
      BY <3>1, <3>2, <2>3 DEF PacketsFlow
    <3>3. CASE ~(i <= Len(codec.held))
      <4>1. i - Len(codec.held) \in 1 .. FramesPerPacket
        BY <3>1, <3>3
      <4>2. codec'.held[i] = before + (i - Len(codec.held))
        BY <3>1, <3>3, <4>1, <2>3, <2>5
      <4> QED BY <1>6, <2>4, <3>1, <4>2
    <3> QED BY <3>2, <3>3
  <2> QED BY <2>3, <2>7, <2>8
<1> QED BY <1>3, <1>4, <1>7, <1>8

\* The frame received is the next one.
LEMMA Receiving ==
  ASSUME DecTypeOK, PacketKept, PacketsFlow, ReceiveBeginsFrame
  PROVE  /\ Head(codec.held) = Taken + 1 /\ m_frame'.id = Taken + 1
         /\ Taken' = Taken + 1 /\ Sent' = Sent
         /\ ~codec.needKey /\ ~codec'.needKey
         /\ \A i \in 1 .. Len(codec'.held) : codec'.held[i] = Taken' + i
<1>1. codec.held # <<>> /\ UNCHANGED <<position, m_pkt>>
  BY DEF ReceiveBeginsFrame, ReceiveBegins
<1>2. /\ codec'.held = Tail(codec.held) /\ codec'.needKey = codec.needKey
      /\ m_frame'.id = Head(codec.held)
  BY CodecFields, ReceivedFrame
<1>3. ~codec.needKey
  BY <1>1 DEF PacketKept
<1>4. /\ Len(codec'.held) = Len(codec.held) - 1 /\ codec.held \in Seq(Frame)
      /\ \A i \in 1 .. Len(codec'.held) : codec'.held[i] = codec.held[i + 1]
      /\ Len(codec.held) \in Nat \ {0} /\ Head(codec.held) = codec.held[1]
  BY <1>1, <1>2, TakenType, HeadTailProperties, EmptySeq
<1>5. Sent' = Sent
  BY <1>1 DEF Sent
<1>6. Taken' = Sent * FramesPerPacket - (Len(codec.held) - 1)
      /\ Taken = Sent * FramesPerPacket - Len(codec.held) /\ Sent * FramesPerPacket \in Int
  BY <1>4, <1>5, TakenType DEF Taken
<1>7. Taken' = Taken + 1 /\ Taken \in Int
  BY <1>4, <1>6
<1>8. \A i \in 1 .. Len(codec.held) : codec.held[i] = Taken + i
  BY DEF PacketsFlow
<1>9. Head(codec.held) = Taken + 1
  BY <1>4, <1>8
<1>10. ASSUME NEW i \in 1 .. Len(codec'.held) PROVE codec'.held[i] = Taken' + i
  <2>1. i \in Nat /\ i + 1 \in 1 .. Len(codec.held)
    BY <1>4
  <2> QED BY <1>4, <1>7, <1>8, <2>1
<1> QED BY <1>2, <1>3, <1>5, <1>7, <1>9, <1>10

LEMMA PacketsFlowStep ==
  ASSUME DecInv, [DecNext]_vars, Orderly', ~m_end_decode' PROVE PacketsFlow'
<1>t. /\ Orderly /\ PacketsFlow /\ PlainFlow /\ DecTypeOK /\ PacketKept
      /\ codec \in [held : Seq(Frame), draining : BOOLEAN, needKey : BOOLEAN, size : Size]
  BY Underway DEF DecTypeOK
<1>1. CASE UNCHANGED <<position, m_pkt>> /\ codec'.held = codec.held
  BY <1>t, <1>1, TakenSame DEF PacketsFlow
<1>2. ASSUME NEW t \in 0 .. NumFrames - 1, RunSeek(t) PROVE PacketsFlow'
  <2>1. PlainFile /\ pc = "idle" /\ UNCHANGED m_pkt
    BY <1>t, <1>2, Counted DEF RunSeek, SeekBegins, Orderly, PlainFile
  <2>2. m_pkt = 0
    BY <1>t, <2>1, Monotone DEF PlainFlow, PacketKept
  <2>3. codec'.held = <<>>
    BY <1>2 DEF RunSeek, OpenedCodec
  <2> QED BY <2>1, <2>2, <2>3, EmptySeq DEF PacketsFlow
<1>3. ASSUME NEW t \in 0 .. NumFrames - 1, RunSeekFails(t) PROVE PacketsFlow'
  <2>1. codec'.held = <<>> /\ UNCHANGED <<position, m_pkt>>
    BY <1>3 DEF RunSeekFails, SeekBegins, OpenedCodec
  <2> QED BY <1>t, <2>1, EmptySeq DEF PacketsFlow
<1>4. CASE ReadPacket
  <2>1. /\ m_pkt = 0 /\ m_pkt' = position + 1 /\ position' = position + 1
        /\ UNCHANGED codec /\ position \in Nat
    BY <1>t, <1>4, DecodeAssumption, Monotone DEF ReadPacket, ReadReturns, PacketKept, DecTypeOK
  <2>2. Sent = position /\ Sent' = position
    BY <2>1 DEF Sent
  <2>3. Taken' = Taken
    BY <2>1, <2>2 DEF Taken
  <2> QED BY <1>t, <2>1, <2>3 DEF PacketsFlow
<1>5. CASE SendNull
  <2>1. UNCHANGED <<position, m_pkt>> /\ codec'.held = codec.held
    BY <1>t, <1>5 DEF SendNull, SendBegins
  <2> QED BY <1>1, <2>1
<1>6. CASE SendPacket
  <2>1. m_pkt' = 0
    BY <1>6 DEF SendPacket
  <2>2. \A i \in 1 .. Len(codec'.held) : codec'.held[i] = Taken' + i
    BY <1>t, <1>6, Sending, EmptySeq
  <2> QED BY <2>1, <2>2 DEF PacketsFlow
<1>7. CASE ReceiveBeginsFrame
  <2>1. UNCHANGED <<position, m_pkt>>
    BY <1>7 DEF ReceiveBeginsFrame, ReceiveBegins
  <2> QED BY <1>t, <1>7, <2>1, Receiving DEF PacketsFlow
<1> QED BY <1>1, <1>2, <1>3, <1>4, <1>5, <1>6, <1>7
       DEF DecNext, RunBegins, RunContinues, SourceAnswers, RunDecode,
           RunReturnsStash, RunFindsBlank, RunStashCopyFails, RunSeek,
           RunSeekFails, RunSeekNotSupported, DecodeFinished, ReadSkipped,
           ReadResent, ReadCalls, ReadTimesOut, ReadPacket, ReadEof, ReadFails,
           Tick, SendsNothing, SendNull, SendPacket, SendRefused, SendFails,
           ReceiveEof, ReceiveMore, ReceiveFails, ReceiveChanged, ReceiveFrame,
           ReceiveCopyFails, StashBegins, SeekBegins, ReadBegins, ReadReturns,
           SendBegins, ReceiveBegins, ReceiveSameSize, ReceiveBeginsFrame,
           EndDecode, InCall, vars

\* In a plain file every size is the first.
LEMMA PlainSizes ==
  ASSUME PlainFile
  PROVE  /\ \A f \in Frame : PacketSize(PacketOf(f)) = "first"
         /\ \A p \in 0 .. NumPackets : PacketSize(p) = "first"
         /\ DecTypeOK /\ codec.size = "first" => Reported = "first"
<1>1. FramesPerPacket = 1 /\ ChangeAt > NumPackets /\ ChangeAt \in Nat /\ NumPackets \in Nat
  BY DecodeAssumption DEF PlainFile
<1>2. \A p \in 0 .. NumPackets : PacketSize(p) = "first"
  BY <1>1 DEF PacketSize
<1>3. ASSUME NEW f \in Frame PROVE PacketSize(PacketOf(f)) = "first"
  <2>1. NumFrames = NumPackets
    BY <1>1 DEF NumFrames
  <2>2. f \in 1 .. NumPackets
    BY <2>1 DEF Frame
  <2>3. \A n \in Int : (n - 1) \div 1 = n - 1
    OBVIOUS
  <2>4. PacketOf(f) = (f - 1) + 1
    BY <1>1, <2>2, <2>3 DEF PacketOf
  <2>5. PacketOf(f) \in 0 .. NumPackets
    BY <1>1, <2>2, <2>4
  <2> QED BY <1>2, <2>5
<1>4. ASSUME DecTypeOK, codec.size = "first" PROVE Reported = "first"
  BY <1>3, <1>4 DEF Reported, DecTypeOK
<1> QED BY <1>2, <1>3, <1>4

LEMMA PlainFlowStep ==
  ASSUME DecInv, [DecNext]_vars, Orderly', ~m_end_decode' PROVE PlainFlow'
<1> SUFFICES ASSUME PlainFile PROVE PlainFlow'
  BY DEF PlainFlow, PlainFile
<1>p. FramesPerPacket = 1 /\ Capacity \in Nat \ {0}
  BY DecodeAssumption DEF PlainFile
<1>t. /\ DecTypeOK /\ PacketKept /\ PacketsFlow /\ Len(codec.held) \in Nat
      /\ codec \in [held : Seq(Frame), draining : BOOLEAN, needKey : BOOLEAN, size : Size]
  BY Underway, TakenType DEF DecTypeOK
<1>f. /\ ~m_flush /\ Len(codec.held) <= Capacity /\ (pc # "receive" => Len(codec.held) < Capacity)
      /\ codec.size = "first" /\ (pc = "receive" => m_last = "first")
      /\ pc = "idle" => ~m_res_change
  BY Underway DEF PlainFlow, Idle
<1>r. Reported = "first"
  BY <1>t, <1>f, PlainSizes
<1>o. /\ OpenedCodec.held = <<>> /\ OpenedCodec.size = "first" /\ Len(OpenedCodec.held) < Capacity
      /\ Len(OpenedCodec.held) <= Capacity
  <2>1. PacketSize(1) = "first"
    BY PlainSizes, DecodeAssumption
  <2> QED BY <1>p, <2>1, EmptySeq DEF OpenedCodec
<1>c. ReceiveBeginsFrame =>
        /\ codec'.size = "first" /\ Len(codec'.held) < Capacity /\ Len(codec'.held) <= Capacity
        /\ ~SizeChanged(Head(codec.held)) /\ UNCHANGED m_flush
  <2> SUFFICES ASSUME ReceiveBeginsFrame
               PROVE  /\ codec'.size = "first"
                      /\ Len(codec'.held) < Capacity /\ Len(codec'.held) <= Capacity
                      /\ ~SizeChanged(Head(codec.held)) /\ UNCHANGED m_flush
    OBVIOUS
  <2>1. /\ Head(codec.held) \in Frame /\ Len(codec'.held) = Len(codec.held) - 1
        /\ codec'.size = IF EarlySize THEN codec.size ELSE PacketSize(PacketOf(Head(codec.held)))
    BY <1>t, ReceivedFrame, CodecFields
  <2>2. Len(codec'.held) < Capacity /\ Len(codec'.held) <= Capacity
    BY <1>p, <1>t, <1>f, <2>1
  <2>3. PacketSize(PacketOf(Head(codec.held))) = "first"
    BY <2>1, PlainSizes
  <2> QED BY <1>f, <2>1, <2>2, <2>3 DEF SizeChanged, ReceiveBeginsFrame, ReceiveBegins
<1>e. m_end_decode' => m_end_decode
  BY Underway
<1> USE DEF PlainFlow, Idle, flags, saved, clock, bounds
<1>1. CASE UNCHANGED vars
  BY <1>f, <1>r, <1>1 DEF vars
<1>2. CASE RunDecode
  BY <1>f, <1>r, <1>2
     DEF RunDecode, NewDst
<1>3. CASE RunReturnsStash
  BY <1>f, <1>r, <1>3
     DEF RunReturnsStash, StashBegins, Finish, NewDst
<1>4. CASE RunFindsBlank
  BY <1>f, <1>r, <1>4
     DEF RunFindsBlank, StashBegins, Finish, NewDst, BlankCopyStatus
<1>5. CASE RunStashCopyFails
  BY <1>f, <1>r, Counted, <1>5
     DEF RunStashCopyFails, StashBegins, Finish, NewDst, LibraryFails
<1>6. ASSUME NEW t \in 0 .. NumFrames - 1, RunSeek(t) PROVE PlainFlow'
  BY <1>f, <1>o, <1>6 DEF RunSeek, SeekBegins
<1>7. ASSUME NEW t \in 0 .. NumFrames - 1, RunSeekFails(t) PROVE PlainFlow'
  BY <1>f, <1>o, <1>7 DEF RunSeekFails, SeekBegins, ResChangeInSeek
<1>8. ASSUME NEW t \in 0 .. NumFrames - 1, RunSeekNotSupported(t) PROVE PlainFlow'
  BY <1>f, <1>r, Counted, <1>8
     DEF RunSeekNotSupported, SeekBegins, ResChangeInSeek, NewDst
<1>9. CASE DecodeFinished
  BY <1>9, Underway DEF DecodeFinished
<1>10. CASE ReadSkipped
  BY <1>f, <1>r, <1>10
     DEF ReadSkipped, ReadBegins, ReadsNothing, InCall
<1>11. CASE ReadResent
  BY <1>f, <1>r, <1>11
     DEF ReadResent, ReadBegins, ReadsNothing, InCall
<1>12. CASE ReadCalls
  BY <1>f, <1>r, <1>12
     DEF ReadCalls, ReadBegins, ReadsNothing, ResetBeforeRead, Reset, InCall
<1>13. CASE ReadTimesOut
  BY <1>13 DEF ReadTimesOut, EndDecode
<1>14. CASE ReadPacket
  BY <1>f, <1>r, <1>14
     DEF ReadPacket, ReadReturns, InCall
<1>15. CASE ReadEof
  BY <1>f, <1>r, <1>15
     DEF ReadEof, ReadReturns, InCall
<1>16. CASE ReadFails
  BY <1>16 DEF ReadFails, EndDecode
<1>17. CASE Tick
  BY <1>f, <1>r, <1>17
     DEF Tick, TimePasses
<1>18. CASE SendsNothing
  BY <1>f, <1>r, <1>18
     DEF SendsNothing, SendBegins, InCall
<1>19. CASE SendNull
  BY <1>f, <1>r, <1>19
     DEF SendNull, SendBegins, InCall
<1>20. CASE SendPacket
  <2>1. /\ codec'.size = IF EarlySize /\ ~Dropped THEN PacketSize(m_pkt) ELSE codec.size
        /\ m_pkt \in 0 .. NumPackets
    BY <1>t, <1>20, CodecFields DEF SendPacket, DecTypeOK
  <2>2. codec'.size = "first"
    BY <1>f, <2>1, PlainSizes
  <2>3. Len(codec'.held) <= Capacity
    <3>1. pc # "receive"
      BY <1>20 DEF SendPacket, SendBegins
    <3>2. CASE Dropped
      BY <1>p, <1>t, <1>20, <3>2, Sending, EmptySeq
    <3>3. CASE ~Dropped
      BY <1>p, <1>t, <1>f, <1>20, <3>1, <3>3, Sending
    <3> QED BY <3>2, <3>3
  <2> QED BY <1>f, <1>r, <1>20, <2>2, <2>3 DEF SendPacket, SendBegins
<1>21. CASE SendRefused
  BY <1>p, <1>t, <1>f, <1>21 DEF SendRefused, SendBegins, Full
<1>22. CASE SendFails
  BY <1>22 DEF SendFails, EndDecode
<1>23. CASE ReceiveEof
  BY <1>23 DEF ReceiveEof, EndDecode
<1>24. CASE ReceiveMore
  BY <1>p, <1>t, <1>f, <1>24 DEF ReceiveMore, ReceiveBegins, Full
<1>25. CASE ReceiveFails
  BY <1>25 DEF ReceiveFails, EndDecode
<1>26. CASE ReceiveChanged
  BY <1>c, <1>26 DEF ReceiveChanged
<1>27. ASSUME NEW f \in Frame, ReceiveFrame(f) PROVE PlainFlow'
  <2>1. /\ pc' \in {"idle", "read"} /\ m_res_change' = FALSE
    BY <1>27, AfterSuccess DEF ReceiveFrame, ReceiveSameSize
  <2> QED BY <1>f, <1>c, <1>27, <2>1 DEF ReceiveFrame, ReceiveSameSize
<1>28. ASSUME NEW f \in Frame, ReceiveCopyFails(f) PROVE PlainFlow'
  BY <1>28 DEF ReceiveCopyFails, EndDecode
<1> QED BY <1>1, <1>2, <1>3, <1>4, <1>5, <1>6, <1>7, <1>8, <1>9, <1>10, <1>11,
           <1>12, <1>13, <1>14, <1>15, <1>16, <1>17, <1>18, <1>19, <1>20,
           <1>21, <1>22, <1>23, <1>24, <1>25, <1>26, <1>27, <1>28
       DEF DecNext, RunBegins, RunContinues, SourceAnswers

-----------------------------------------------------------------------------
(***************************************************************************)
(* The frames on their way to the caller.                                  *)
(***************************************************************************)
LEMMA LastOfAppend ==
  ASSUME NEW s \in Seq(Frame \cup {NoFrame}), NEW x \in Frame \cup {NoFrame}
  PROVE  /\ Append(s, x) # <<>> /\ LastOf(Append(s, x)) = x
         /\ Len(Append(s, x)) = Len(s) + 1
<1>1. /\ Append(s, x) \in Seq(Frame \cup {NoFrame}) /\ Len(Append(s, x)) = Len(s) + 1
      /\ Append(s, x)[Len(s) + 1] = x /\ Len(s) \in Nat
  BY AppendProperties, LenProperties
<1>2. Append(s, x) # <<>>
  BY <1>1, EmptySeq
<1> QED BY <1>1, <1>2 DEF LastOf

LEMMA DeliveredTypes ==
  ASSUME DecTypeOK
  PROVE  /\ delivered \in Seq(Frame \cup {NoFrame}) /\ Len(delivered) \in Nat /\ Last \in Nat
         /\ delivered = <<>> => Last = 0 /\ Len(delivered) = 0
         /\ delivered # <<>> => Last = delivered[Len(delivered)] /\ Len(delivered) \in Nat \ {0}
<1>1. delivered \in Seq(Frame \cup {NoFrame}) /\ Len(delivered) \in Nat
  BY LenProperties DEF DecTypeOK
<1>2. \A f \in Frame \cup {NoFrame} : f \in Nat
  BY NumFramesNat DEF Frame, NoFrame
<1>3. CASE delivered = <<>>
  BY <1>1, <1>3, EmptySeq DEF Last, LastOf
<1>4. CASE delivered # <<>>
  <2>1. Len(delivered) \in Nat \ {0}
    BY <1>1, <1>4, EmptySeq
  <2>2. Len(delivered) \in 1 .. Len(delivered)
    BY <2>1
  <2>3. delivered[Len(delivered)] \in Frame \cup {NoFrame}
    BY <1>1, <2>2, ElementOfSeq
  <2> QED BY <1>1, <1>2, <1>4, <2>1, <2>3 DEF Last, LastOf
<1> QED BY <1>3, <1>4

\* A step that neither delivers nor takes a frame.
LEMMA SameFrames ==
  ASSUME DecInv, [DecNext]_vars, FramesFlow,
         UNCHANGED delivered, Taken' = Taken, Sent' = Sent, codec'.needKey = codec.needKey,
         Kept' = Kept, Kept => m_frame'.id = m_frame.id,
         target' # NoSeek /\ ~Idle' => target # NoSeek /\ ~Idle
  PROVE  FramesFlow'
<1>1. (seeks' = 0 => seeks = 0) /\ (failures' = 0 => failures = 0)
  BY Monotone DEF DecInv
<1>2. Last' = Last /\ Given' = Given
  BY DEF Last, Given
<1> QED BY <1>1, <1>2 DEF FramesFlow

LEMMA FramesFlowStep ==
  ASSUME DecInv, [DecNext]_vars, Orderly', ~m_end_decode' PROVE FramesFlow'
<1>u. /\ Orderly /\ ~m_end_decode /\ DecTypeOK /\ Controlled /\ PacketKept
      /\ PacketsFlow /\ PlainFlow /\ FramesFlow
  BY Underway
<1>n. /\ Last \in Nat /\ Len(delivered) \in Nat /\ Taken \in Int /\ Sent \in Int
      /\ Len(delivered) <= Last /\ Last <= Taken
  BY <1>u, DeliveredTypes, TakenType DEF FramesFlow
<1>k. codec \in [held : Seq(Frame), draining : BOOLEAN, needKey : BOOLEAN, size : Size]
  BY <1>u DEF DecTypeOK
\* A frame after the last one is appended.
<1>a. ASSUME NEW x \in Frame, dst'.frame = x, Finish("SUCCESS", "SUCCESS"),
             Len(delivered) <= Last, Last < x
      PROVE  /\ delivered' = Append(delivered, x) /\ delivered' # <<>> /\ pc' = "idle"
             /\ Last' = x /\ Len(delivered') = Len(delivered) + 1
  <2>1. x <= NumFrames /\ NumFrames \in Nat /\ x \in Nat
    BY NumFramesNat DEF Frame
  <2>2. Len(delivered) <= NumFrames
    BY <1>n, <1>a, <2>1
  <2>3. delivered' = Append(delivered, x) /\ pc' = "idle"
    BY <1>a, <2>2 DEF Finish
  <2> QED BY <1>u, <2>3, DeliveredTypes, LastOfAppend DEF Last
<1>s. (seeks' # 0 => PlainFile) /\ (PlainFile => ~Kept)
  BY <1>u DEF Orderly, PlainFile, PlainFlow, Kept
<1> USE DEF flags, saved, clock, bounds
<1>1. CASE UNCHANGED vars
  <2>1. UNCHANGED <<position, m_pkt, codec, delivered>>
    BY <1>1 DEF flags, saved, clock, bounds, vars
  <2>2. Kept' = Kept /\ (Kept => m_frame'.id = m_frame.id)
    BY <1>1 DEF flags, saved, clock, bounds, vars, Kept, Idle
  <2>3. target' # NoSeek /\ ~Idle' => target # NoSeek /\ ~Idle
    BY <1>1 DEF flags, saved, clock, bounds, vars, Idle
  <2> QED BY <1>u, <2>1, <2>2, <2>3, TakenSame, SameFrames
<1>2. CASE RunDecode
  <2>1. UNCHANGED <<position, m_pkt, codec, delivered>>
    BY <1>2 DEF RunDecode
  <2>2. Kept' = Kept /\ (Kept => m_frame'.id = m_frame.id)
    BY <1>2 DEF RunDecode, Kept, Idle
  <2>3. target' # NoSeek /\ ~Idle' => target # NoSeek /\ ~Idle
    BY <1>2 DEF RunDecode, Idle
  <2> QED BY <1>u, <2>1, <2>2, <2>3, TakenSame, SameFrames
<1>3. CASE RunReturnsStash
  <2>1. /\ Kept /\ m_frame.id \in Frame /\ Last < m_frame.id /\ m_frame.id <= Taken
        /\ UNCHANGED <<position, m_pkt, codec, seeks, failures>>
    BY <1>u, <1>3 DEF RunReturnsStash, StashBegins, Kept, Idle, FramesFlow, DecTypeOK, bounds
  <2>2. dst'.frame = m_frame.id
    BY <1>3 DEF RunReturnsStash, NewDst
  <2>3. Finish("SUCCESS", "SUCCESS") /\ ~m_res_change'
    BY <1>3 DEF RunReturnsStash, StashBegins
  <2>4. /\ delivered' # <<>> /\ pc' = "idle" /\ Last' = m_frame.id
        /\ Len(delivered') = Len(delivered) + 1
    BY <1>n, <1>a, <2>1, <2>2, <2>3
  <2>5. ~Kept' /\ Sent' = Sent /\ Taken' = Taken
    BY <2>1, <2>3, TakenSame DEF Kept
  <2>6. Len(delivered') <= Last'
    <3>1. m_frame.id \in Nat
      BY <2>1, NumFramesNat DEF Frame
    <3> QED BY <1>n, <2>1, <2>4, <3>1
  <2>7. ASSUME failures = 0
        PROVE  Last' = Taken' /\ ~codec'.needKey /\ (seeks = 0 => Len(delivered') = Taken')
    <3>1. /\ m_frame.id = Taken /\ ~codec.needKey
          /\ seeks = 0 => Len(delivered) = Taken - 1
      BY <1>u, <2>1, <2>7 DEF FramesFlow, Given
    <3> QED BY <1>n, <2>1, <2>4, <2>5, <3>1
  <2> QED BY <2>1, <2>4, <2>5, <2>6, <2>7 DEF FramesFlow, Idle, Given
<1>4. CASE RunFindsBlank
  <2>1. Kept /\ m_frame.id = NoFrame
    BY <1>4 DEF RunFindsBlank, StashBegins, Kept, Idle
  <2>2. Last < 0
    BY <1>u, <2>1 DEF FramesFlow, NoFrame
  <2> QED BY <1>n, <2>2
<1>5. CASE RunStashCopyFails
  <2>1. /\ UNCHANGED <<position, m_pkt, codec, delivered>> /\ ~Kept'
        /\ failures' # 0 /\ Idle'
    BY <1>u, <1>5, Counted DEF RunStashCopyFails, StashBegins, Finish, Kept, Idle
  <2>2. Taken' = Taken /\ Last' = Last
    BY <2>1, TakenSame DEF Last
  <2> QED BY <1>n, <2>1, <2>2 DEF FramesFlow
<1>6. ASSUME NEW t \in 0 .. NumFrames - 1, RunSeek(t) PROVE FramesFlow'
  <2>1. /\ delivered' = <<>> /\ codec'.held = <<>> /\ position' = KeyBefore(t) - 1
        /\ pc = "idle" /\ pc' = "read" /\ UNCHANGED m_pkt
    BY <1>6 DEF RunSeek, SeekBegins, OpenedCodec
  <2>2. seeks' # 0 /\ PlainFile
    BY <1>u, <1>s, <1>6, Counted DEF RunSeek
  <2>3. m_pkt = 0
    BY <1>u, <2>1, <2>2 DEF PlainFlow, PacketKept
  <2>4. KeyBefore(t) \in Nat \ {0}
    <3>1. t \in Nat
      BY NumFramesNat
    <3>2. KeyBefore(t) \in 1 .. NumPackets
      BY <3>1, KeyBeforeIsKey, DecodeAssumption
    <3> QED BY <3>2, DecodeAssumption
  <2>5. Taken' \in Nat
    BY <2>1, <2>2, <2>3, <2>4, EmptySeq DEF Taken, Sent, PlainFile
  <2>6. ~Kept' /\ Last' = 0 /\ Len(delivered') = 0
    BY <2>1, EmptySeq DEF Kept, Idle, Last, LastOf
  <2> QED BY <2>1, <2>2, <2>5, <2>6 DEF FramesFlow
<1>7. ASSUME NEW t \in 0 .. NumFrames - 1, RunSeekFails(t) PROVE FramesFlow'
  <2>1. /\ UNCHANGED <<position, m_pkt, delivered>> /\ codec'.held = <<>>
        /\ pc = "idle" /\ pc' = "idle" /\ failures' # 0 /\ UNCHANGED m_res_change
    BY <1>u, <1>7, Counted DEF RunSeekFails, SeekBegins, OpenedCodec, ResChangeInSeek
  <2>2. ~Kept'
    BY <1>s, <1>u, <1>7, <2>1, Counted DEF RunSeekFails, Kept, Idle
  <2>3. Sent' = Sent /\ Taken' = Taken + Len(codec.held)
    <3>1. Sent' = Sent /\ Len(codec'.held) = 0
      BY <2>1, EmptySeq DEF Sent
    <3>2. \A p, n \in Int : p - 0 = (p - n) + n
      OBVIOUS
    <3>3. Sent * FramesPerPacket \in Int /\ Len(codec.held) \in Int
      BY <1>u, <1>n, TakenType
    <3> QED BY <3>1, <3>2, <3>3 DEF Taken
  <2>4. Last' = Last /\ Last <= Taken'
    BY <1>u, <1>n, <2>1, <2>3, TakenType DEF Last
  <2> QED BY <1>n, <2>1, <2>2, <2>4 DEF FramesFlow, Idle
<1>8. ASSUME NEW t \in 0 .. NumFrames - 1, RunSeekNotSupported(t) PROVE FramesFlow'
  <2>1. UNCHANGED <<position, m_pkt, codec, delivered>>
    BY <1>8 DEF RunSeekNotSupported, SeekBegins, ResChangeInSeek
  <2>2. Kept' = Kept /\ (Kept => m_frame'.id = m_frame.id)
    BY <1>8 DEF RunSeekNotSupported, SeekBegins, ResChangeInSeek, Kept, Idle
  <2>3. target' # NoSeek /\ ~Idle' => target # NoSeek /\ ~Idle
    BY <1>8 DEF RunSeekNotSupported, SeekBegins, ResChangeInSeek, Idle
  <2> QED BY <1>u, <2>1, <2>2, <2>3, TakenSame, SameFrames
<1>9. CASE DecodeFinished
  BY <1>u, <1>9 DEF DecodeFinished
<1>10. CASE ReadSkipped
  <2>1. UNCHANGED <<position, m_pkt, codec, delivered>>
    BY <1>10 DEF ReadSkipped, ReadBegins, InCall
  <2>2. Kept' = Kept /\ (Kept => m_frame'.id = m_frame.id)
    BY <1>10 DEF ReadSkipped, ReadBegins, InCall, Kept, Idle
  <2>3. target' # NoSeek /\ ~Idle' => target # NoSeek /\ ~Idle
    BY <1>10 DEF ReadSkipped, ReadBegins, InCall, Idle
  <2> QED BY <1>u, <2>1, <2>2, <2>3, TakenSame, SameFrames
<1>11. CASE ReadResent
  <2>1. UNCHANGED <<position, m_pkt, codec, delivered>>
    BY <1>11 DEF ReadResent, ReadBegins, InCall
  <2>2. Kept' = Kept /\ (Kept => m_frame'.id = m_frame.id)
    BY <1>11 DEF ReadResent, ReadBegins, InCall, Kept, Idle
  <2>3. target' # NoSeek /\ ~Idle' => target # NoSeek /\ ~Idle
    BY <1>11 DEF ReadResent, ReadBegins, InCall, Idle
  <2> QED BY <1>u, <2>1, <2>2, <2>3, TakenSame, SameFrames
<1>12. CASE ReadCalls
  <2>1. UNCHANGED <<position, m_pkt, codec, delivered>>
    BY <1>12 DEF ReadCalls, ReadBegins, InCall
  <2>2. Kept' = Kept /\ (Kept => m_frame'.id = m_frame.id)
    BY <1>12 DEF ReadCalls, ReadBegins, InCall, Kept, Idle
  <2>3. target' # NoSeek /\ ~Idle' => target # NoSeek /\ ~Idle
    BY <1>12 DEF ReadCalls, ReadBegins, InCall, Idle
  <2> QED BY <1>u, <2>1, <2>2, <2>3, TakenSame, SameFrames
<1>13. CASE ReadTimesOut
  BY <1>13 DEF ReadTimesOut, EndDecode
<1>14. CASE ReadPacket
  <2>1. /\ m_pkt = 0 /\ m_pkt' = position + 1 /\ position' = position + 1
        /\ UNCHANGED <<codec, delivered, target>> /\ position \in Nat /\ ~Idle /\ ~Idle'
    BY <1>u, <1>14, DecodeAssumption DEF ReadPacket, ReadReturns, InCall, PacketKept, DecTypeOK, Idle
  <2>2. Sent = position /\ Sent' = position
    BY <2>1 DEF Sent
  <2>3. Taken' = Taken /\ Sent' = Sent
    BY <2>1, <2>2 DEF Taken
  <2> QED BY <1>u, <2>1, <2>3, SameFrames DEF Kept
<1>15. CASE ReadEof
  <2>1. UNCHANGED <<position, m_pkt, codec, delivered>>
    BY <1>15 DEF ReadEof, ReadReturns, InCall
  <2>2. Kept' = Kept /\ (Kept => m_frame'.id = m_frame.id)
    BY <1>15 DEF ReadEof, ReadReturns, InCall, Kept, Idle
  <2>3. target' # NoSeek /\ ~Idle' => target # NoSeek /\ ~Idle
    BY <1>15 DEF ReadEof, ReadReturns, InCall, Idle
  <2> QED BY <1>u, <2>1, <2>2, <2>3, TakenSame, SameFrames
<1>16. CASE ReadFails
  BY <1>16 DEF ReadFails, EndDecode
<1>17. CASE Tick
  <2>1. UNCHANGED <<position, m_pkt, codec, delivered>>
    BY <1>17 DEF Tick
  <2>2. Kept' = Kept /\ (Kept => m_frame'.id = m_frame.id)
    BY <1>17 DEF Tick, Kept, Idle
  <2>3. target' # NoSeek /\ ~Idle' => target # NoSeek /\ ~Idle
    BY <1>17 DEF Tick, Idle
  <2> QED BY <1>u, <2>1, <2>2, <2>3, TakenSame, SameFrames
<1>18. CASE SendsNothing
  <2>1. UNCHANGED <<position, m_pkt, codec, delivered>>
    BY <1>18 DEF SendsNothing, SendBegins, InCall
  <2>2. Kept' = Kept /\ (Kept => m_frame'.id = m_frame.id)
    BY <1>18 DEF SendsNothing, SendBegins, InCall, Kept, Idle
  <2>3. target' # NoSeek /\ ~Idle' => target # NoSeek /\ ~Idle
    BY <1>18 DEF SendsNothing, SendBegins, InCall, Idle
  <2> QED BY <1>u, <2>1, <2>2, <2>3, TakenSame, SameFrames
<1>19. CASE SendNull
  <2>1. /\ UNCHANGED <<position, m_pkt, delivered, target>> /\ ~Idle /\ ~Idle'
        /\ codec'.held = codec.held /\ codec'.needKey = codec.needKey
    BY <1>k, <1>19 DEF SendNull, SendBegins, InCall, Idle
  <2> QED BY <1>u, <2>1, TakenSame, SameFrames DEF Kept
<1>20. CASE SendPacket
  <2>1. /\ UNCHANGED <<delivered, target, failures, seeks>> /\ ~Idle /\ ~Idle'
        /\ ~Kept /\ ~Kept' /\ Last' = Last
    BY <1>20 DEF SendPacket, SendBegins, InCall, Idle, Kept, Last
  <2>2. /\ Sent' = Sent + 1 /\ Sent + 1 = m_pkt /\ codec'.needKey = Dropped
        /\ Dropped => Taken' = Taken + FramesPerPacket
        /\ ~Dropped => Taken' = Taken
    BY <1>u, <1>20, Sending
  <2>3. Last' <= Taken' /\ Len(delivered') <= Last'
    BY <1>u, <1>n, <2>1, <2>2, TakenType
  <2>4. ASSUME failures = 0
        PROVE  /\ delivered # <<>> => ~Dropped /\ Last = Taken
               /\ seeks = 0 => ~Dropped /\ Len(delivered) = Taken
    <3>1. /\ delivered # <<>> => Last = Taken /\ ~codec.needKey
          /\ seeks = 0 => Len(delivered) = Taken /\ (codec.needKey => Sent = 0)
      BY <1>u, <2>1, <2>4 DEF FramesFlow, Given
    <3>2. Sent = 0 => m_pkt \in KeyPackets
      BY <2>2, DecodeAssumption
    <3> QED BY <3>1, <3>2 DEF Dropped
  <2>5. ASSUME failures' = 0
        PROVE  /\ delivered' # <<>> => Last' = Given' /\ ~codec'.needKey
               /\ seeks' = 0 => Len(delivered') = Given' /\ (codec'.needKey => Sent' = 0)
    BY <2>1, <2>2, <2>4, <2>5 DEF Given
  <2>6. target' # NoSeek /\ ~Idle' => delivered' = <<>>
    BY <1>u, <2>1 DEF FramesFlow
  <2> QED BY <2>1, <2>3, <2>5, <2>6 DEF FramesFlow
<1>21. CASE SendRefused
  <2>1. UNCHANGED <<position, m_pkt, codec, delivered>>
    BY <1>21 DEF SendRefused, SendBegins, InCall
  <2>2. Kept' = Kept /\ (Kept => m_frame'.id = m_frame.id)
    BY <1>21 DEF SendRefused, SendBegins, InCall, Kept, Idle
  <2>3. target' # NoSeek /\ ~Idle' => target # NoSeek /\ ~Idle
    BY <1>21 DEF SendRefused, SendBegins, InCall, Idle
  <2> QED BY <1>u, <2>1, <2>2, <2>3, TakenSame, SameFrames
<1>22. CASE SendFails
  BY <1>22 DEF SendFails, EndDecode
<1>23. CASE ReceiveEof
  BY <1>23 DEF ReceiveEof, EndDecode
<1>24. CASE ReceiveMore
  <2>1. UNCHANGED <<position, m_pkt, codec, delivered, target>> /\ ~Idle /\ ~Idle'
    BY <1>24 DEF ReceiveMore, ReceiveBegins, InCall, Idle
  <2> QED BY <1>u, <2>1, TakenSame, SameFrames DEF Kept
<1>25. CASE ReceiveFails
  BY <1>25 DEF ReceiveFails, EndDecode
<1>26. CASE ReceiveChanged
  <2>1. /\ ReceiveBeginsFrame /\ SizeChanged(Head(codec.held)) /\ pc = "receive"
        /\ Return("SUCCESS", "RES_CHANGE") /\ m_res_change' /\ UNCHANGED <<seeks, failures, target>>
    BY <1>26 DEF ReceiveChanged, ReceiveBeginsFrame, ReceiveBegins, InCall
  <2>2. Head(codec.held) \in Frame
    BY <1>u, <2>1, ReceivedFrame
  <2>3. ~PlainFile
    BY <1>u, <2>1, <2>2, PlainSizes DEF PlainFlow, SizeChanged
  <2>4. seeks = 0 /\ target = NoSeek
    BY <1>u, <2>3 DEF Orderly, Controlled
  <2>5. pc' = "idle" /\ UNCHANGED delivered
    BY <2>1, <2>4, SuccessReturns DEF Finish
  <2>6. /\ m_frame'.id = Taken + 1 /\ Taken' = Taken + 1 /\ ~codec'.needKey
    BY <1>u, <2>1, Receiving
  <2>7. /\ Kept' /\ ~Kept /\ Last' = Last /\ Given' = Taken /\ Given = Taken
    BY <1>n, <2>1, <2>5, <2>6 DEF Kept, Idle, Last, Given
  <2>8. ASSUME failures = 0
        PROVE  /\ delivered # <<>> => Last = Taken
               /\ Len(delivered) = Taken
    BY <1>u, <2>4, <2>7, <2>8 DEF FramesFlow
  <2>9. /\ Len(delivered') <= Last' /\ Last' <= Taken' /\ Last' < m_frame'.id /\ m_frame'.id <= Taken'
    BY <1>n, <2>5, <2>6, <2>7
  <2> QED BY <2>1, <2>4, <2>5, <2>6, <2>7, <2>8, <2>9 DEF FramesFlow
<1>27. ASSUME NEW f \in Frame, ReceiveFrame(f) PROVE FramesFlow'
  <2>1. /\ ReceiveBeginsFrame /\ f = Head(codec.held) /\ pc = "receive"
        /\ Return("SUCCESS", "SUCCESS") /\ ~m_res_change' /\ UNCHANGED <<seeks, failures, target>>
    BY <1>27 DEF ReceiveFrame, ReceiveSameSize, ReceiveBeginsFrame, ReceiveBegins, InCall
  <2>2. /\ f = Taken + 1 /\ Taken' = Taken + 1 /\ ~codec'.needKey
    BY <1>u, <2>1, Receiving
  <2>3. dst'.frame = f
    BY <1>u, <1>27 DEF ReceiveFrame, CopyFrame, DecTypeOK
  <2>4. ~Kept /\ ~Kept' /\ Given = Taken /\ Given' = Taken'
    BY <2>1 DEF Kept, Idle, Given
  <2>5. CASE target # NoSeek /\ pc' = "read" /\ UNCHANGED delivered
    <3>1. delivered = <<>> /\ seeks # 0
      BY <1>u, <2>1, <2>5 DEF FramesFlow, Controlled, Idle
    <3>2. Last' = Last /\ Len(delivered') <= Last' /\ Last' <= Taken'
      BY <1>n, <2>2, <2>5 DEF Last
    <3> QED BY <2>1, <2>4, <2>5, <3>1, <3>2 DEF FramesFlow
  <2>6. CASE Finish("SUCCESS", "SUCCESS")
    <3>1. Last < f
      BY <1>n, <2>2
    <3>2. /\ delivered' # <<>> /\ pc' = "idle" /\ Last' = f
          /\ Len(delivered') = Len(delivered) + 1
      BY <1>a, <1>n, <2>3, <2>6, <3>1
    <3>3. /\ Len(delivered') <= Last' /\ Last' <= Taken'
      BY <1>n, <2>2, <3>2
    <3>4. ASSUME failures = 0, seeks = 0 PROVE Len(delivered') = Taken'
      <4>1. Len(delivered) = Taken
        BY <1>u, <2>4, <3>4 DEF FramesFlow
      <4> QED BY <1>n, <2>2, <3>2, <4>1
    <3> QED BY <2>1, <2>2, <2>4, <3>2, <3>3, <3>4 DEF FramesFlow, Idle
  <2> QED BY <2>1, <2>5, <2>6, SuccessReturns
<1>28. ASSUME NEW f \in Frame, ReceiveCopyFails(f) PROVE FramesFlow'
  BY <1>28 DEF ReceiveCopyFails, EndDecode
<1> QED BY <1>1, <1>2, <1>3, <1>4, <1>5, <1>6, <1>7, <1>8, <1>9, <1>10, <1>11,
           <1>12, <1>13, <1>14, <1>15, <1>16, <1>17, <1>18, <1>19, <1>20,
           <1>21, <1>22, <1>23, <1>24, <1>25, <1>26, <1>27, <1>28
       DEF DecNext, RunBegins, RunContinues, SourceAnswers

LEMMA FlowsStep == ASSUME DecInv, [DecNext]_vars PROVE Flows'
BY PacketsFlowStep, PlainFlowStep, FramesFlowStep DEF Flows

-----------------------------------------------------------------------------
(***************************************************************************)
(* The order of the frames, which outlasts the end of the decoding.        *)
(***************************************************************************)
\* The next frame in order, or after the end the last one again, keeps it.
LEMMA InOrderAppend ==
  ASSUME DecTypeOK, [DecNext]_vars, FramesInOrder, NEW x \in Frame,
         delivered' = Append(delivered, x), Last <= x,
         delivered # <<>> /\ Last = x => m_end_decode,
         NothingFailed => IF delivered # <<>> THEN x = Last + 1 ELSE seeks = 0 => x = 1
  PROVE  FramesInOrder' /\ Last' = x
<1>1. /\ delivered \in Seq(Frame \cup {NoFrame}) /\ Len(delivered) \in Nat
      /\ delivered = <<>> => Len(delivered) = 0
      /\ delivered # <<>> => Last = delivered[Len(delivered)] /\ Len(delivered) \in Nat \ {0}
  BY DeliveredTypes
<1>2. /\ Len(delivered') = Len(delivered) + 1
      /\ \A i \in 1 .. Len(delivered) : delivered'[i] = delivered[i]
      /\ delivered'[Len(delivered) + 1] = x
  BY <1>1, AppendProperties
<1>3. (m_end_decode => m_end_decode') /\ (NothingFailed' => NothingFailed)
      /\ (seeks' = 0 => seeks = 0)
  BY Monotone DEF NothingFailed
<1>4. ASSUME NEW i \in 1 .. Len(delivered') - 1
      PROVE  /\ delivered'[i] <= delivered'[i + 1]
             /\ delivered'[i] = delivered'[i + 1] => m_end_decode'
             /\ NothingFailed' => delivered'[i + 1] = delivered'[i] + 1
  <2>0. i \in 1 .. Len(delivered) /\ i \in Nat
    BY <1>1, <1>2
  <2>1. CASE i \in 1 .. Len(delivered) - 1
    <3>1. delivered'[i] = delivered[i] /\ delivered'[i + 1] = delivered[i + 1]
      BY <1>1, <1>2, <2>0, <2>1
    <3>2. /\ delivered[i] <= delivered[i + 1]
          /\ delivered[i] = delivered[i + 1] => m_end_decode
          /\ NothingFailed => delivered[i + 1] = delivered[i] + 1
      BY <2>1 DEF FramesInOrder
    <3> QED BY <1>3, <3>1, <3>2, Zenon
  <2>2. CASE i = Len(delivered)
    <3>1. delivered # <<>> /\ delivered'[i] = Last /\ delivered'[i + 1] = x
      BY <1>1, <1>2, <2>0, <2>2
    <3> QED BY <1>3, <3>1, Zenon
  <2> QED BY <1>1, <2>0, <2>1, <2>2
<1>5. ASSUME NothingFailed', seeks' = 0 PROVE delivered'[1] = 1
  <2>1. CASE delivered = <<>>
    BY <1>1, <1>2, <1>3, <1>5, <2>1
  <2>2. CASE delivered # <<>>
    <3>1. delivered[1] = 1
      BY <1>3, <1>5, <2>2 DEF FramesInOrder
    <3>2. 1 \in 1 .. Len(delivered)
      BY <1>1, <2>2
    <3> QED BY <1>2, <3>1, <3>2
  <2> QED BY <2>1, <2>2
<1>6. Last' = x
  BY <1>1, LastOfAppend DEF Last
<1> QED BY <1>4, <1>5, <1>6 DEF FramesInOrder

\* So does what delivers nothing.
LEMMA InOrderSame ==
  ASSUME DecTypeOK, [DecNext]_vars, FramesInOrder, UNCHANGED delivered
  PROVE  FramesInOrder' /\ Last' = Last
<1>1. (m_end_decode => m_end_decode') /\ (NothingFailed' => NothingFailed)
      /\ (seeks' = 0 => seeks = 0)
  BY Monotone DEF NothingFailed
<1> QED BY <1>1, Zenon DEF FramesInOrder, Last

LEMMA NeverBackStep == ASSUME DecInv, [DecNext]_vars PROVE NeverBack'
<1> SUFFICES ASSUME Orderly' PROVE FramesInOrder' /\ (m_frame'.id # NoFrame => Last' <= m_frame'.id)
  BY DEF NeverBack
<1>t. DecTypeOK /\ Controlled /\ PacketKept
  BY DEF DecInv
<1>u. /\ Orderly /\ FramesInOrder /\ (m_frame.id # NoFrame => Last <= m_frame.id)
      /\ ~m_end_decode => PacketsFlow /\ PlainFlow /\ FramesFlow
  BY <1>t, Monotone DEF Orderly, PlainFile, DecInv, NeverBack, Flows
<1>n. Last \in Nat /\ Len(delivered) \in Nat /\ Taken \in Int
  BY <1>t, DeliveredTypes, TakenType
<1>b. Blank.id = NoFrame
  BY DEF Blank
<1>m. m_frame \in [id : Frame \cup {NoFrame}, pts : Int]
  BY <1>t DEF DecTypeOK
\* A frame received comes after the last one.
<1>r. ReceiveBeginsFrame =>
        /\ m_frame'.id = Head(codec.held) /\ Head(codec.held) = Taken + 1
        /\ Head(codec.held) \in Frame /\ Last <= Taken /\ FramesFlow /\ ~Kept
  <2> SUFFICES ASSUME ReceiveBeginsFrame
               PROVE  /\ m_frame'.id = Head(codec.held) /\ Head(codec.held) = Taken + 1
                      /\ Head(codec.held) \in Frame /\ Last <= Taken /\ FramesFlow /\ ~Kept
    OBVIOUS
  <2>1. pc = "receive" /\ ~m_end_decode
    BY <1>t DEF ReceiveBeginsFrame, ReceiveBegins, Controlled
  <2>2. PacketsFlow /\ FramesFlow
    BY <1>u, <2>1
  <2> QED BY <1>t, <2>1, <2>2, Receiving, ReceivedFrame DEF FramesFlow, Kept, Idle
<1>1. CASE /\ UNCHANGED delivered
           /\ m_frame'.id \in {m_frame.id, NoFrame} \/ ReceiveBeginsFrame
  <2>1. FramesInOrder' /\ Last' = Last
    BY <1>t, <1>u, <1>1, InOrderSame
  <2>2. CASE m_frame'.id \in {m_frame.id, NoFrame}
    BY <1>u, <2>1, <2>2
  <2>3. CASE ReceiveBeginsFrame
    BY <1>n, <1>r, <2>1, <2>3
  <2> QED BY <1>1, <2>1, <2>2, <2>3
<1>2. CASE delivered' = <<>> /\ m_frame'.id = m_frame.id
  <2>1. FramesInOrder' /\ Last' = 0
    BY <1>2, EmptySeq DEF FramesInOrder, Last, LastOf
  <2>2. \A f \in Frame : 0 <= f
    BY NumFramesNat DEF Frame
  <2> QED BY <1>m, <1>2, <2>1, <2>2
<1>3. CASE RunReturnsStash
  <2>1. /\ Idle /\ Kept /\ m_frame.id \in Frame /\ m_frame.id # NoFrame
        /\ UNCHANGED m_frame /\ dst'.frame = m_frame.id /\ Finish("SUCCESS", "SUCCESS")
    BY <1>m, <1>3 DEF RunReturnsStash, StashBegins, NewDst, Idle, Kept
  <2>2. UNCHANGED delivered \/ delivered' = Append(delivered, m_frame.id)
    BY <2>1 DEF Finish
  <2>3. CASE UNCHANGED delivered
    BY <1>1, <2>1, <2>3
  <2>4. CASE delivered' = Append(delivered, m_frame.id)
    <3>1. CASE m_end_decode
      <4>1. ~NothingFailed
        BY <1>t, <2>1, <3>1 DEF Controlled, Over
      <4>2. Last <= m_frame.id /\ m_frame.id \in Nat
        BY <1>u, <2>1, NumFramesNat DEF Frame
      <4>3. FramesInOrder' /\ Last' = m_frame.id
        BY <1>t, <1>u, <2>1, <2>4, <3>1, <4>1, <4>2, InOrderAppend
      <4> QED BY <2>1, <4>2, <4>3
    <3>2. CASE ~m_end_decode
      <4>1. /\ Last < m_frame.id
            /\ NothingFailed => m_frame.id = Taken
            /\ NothingFailed /\ delivered # <<>> => Last = Taken - 1
            /\ NothingFailed /\ seeks = 0 => Len(delivered) = Taken - 1
        BY <1>u, <2>1, <3>2 DEF FramesFlow, NothingFailed, Given
      <4>2. m_frame.id \in Nat
        BY <2>1, NumFramesNat DEF Frame
      <4>3. delivered = <<>> => Len(delivered) = 0
        BY EmptySeq
      <4>4. NothingFailed => IF delivered # <<>> THEN m_frame.id = Last + 1
                             ELSE seeks = 0 => m_frame.id = 1
        BY <1>n, <4>1, <4>2, <4>3
      <4>5. Last <= m_frame.id /\ Last # m_frame.id
        BY <1>n, <4>1, <4>2
      <4>6. FramesInOrder' /\ Last' = m_frame.id
        BY <1>t, <1>u, <2>1, <2>4, <4>4, <4>5, InOrderAppend
      <4> QED BY <2>1, <4>2, <4>6
    <3> QED BY <3>1, <3>2
  <2> QED BY <2>2, <2>3, <2>4
<1>4. ASSUME NEW f \in Frame, ReceiveFrame(f)
      PROVE  FramesInOrder' /\ (m_frame'.id # NoFrame => Last' <= m_frame'.id)
  <2>1. ReceiveBeginsFrame /\ f = Head(codec.held) /\ Return("SUCCESS", "SUCCESS") /\ dst'.frame = f
    BY <1>t, <1>4 DEF ReceiveFrame, ReceiveSameSize, CopyFrame, DecTypeOK
  <2>2. UNCHANGED delivered \/ delivered' = Append(delivered, f)
    BY <2>1, SuccessReturns DEF Finish
  <2>3. CASE UNCHANGED delivered
    BY <1>1, <2>1, <2>3
  <2>4. CASE delivered' = Append(delivered, f)
    <3>1. f = Taken + 1 /\ Last <= Taken /\ FramesFlow /\ ~Kept /\ m_frame'.id = f
      BY <1>r, <2>1
    <3>2. /\ NothingFailed /\ delivered # <<>> => Last = Taken
          /\ NothingFailed /\ seeks = 0 => Len(delivered) = Taken
      BY <3>1 DEF FramesFlow, NothingFailed, Given
    <3>3. delivered = <<>> => Len(delivered) = 0
      BY EmptySeq
    <3>4. NothingFailed => IF delivered # <<>> THEN f = Last + 1 ELSE seeks = 0 => f = 1
      BY <1>n, <3>1, <3>2, <3>3
    <3>5. f \in Nat /\ Last <= f /\ Last # f
      BY <1>n, <3>1
    <3>6. FramesInOrder' /\ Last' = f
      BY <1>t, <1>u, <2>4, <3>4, <3>5, InOrderAppend
    <3> QED BY <3>1, <3>5, <3>6
  <2> QED BY <2>2, <2>3, <2>4
<1>5. CASE ReceiveChanged
  <2>1. /\ ReceiveBeginsFrame /\ SizeChanged(Head(codec.held)) /\ pc = "receive"
        /\ Return("SUCCESS", "RES_CHANGE")
    BY <1>5 DEF ReceiveChanged, ReceiveBeginsFrame, ReceiveBegins
  <2>2. ~PlainFile
    BY <1>t, <1>u, <1>r, <2>1, PlainSizes DEF PlainFlow, SizeChanged, Controlled
  <2>3. target = NoSeek
    BY <1>t, <1>u, <2>2 DEF Orderly, Controlled
  <2>4. UNCHANGED delivered
    BY <2>1, <2>3, SuccessReturns DEF Finish
  <2> QED BY <1>1, <2>1, <2>4
<1>6. ASSUME NEW info, EndDecode(info) PROVE UNCHANGED delivered
  BY <1>6, FailReturns DEF EndDecode
<1>7. ASSUME NEW f \in Frame, ReceiveCopyFails(f) PROVE UNCHANGED delivered /\ ReceiveBeginsFrame
  BY <1>6, <1>7 DEF ReceiveCopyFails, ReceiveSameSize
<1>8. CASE \E t \in 0 .. NumFrames - 1 : RunSeek(t)
  <2>1. delivered' = <<>> /\ m_frame'.id = m_frame.id
    BY <1>m, <1>8 DEF RunSeek
  <2> QED BY <1>2, <2>1
<1>9. CASE DecodeFinished
  <2>1. UNCHANGED <<delivered, m_frame>>
    BY <1>9, FailReturns DEF DecodeFinished
  <2> QED BY <1>1, <2>1
<1>10. \/ RunReturnsStash \/ ReceiveChanged \/ DecodeFinished
       \/ \E f \in Frame : ReceiveFrame(f) \/ ReceiveCopyFails(f)
       \/ \E t \in 0 .. NumFrames - 1 : RunSeek(t)
       \/ UNCHANGED delivered /\ m_frame'.id \in {m_frame.id, NoFrame}
  BY <1>6, <1>b
     DEF DecNext, RunBegins, RunContinues, SourceAnswers, RunDecode,
         RunFindsBlank, RunStashCopyFails, RunSeekFails, RunSeekNotSupported,
         ReadSkipped, ReadResent, ReadCalls, ReadTimesOut, ReadPacket, ReadEof,
         ReadFails, Tick, SendsNothing, SendNull, SendPacket, SendRefused,
         SendFails, ReceiveEof, ReceiveMore, ReceiveFails, StashBegins,
         SeekBegins, ReadBegins, ReadReturns, SendBegins, ReceiveBegins,
         Finish, vars
<1> QED BY <1>1, <1>3, <1>4, <1>5, <1>7, <1>8, <1>9, <1>10

-----------------------------------------------------------------------------
(***************************************************************************)
(* The end of the stream.                                                  *)
(***************************************************************************)
LEMMA SumIsZero == ASSUME NEW m \in Nat, NEW n \in Nat, m + n = 0 PROVE m = 0 /\ n = 0
OBVIOUS

LEMMA EndStep == ASSUME DecInv, [DecNext]_vars PROVE EndMeansAll'
<1> SUFFICES ASSUME Idle', (seeks + failures)' = 0, ret'.info = "END_OF_STREAM"
             PROVE  Len(delivered') = NumFrames
  BY DEF EndMeansAll
<1>t. DecTypeOK /\ Controlled /\ PacketKept /\ EndMeansAll /\ Flows
  BY DEF DecInv
<1>z. seeks = 0 /\ failures = 0 /\ seeks' = 0 /\ failures' = 0
  <2>1. seeks' \in Nat /\ failures' \in Nat
    BY <1>t, DecTypeStep, DecodeAssumption DEF DecTypeOK, DecInv
  <2>2. (seeks + failures)' = seeks' + failures'
    OBVIOUS
  <2>3. seeks' + failures' = 0
    BY <2>2
  <2>4. seeks' = 0 /\ failures' = 0
    BY <2>1, <2>3, SumIsZero, Zenon
  <2> QED BY <1>t, <2>4, Monotone
<1>1. CASE UNCHANGED <<pc, ret, delivered>>
  BY <1>t, <1>z, <1>1 DEF EndMeansAll, Idle
<1>2. CASE ReceiveEof
  <2>1. /\ pc = "receive" /\ codec.draining /\ codec.held = <<>> /\ UNCHANGED delivered
    BY <1>2, FailReturns DEF ReceiveEof, ReceiveBegins, EndDecode
  <2>2. PacketsFlow /\ FramesFlow /\ m_eof /\ position = NumPackets /\ ~m_flush /\ ~m_resend
    BY <1>t, <1>z, <2>1 DEF Controlled, Flows, Orderly, PacketKept
  <2>3. m_pkt = 0
    BY <1>t, <2>1, <2>2 DEF PacketKept, Controlled
  <2>4. Taken = NumFrames - 0 /\ Len(codec.held) = 0
    BY <2>1, <2>2, <2>3, EmptySeq DEF Taken, Sent, NumFrames
  <2>5. Len(delivered) = Taken
    BY <1>z, <2>1, <2>2 DEF FramesFlow, Given, Kept, Idle
  <2> QED BY <2>1, <2>4, <2>5, NumFramesNat
<1>3. ASSUME NEW status, NEW info \in {"SUCCESS", "FAIL", "RES_CHANGE"}, Finish(status, info)
      PROVE  FALSE
  BY <1>3 DEF Finish
<1>4. ASSUME EndDecode("FAIL") PROVE FALSE
  BY <1>4, FailReturns DEF EndDecode
<1>5. ASSUME DecodeFinished PROVE FALSE
  BY <1>5, FailReturns DEF DecodeFinished
<1>6. ASSUME NEW info \in {"SUCCESS", "RES_CHANGE"}, Return("SUCCESS", info) PROVE FALSE
  BY <1>6, AfterSuccess DEF Idle
<1>7. CASE LibraryFails \/ SeekBegins
  BY <1>t, <1>z, <1>7, Counted
<1> QED
  BY <1>1, <1>2, <1>3, <1>4, <1>5, <1>6, <1>7
     DEF Idle, BlankCopyStatus, DecNext, RunBegins, RunContinues,
         SourceAnswers, RunDecode, RunReturnsStash, RunFindsBlank,
         RunStashCopyFails, RunSeek, RunSeekFails, RunSeekNotSupported,
         ReadSkipped, ReadResent, ReadCalls, ReadTimesOut, ReadPacket, ReadEof,
         ReadFails, Tick, SendsNothing, SendNull, SendPacket, SendRefused,
         SendFails, ReceiveMore, ReceiveFails, ReceiveChanged, ReceiveFrame,
         ReceiveCopyFails, StashBegins, ReadBegins, ReadReturns, SendBegins,
         ReceiveBegins, vars

-----------------------------------------------------------------------------
(***************************************************************************)
(* Seeks.                                                                  *)
(***************************************************************************)
LEMMA SeekStep == ASSUME DecInv, [DecNext]_vars PROVE SeekApproaches'
<1> SUFFICES ASSUME PlainFile, target' # NoSeek, ~Idle', ~m_end_decode'
             PROVE  /\ Sought' \in 0 .. NumFrames - 1 /\ Taken' <= Sought'
                    /\ codec'.needKey => Sent' + 1 \in KeyPackets
  BY DEF SeekApproaches, PlainFile
<1>p. Orderly' /\ FramesPerPacket = 1
  BY DEF Orderly, PlainFile
<1>u. /\ ~m_end_decode /\ DecTypeOK /\ Controlled /\ PacketKept
      /\ PacketsFlow /\ PlainFlow /\ FramesFlow
  BY <1>p, Underway
<1>k. codec \in [held : Seq(Frame), draining : BOOLEAN, needKey : BOOLEAN, size : Size]
  BY <1>u DEF DecTypeOK
<1>n. /\ Taken \in Int /\ Sent \in Int /\ target \in Int /\ StartTime \in Nat
      /\ Sought \in Int
  BY <1>u, TakenType, DecodeAssumption DEF DecTypeOK, Sought
<1>s. target # NoSeek /\ ~Idle =>
        /\ Sought \in 0 .. NumFrames - 1 /\ Taken <= Sought
        /\ codec.needKey => Sent + 1 \in KeyPackets
  BY <1>u DEF SeekApproaches, DecInv
\* Nothing is taken.
<1>1. CASE /\ UNCHANGED target /\ ~Idle /\ Sent' = Sent /\ Taken' = Taken
           /\ codec'.needKey = codec.needKey
  BY <1>s, <1>1 DEF Sought
<1>2. ASSUME NEW t \in 0 .. NumFrames - 1, RunSeek(t)
      PROVE  /\ Sought' \in 0 .. NumFrames - 1 /\ Taken' <= Sought'
             /\ codec'.needKey => Sent' + 1 \in KeyPackets
  <2>1. /\ codec'.held = <<>> /\ position' = KeyBefore(t) - 1 /\ pc = "idle" /\ UNCHANGED m_pkt
        /\ target' = t + StartTime
    BY <1>2 DEF RunSeek, SeekBegins, OpenedCodec, Timestamp
  <2>2. m_pkt = 0
    BY <1>u, <2>1 DEF PlainFlow, PacketKept
  <2>3. t \in Nat /\ t \in Int
    BY NumFramesNat
  <2>4. /\ KeyBefore(t) \in KeyPackets /\ (KeyBefore(t) - 1) * 1 <= t
        /\ KeyBefore(t) \in 1 .. NumPackets
    BY <1>p, <2>3, KeyBeforeIsKey, DecodeAssumption
  <2>5. KeyBefore(t) \in Int
    BY <2>4
  <2>6. Sent' = KeyBefore(t) - 1
    BY <2>1, <2>2 DEF Sent
  <2>7. Taken' = (KeyBefore(t) - 1) * 1 - 0
    BY <1>p, <2>1, <2>6, EmptySeq DEF Taken
  <2>8. Sought' = t
    BY <1>n, <2>1, <2>3 DEF Sought
  <2>9. Sent' + 1 = KeyBefore(t) /\ Taken' <= t
    BY <2>3, <2>4, <2>5, <2>6, <2>7
  <2> QED BY <2>4, <2>8, <2>9
<1>3. CASE ReadPacket
  <2>1. /\ m_pkt = 0 /\ m_pkt' = position + 1 /\ position' = position + 1
        /\ UNCHANGED <<codec, target>> /\ position \in Nat /\ ~Idle
    BY <1>u, <1>3, DecodeAssumption DEF ReadPacket, ReadReturns, InCall, PacketKept, DecTypeOK, Idle
  <2>2. Sent = position /\ Sent' = position
    BY <2>1 DEF Sent
  <2>3. Taken' = Taken /\ Sent' = Sent
    BY <2>1, <2>2 DEF Taken
  <2> QED BY <1>1, <2>1, <2>3
<1>4. CASE SendNull
  <2>1. /\ UNCHANGED <<position, m_pkt, target>> /\ ~Idle
        /\ codec'.held = codec.held /\ codec'.needKey = codec.needKey
    BY <1>k, <1>4 DEF SendNull, SendBegins, InCall, Idle
  <2> QED BY <1>1, <2>1, TakenSame
<1>5. CASE SendPacket
  <2>1. UNCHANGED target /\ ~Idle
    BY <1>5 DEF SendPacket, SendBegins, InCall, Idle
  <2>2. /\ Sent' = Sent + 1 /\ Sent + 1 = m_pkt /\ codec'.needKey = Dropped
        /\ ~Dropped => Taken' = Taken
    BY <1>u, <1>5, Sending
  <2>3. ~Dropped
    BY <1>s, <2>1, <2>2 DEF Dropped
  <2> QED BY <1>s, <2>1, <2>2, <2>3 DEF Sought
<1>6. ASSUME ReceiveBeginsFrame, NEW info, Return("SUCCESS", info)
      PROVE  /\ Sought' \in 0 .. NumFrames - 1 /\ Taken' <= Sought'
             /\ codec'.needKey => Sent' + 1 \in KeyPackets
  <2>1. UNCHANGED target /\ ~Idle
    BY <1>6 DEF ReceiveBeginsFrame, ReceiveBegins, InCall, Idle
  <2>2. /\ Head(codec.held) = Taken + 1 /\ Taken' = Taken + 1 /\ ~codec'.needKey
        /\ m_frame'.pts = StartTime + Head(codec.held) - 1
    BY <1>u, <1>6, Receiving, ReceivedFrame DEF PtsOf
  <2>3. m_frame'.pts + StartTime < target
    BY <1>6, SuccessReturns DEF Finish, Idle
  <2>4. Taken' <= Sought
    BY <1>n, <2>2, <2>3 DEF Sought
  <2> QED BY <1>s, <2>1, <2>2, <2>4 DEF Sought
<1>7. ASSUME NEW info, EndDecode(info) PROVE FALSE
  BY <1>7 DEF EndDecode
<1>8. CASE UNCHANGED <<position, m_pkt, codec, target>> /\ (Idle => Idle')
  <2>1. ~Idle
    BY <1>8
  <2> QED BY <1>1, <1>8, <2>1, TakenSame
<1>9. ASSUME NEW status, NEW info, Finish(status, info) PROVE FALSE
  BY <1>9 DEF Finish, Idle
<1> QED
  BY <1>2, <1>3, <1>4, <1>5, <1>6, <1>7, <1>8, <1>9, <1>u
     DEF Idle, NoSeek, DecNext, RunBegins, RunContinues, SourceAnswers,
         RunDecode, RunReturnsStash, RunFindsBlank, RunStashCopyFails,
         RunSeekFails, RunSeekNotSupported, DecodeFinished, ReadSkipped,
         ReadResent, ReadCalls, ReadTimesOut, ReadEof, ReadFails, Tick,
         SendsNothing, SendRefused, SendFails, ReceiveEof, ReceiveMore,
         ReceiveFails, ReceiveChanged, ReceiveFrame, ReceiveCopyFails,
         ReadBegins, ReadReturns, SendBegins, ReceiveBegins, ReceiveSameSize,
         InCall, vars

\* A seek succeeds with the frame it is about to pass.
LEMMA ArriveStep == ASSUME DecInv, [DecNext]_vars PROVE SeekArrives'
<1> SUFFICES ASSUME PlainFile, StartTime = 0, GotFrame', target' # NoSeek, Len(delivered') = 1
             PROVE  dst'.frame # NoFrame /\ PtsOf(dst'.frame) = target'
  BY DEF SeekArrives, SeekReachesTarget, PlainFile, PtsOf
<1>p. Orderly
  BY DEF Orderly
<1>t. DecTypeOK /\ Controlled /\ PacketKept /\ Flows
  BY DEF DecInv
<1>1. CASE UNCHANGED <<pc, ret, target, dst, delivered>>
  BY <1>1 DEF DecInv, SeekArrives, SeekReachesTarget, GotFrame, Idle
<1>2. ASSUME NEW f \in Frame, ReceiveFrame(f)
      PROVE  dst'.frame # NoFrame /\ PtsOf(dst'.frame) = target'
  <2>1. /\ ReceiveBeginsFrame /\ f = Head(codec.held) /\ pc = "receive"
        /\ Return("SUCCESS", "SUCCESS") /\ UNCHANGED target /\ dst'.frame = f
    BY <1>t, <1>2 DEF ReceiveFrame, ReceiveSameSize, ReceiveBeginsFrame, ReceiveBegins, InCall,
                      CopyFrame, DecTypeOK
  <2>2. ~m_end_decode /\ PacketsFlow
    BY <1>p, <1>t, <2>1 DEF Controlled, Flows
  <2>3. /\ f = Taken + 1 /\ f # NoFrame /\ f \in Frame /\ m_frame'.pts = PtsOf(f)
    BY <1>t, <2>1, <2>2, Receiving, ReceivedFrame
  <2>4. Taken <= target - StartTime
    BY <2>1, <2>2 DEF DecInv, SeekApproaches, Idle, Sought
  <2>5. ~(m_frame'.pts + StartTime < target)
    BY <2>1, SuccessReturns DEF GotFrame, Idle
  <2>6. Taken \in Int /\ target \in Int
    BY <1>t, TakenType DEF DecTypeOK
  <2>7. PtsOf(f) = target
    BY <2>3, <2>4, <2>5, <2>6 DEF PtsOf
  <2> QED BY <2>1, <2>3, <2>7
<1>3. CASE ReceiveChanged
  <2>1. /\ ReceiveBeginsFrame /\ SizeChanged(Head(codec.held)) /\ pc = "receive"
    BY <1>3 DEF ReceiveChanged, ReceiveBeginsFrame, ReceiveBegins
  <2>2. Head(codec.held) \in Frame /\ PlainFlow
    BY <1>p, <1>t, <2>1, ReceivedFrame DEF Controlled, Flows
  <2> QED BY <2>1, <2>2, PlainSizes DEF PlainFlow, SizeChanged
<1>4. ASSUME NEW info, Return("FAIL", info) PROVE FALSE
  BY <1>4, FailReturns DEF GotFrame
<1>5. ASSUME NEW t \in 0 .. NumFrames - 1, RunSeekFails(t) \/ RunSeekNotSupported(t) PROVE FALSE
  BY <1>5 DEF RunSeekFails, RunSeekNotSupported, GotFrame
<1> QED
  BY <1>1, <1>2, <1>3, <1>4, <1>5
     DEF GotFrame, Idle, NoSeek, DecNext, RunBegins, RunContinues,
         SourceAnswers, RunDecode, RunReturnsStash, RunFindsBlank,
         RunStashCopyFails, RunSeek, DecodeFinished, ReadSkipped, ReadResent,
         ReadCalls, ReadTimesOut, ReadPacket, ReadEof, ReadFails, Tick,
         SendsNothing, SendNull, SendPacket, SendRefused, SendFails,
         ReceiveEof, ReceiveMore, ReceiveFails, ReceiveCopyFails, EndDecode,
         StashBegins, ReadBegins, ReadReturns, SendBegins, ReceiveBegins, vars

-----------------------------------------------------------------------------
(***************************************************************************)
(* The invariant holds.                                                    *)
(***************************************************************************)
LEMMA InitDecInv == DecInit => DecInv
<1> SUFFICES ASSUME DecInit PROVE DecInv
  OBVIOUS
<1>n. NumFrames \in Nat \ {0} /\ StartTime \in Nat /\ m_timeout \in Nat /\ MaxSeeks \in Nat /\ MaxFailures \in Nat
  BY NumFramesNat, TimeoutNat, DecodeAssumption
<1>1. /\ codec.held = <<>> /\ codec.draining = FALSE /\ codec.needKey = TRUE
      /\ codec.size = PacketSize(1) /\ m_frame.id = NoFrame /\ dst.frame = NoFrame
      /\ ret.status = "none" /\ ret.info = "none"
  BY DEF DecInit, OpenedCodec, Blank
<1>2. Len(<<>>) = 0 /\ <<>> \in Seq(Frame) /\ <<>> \in Seq(Frame \cup {NoFrame})
  BY EmptySeq
<1>3. DecTypeOK
  <2>1. PacketTypes
    BY <1>2, Sizes, DecodeAssumption DEF DecInit, PacketTypes, OpenedCodec
  <2>2. FrameTypes
    <3>1. NoPts \in Int
      BY <1>n DEF NoPts
    <3>2. NoFrame \in Nat /\ PacketSize(1) \in Size
      BY Sizes DEF NoFrame
    <3> QED BY <3>1, <3>2 DEF DecInit, FrameTypes, Blank
  <2>3. FlagTypes
    BY Sizes DEF DecInit, FlagTypes
  <2>4. CallTypes
    BY <1>2, Sizes DEF DecInit, CallTypes, NoSeek
  <2>5. CountTypes
    BY <1>n DEF DecInit, CountTypes
  <2> QED BY <2>1, <2>2, <2>3, <2>4, <2>5, TypeParts
<1>4. Clocked /\ Controlled /\ PacketKept
  BY <1>1 DEF DecInit, Clocked, Controlled, PacketKept, Idle
<1>5. Sent = 0 /\ Taken = 0 /\ Last = 0 /\ Len(delivered) = 0 /\ ~Kept
  <2>1. Sent = 0
    BY DEF DecInit, Sent
  <2>2. Taken = 0 * FramesPerPacket - 0
    BY <1>1, <1>2, <2>1 DEF Taken
  <2> QED BY <1>2, <2>1, <2>2, DecodeAssumption DEF DecInit, Last, LastOf, Kept
<1>6. PacketsFlow /\ FramesFlow
  BY <1>1, <1>2, <1>5 DEF DecInit, PacketsFlow, FramesFlow, Given, Idle
<1>7. PlainFlow
  BY <1>1, <1>2, DecodeAssumption DEF DecInit, PlainFlow, PlainFile, PacketSize, Idle
<1>8. NeverBack /\ EndMeansAll
  BY <1>1, <1>2 DEF DecInit, NeverBack, FramesInOrder, EndMeansAll
<1>9. SizesAgree /\ SeekApproaches /\ SeekArrives
  BY <1>1 DEF DecInit, SizesAgree, DstHoldsItsSize, SeekApproaches, SeekArrives,
              SeekReachesTarget, GotFrame, Idle
<1> QED BY <1>3, <1>4, <1>6, <1>7, <1>8, <1>9 DEF DecInv, Flows

LEMMA NextDecInv == ASSUME DecInv, [DecNext]_vars PROVE DecInv'
<1>1. DecTypeOK /\ Clocked /\ Controlled /\ PacketKept /\ SizesAgree
  BY DEF DecInv
<1>2. (DecTypeOK /\ Clocked /\ Controlled /\ PacketKept /\ SizesAgree)'
  BY <1>1, DecTypeStep, ClockStep, ControlStep, KeptPacketStep, SizesStep
<1>3. (Flows /\ NeverBack /\ EndMeansAll /\ SeekApproaches /\ SeekArrives)'
  BY FlowsStep, NeverBackStep, EndStep, SeekStep, ArriveStep
<1> QED BY <1>2, <1>3 DEF DecInv

LEMMA DecInvariant == DecSpec => []DecInv
<1>1. DecInv /\ [DecNext]_vars => DecInv'
  BY NextDecInv
<1> QED BY <1>1, InitDecInv, PTL DEF DecSpec

-----------------------------------------------------------------------------
(***************************************************************************)
(* The state keeps its types: av_read_frame never goes past the end of the *)
(* file, and the frames and packets that FfmpegDecodeFrame_Impl keeps are  *)
(* of the file.                                                            *)
(***************************************************************************)
THEOREM DecTypeCorrect == DecSpec => []DecTypeOK
<1>1. DecInv => DecTypeOK
  BY DEF DecInv
<1> QED BY <1>1, DecInvariant, PTL

(***************************************************************************)
(* DecodeSingleFrame gives up a read (TimeoutHandler::Check) only when the *)
(* source was silent for longer than the timeout during this very read,    *)
(* because Reset is called before every av_read_frame.                     *)
(***************************************************************************)
THEOREM ReadsTimeOutAfterSilence == DecSpec => TimeoutMeansSilence
<1>1. ASSUME DecInv, [DecNext]_vars, ~timedOut, timedOut' PROVE silence > m_timeout
  <2>1. ReadTimesOut
    BY <1>1 DEF DecNext, RunBegins, RunContinues, SourceAnswers, RunDecode,
         RunReturnsStash, RunFindsBlank, RunStashCopyFails, StashBegins, RunSeek,
         RunSeekFails, RunSeekNotSupported, SeekBegins, DecodeFinished, ReadSkipped,
         ReadResent, ReadCalls, ReadBegins, ReadPacket, ReadEof, ReadFails, Tick,
         SendsNothing, SendNull, SendPacket, SendRefused, SendFails, SendBegins,
         ReceiveEof, ReceiveMore, ReceiveFails, ReceiveChanged, ReceiveFrame,
         ReceiveCopyFails, ReceiveSameSize, ReceiveBeginsFrame, ReceiveBegins,
         clock, vars
  <2>2. elapsed = silence /\ elapsed > m_timeout
    BY <1>1, <2>1 DEF ReadTimesOut, ReadReturns, IsTimeout, DecInv, Clocked
  <2> QED BY <2>2
<1>2. DecInv /\ [DecNext]_vars => [~timedOut /\ timedOut' => silence > m_timeout]_vars
  BY <1>1
<1> QED BY <1>2, DecInvariant, PTL DEF DecSpec, TimeoutMeansSilence

(***************************************************************************)
(* The frames that the calls of DecodeFrame::Run return are consecutive,   *)
(* each exactly once, from one seek to the next, as long as nothing fails; *)
(* whatever fails they never go back.  A codec may refuse packets and the  *)
(* resolution may change as long as no call seeks; when calls do, the file *)
(* has one resolution and every packet makes one frame.                    *)
(***************************************************************************)
THEOREM FramesStayInOrder == DecSpec => [](seeks = 0 \/ PlainFile => FramesInOrder)
<1>1. DecInv => (seeks = 0 \/ PlainFile => FramesInOrder)
  BY DEF DecInv, NeverBack, Orderly
<1> QED BY <1>1, DecInvariant, PTL

(***************************************************************************)
(* END_OF_STREAM comes from Run only after every frame of the file did:    *)
(* the null packet that drains the codec loses none of them, nor does a    *)
(* packet the codec refused.                                               *)
(***************************************************************************)
THEOREM EndReturnsAll == DecSpec => []EndMeansAll
<1>1. DecInv => EndMeansAll
  BY DEF DecInv
<1> QED BY <1>1, DecInvariant, PTL

(***************************************************************************)
(* When Run says RES_CHANGE, m_frame holds the next frame in order, GetRes *)
(* reports its size, and the flag that makes the next Run return it is     *)
(* set, as long as no call seeks.                                          *)
(***************************************************************************)
THEOREM ChangeKeepsTheFrame == DecSpec => [](seeks = 0 => ChangeIsStashed)
<1>1. ASSUME DecInv, seeks = 0, Idle, ret.info = "RES_CHANGE"
      PROVE  /\ m_res_change /\ m_frame.id # NoFrame
             /\ failures = 0 => m_frame.id = Len(delivered) + 1
             /\ Reported = PacketSize(PacketOf(m_frame.id))
  <2>1. /\ DecTypeOK /\ m_res_change /\ ~m_end_decode /\ m_frame.id # NoFrame
        /\ FramesFlow
    BY <1>1 DEF DecInv, Controlled, Flows, Orderly
  <2>2. Taken \in Int /\ Len(delivered) \in Nat
    BY <2>1, TakenType, DeliveredTypes
  <2>3. ASSUME failures = 0 PROVE m_frame.id = Taken /\ Len(delivered) = Taken - 1
    BY <1>1, <2>1, <2>3 DEF FramesFlow, Kept, Given
  <2>4. failures = 0 => m_frame.id = Len(delivered) + 1
    BY <2>2, <2>3
  <2> QED BY <2>1, <2>4 DEF Reported
<1>2. DecInv => (seeks = 0 => ChangeIsStashed)
  BY <1>1 DEF ChangeIsStashed
<1> QED BY <1>2, DecInvariant, PTL

(***************************************************************************)
(* GetLastFrame copies a frame only to a token made for its size, although *)
(* it checks nothing: the caller asks for the size before the call, and a  *)
(* frame of another size is kept for the next.  This is so as long as no   *)
(* call seeks and the codec context takes a new size with the frame, not   *)
(* with the packet.                                                        *)
(***************************************************************************)
THEOREM TokensFit == DecSpec => [](seeks = 0 /\ ~EarlySize => DstHoldsItsSize)
<1>1. DecInv => (seeks = 0 /\ ~EarlySize => DstHoldsItsSize)
  BY DEF DecInv, SizesAgree
<1> QED BY <1>1, DecInvariant, PTL

(***************************************************************************)
(* The loop of SeekDecode ends at the frame whose timestamp was asked for: *)
(* the key packet it starts from is not behind the frame, and none is      *)
(* skipped on the way.  The stream starts at 0, since the loop adds the    *)
(* start time to a timestamp that has it already.                          *)
(***************************************************************************)
THEOREM SeekFindsTheFrame ==
  ASSUME PlainFile, StartTime = 0
  PROVE  DecSpec => []SeekReachesTarget
<1>1. DecInv => SeekReachesTarget
  BY DEF DecInv, SeekArrives
<1> QED BY <1>1, DecInvariant, PTL

(***************************************************************************)
(* m_eof is reset by a seek, so that a seek in a file that was read to its *)
(* end succeeds: it fails only when a call of a library fails, the source  *)
(* is silent too long, or the call before it had failed, which leaves      *)
(* m_end_decode set.  The file is as in SeekFindsTheFrame, where it starts *)
(* does not matter: a packet refused before a seek would be sent after it. *)
(***************************************************************************)
THEOREM SeeksSucceedAfterSuccess ==
  ASSUME PlainFile
  PROVE  DecSpec => SeekAfterSuccess
<1> DEFINE SeekFails ==
      /\ pc # "idle" /\ pc' = "idle" /\ target # NoSeek /\ ret.status = "SUCCESS"
      /\ failures' = 0 /\ ret'.status # "SUCCESS" /\ ~timedOut'
<1>1. ASSUME DecInv, [DecNext]_vars, SeekFails PROVE FALSE
  <2>t. DecTypeOK /\ Controlled /\ PacketKept /\ Flows /\ SeekApproaches
    BY <1>1 DEF DecInv
  <2>n. failures = 0 /\ ~timedOut
    BY <1>1, <2>t, Monotone
  <2>1. CASE DecodeFinished
    BY <1>1, <2>t, <2>n, <2>1 DEF DecodeFinished, Controlled, NothingFailed, Over
  <2>2. CASE LibraryFails
    BY <1>1, <2>t, <2>2, Counted
  <2>3. CASE ReadTimesOut
    BY <1>1, <2>3 DEF ReadTimesOut
  <2>4. CASE ReceiveEof
    <3>1. /\ pc = "receive" /\ codec.draining /\ codec.held = <<>>
      BY <2>4 DEF ReceiveEof, ReceiveBegins
    <3>2. /\ PlainFlow /\ m_eof /\ position = NumPackets /\ ~m_flush /\ ~m_resend /\ ~m_end_decode
      BY <2>t, <3>1 DEF Controlled, Flows, Orderly, PacketKept
    <3>3. m_pkt = 0
      BY <3>1, <3>2, <2>t DEF PacketKept
    <3>4. Taken = NumFrames - 0
      BY <3>1, <3>2, <3>3, EmptySeq DEF Taken, Sent, NumFrames
    <3>5. Taken <= Sought /\ Sought \in 0 .. NumFrames - 1
      BY <1>1, <2>t, <3>1, <3>2 DEF SeekApproaches, Idle
    <3> QED BY <3>4, <3>5, NumFramesNat
  <2>5. ASSUME NEW info, Return("SUCCESS", info) PROVE FALSE
    BY <1>1, <2>5, AfterSuccess
  <2> QED
    BY <1>1, <2>1, <2>2, <2>3, <2>4, <2>5
       DEF DecNext, RunBegins, RunContinues, SourceAnswers, RunDecode,
           RunReturnsStash, RunFindsBlank, RunStashCopyFails, StashBegins, RunSeek,
           RunSeekFails, RunSeekNotSupported, SeekBegins, ReadSkipped, ReadResent,
           ReadCalls, ReadPacket, ReadEof, ReadFails, Tick, SendsNothing, SendNull,
           SendPacket, SendRefused, SendFails, ReceiveMore, ReceiveFails,
           ReceiveChanged, ReceiveFrame, ReceiveCopyFails, vars
<1>2. DecInv /\ [DecNext]_vars =>
        [pc # "idle" /\ pc' = "idle" /\ target # NoSeek /\ ret.status = "SUCCESS" /\ failures' = 0
           => ret'.status = "SUCCESS" \/ timedOut']_vars
  BY <1>1
<1> QED BY <1>2, DecInvariant, PTL DEF DecSpec, SeekAfterSuccess

\* A decoding that has ended with nothing kept stays so.
LEMMA OverStep == ASSUME DecInv, Over, [DecNext]_vars PROVE Over'
<1>1. m_end_decode' /\ m_end_decode /\ ret.status # "SUCCESS" /\ m_frame.id = NoFrame
  BY Monotone DEF DecInv, Over
<1>2. pc \notin {"reading", "send", "receive"}
  BY <1>1 DEF DecInv, Controlled
<1>3. CASE UNCHANGED <<m_frame, ret>>
  BY <1>1, <1>3 DEF Over
<1>4. CASE RunFindsBlank
  <2>1. UNCHANGED m_frame /\ ret'.status \in {"FAIL", "THROW"}
    BY <1>4 DEF RunFindsBlank, StashBegins, Finish, BlankCopyStatus
  <2> QED BY <1>1, <2>1 DEF Over
<1>5. CASE DecodeFinished
  <2>1. UNCHANGED m_frame /\ ret'.status = "FAIL"
    BY <1>5, FailReturns DEF DecodeFinished
  <2> QED BY <1>1, <2>1 DEF Over
<1>6. ASSUME NEW t \in 0 .. NumFrames - 1, RunSeek(t) \/ RunSeekFails(t) \/ RunSeekNotSupported(t)
      PROVE  Over'
  <2>1. m_frame'.id = m_frame.id /\ (ret' = ret \/ ret'.status = "FAIL")
    BY <1>6 DEF RunSeek, RunSeekFails, RunSeekNotSupported, DecInv, DecTypeOK
  <2> QED BY <1>1, <2>1 DEF Over
<1> QED
  BY <1>1, <1>2, <1>3, <1>4, <1>5, <1>6
     DEF DecNext, RunBegins, RunContinues, SourceAnswers, RunDecode, RunReturnsStash,
         RunStashCopyFails, ReadSkipped, ReadResent, ReadCalls, ReadBegins, ReadTimesOut,
         ReadPacket, ReadEof, ReadFails, ReadReturns, Tick, SendsNothing, SendNull,
         SendPacket, SendRefused, SendFails, SendBegins, ReceiveEof, ReceiveMore,
         ReceiveFails, ReceiveChanged, ReceiveFrame, ReceiveCopyFails, ReceiveSameSize,
         ReceiveBeginsFrame, ReceiveBegins, vars

(***************************************************************************)
(* Once Run has returned END_OF_STREAM no call without a seek succeeds any *)
(* more: m_frame is blank, so that a later Run that takes it for a frame   *)
(* kept at a change of resolution fails too.                               *)
(***************************************************************************)
THEOREM EndStaysFinal == DecSpec => EndIsFinal
<1>1. DecInv => (ret.info = "END_OF_STREAM" => Over)
  BY DEF DecInv, Controlled
<1>2. DecInv /\ Over /\ [DecNext]_vars => Over'
  BY OverStep
<1>3. Over => (target = NoSeek /\ Idle => ret.status # "SUCCESS")
  BY DEF Over
<1> QED BY <1>1, <1>2, <1>3, DecInvariant, PTL DEF DecSpec, EndIsFinal
=============================================================================
