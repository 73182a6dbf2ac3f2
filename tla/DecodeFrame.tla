----------------------------- MODULE DecodeFrame -----------------------------
(***************************************************************************)
(* DecodeFrame::Run and the class behind it, FfmpegDecodeFrame_Impl        *)
(* (TC/src/TaskDecodeFrame.cpp), with the caller PyDecoder, which sizes    *)
(* the destination before every call.                                      *)
(*                                                                         *)
(* The file is a sequence of video packets 1..NumPackets.  Every packet    *)
(* carries FramesPerPacket frames, so the frames are numbered from 1 too.  *)
(* libavformat and libavcodec are external: they are what their contract   *)
(* allows (avcodec.h), not an implementation.                              *)
(***************************************************************************)
EXTENDS TimeoutHandler, Sequences, FiniteSetsExt

CONSTANTS
  NumPackets,      \* video packets in the file
  FramesPerPacket, \* frames the codec makes of one packet
  KeyPackets,      \* the packets a fresh codec can start from
  ChangeAt,        \* the first packet of the second resolution
  StartTime,       \* start_time of the stream, in frame durations
  Capacity,        \* frames the codec holds before it refuses a packet
  EarlySize,       \* the codec context takes a new size with the packet, not the frame
  Accelerated,     \* frames are in GPU memory
  Vfr,             \* the stream has a variable frame rate
  Vectors,         \* Vectors[f]: motion vectors of frame f, 0 for none
  MaxSeeks,        \* bound on the seeks tried
  MaxFailures      \* bound on the failing library calls

NumFrames == NumPackets * FramesPerPacket
Frame == 1 .. NumFrames

ASSUME DecodeAssumption ==
  /\ NumPackets \in Nat \ {0} /\ FramesPerPacket \in Nat \ {0}
  /\ KeyPackets \subseteq 1 .. NumPackets /\ 1 \in KeyPackets
  /\ ChangeAt \in Nat \ {0} /\ StartTime \in Nat /\ Capacity \in Nat \ {0}
  /\ {EarlySize, Accelerated, Vfr} \subseteq BOOLEAN
  /\ Vectors \in [Frame -> Nat]
  /\ MaxSeeks \in Nat /\ MaxFailures \in Nat

Size == {"first", "second"}
NoFrame == 0
NoPts == -1 - StartTime - NumFrames   \* AV_NOPTS_VALUE, below every timestamp
NoSeek == -1

PacketOf(f) == ((f - 1) \div FramesPerPacket) + 1
PacketSize(p) == IF p < ChangeAt THEN "first" ELSE "second"
PtsOf(f) == StartTime + f - 1
Blank == [id |-> NoFrame, pts |-> NoPts]                  \* after av_frame_unref
Decoded(f) == [id |-> f, pts |-> PtsOf(f)]

VARIABLES
  position,       \* the last packet av_read_frame gave
  codec,          \* libavcodec: frames held, draining, waiting for a key packet, context size
  m_frame, m_pkt,
  m_packet_data,  \* the frame whose data m_packet_data describes
  m_side_data,    \* the motion vectors kept: whose, and how many
  m_last,         \* m_last_w and m_last_h
  m_end_decode, m_flush, m_resend, m_eof, m_res_change,
  pc,             \* where the running call is; "idle" between calls
  target,         \* timestamp of the running seek, or NoSeek
  dst,            \* the caller's token: the size it was made for, the frame in it
  ret,            \* TaskExecDetails of the last call
  delivered,      \* history: the frames of the successful calls since a seek last
                  \* moved in the file, the first NumFrames + 1 of them
  silence,        \* history: ticks since the running av_read_frame was called
  timedOut,       \* history: has a read given up
  seeks, failures

flags == <<m_end_decode, m_flush, m_resend, m_eof>>
saved == <<m_packet_data, m_side_data>>
clock == <<elapsed, silence, timedOut>>
bounds == <<seeks, failures>>
vars == <<position, codec, m_frame, m_pkt, saved, m_last, flags, m_res_change,
          pc, target, dst, ret, delivered, clock, bounds>>

(* Each call of a library that returns an error uses up one failure.       *)
LibraryFails == failures < MaxFailures /\ failures' = failures + 1

OpenedCodec == [held |-> <<>>, draining |-> FALSE, needKey |-> TRUE, size |-> PacketSize(1)]

(* GetWidth and GetHeight: of m_frame when it holds one, else of the codec *)
(* context.                                                                *)
BugReportedLastSaved == IF m_last = "none" THEN codec.size ELSE m_last
Reported == IF m_frame.id # NoFrame THEN PacketSize(PacketOf(m_frame.id)) ELSE codec.size

DecInit ==
  /\ position = 0 /\ codec = OpenedCodec
  /\ m_frame = Blank /\ m_pkt = 0
  /\ m_packet_data = NoFrame /\ m_side_data = [of |-> NoFrame, count |-> 0]
  /\ m_last = "none"
  /\ m_end_decode = FALSE /\ m_flush = FALSE /\ m_resend = FALSE
  /\ m_eof = FALSE /\ m_res_change = FALSE
  /\ pc = "idle" /\ target = NoSeek
  /\ dst = [size |-> PacketSize(1), frame |-> NoFrame]
  /\ ret = [status |-> "none", info |-> "none"]
  /\ delivered = <<>> /\ seeks = 0 /\ failures = 0
  /\ elapsed = 0 /\ silence = 0 /\ timedOut = FALSE

(* The end of a decode with these details.  A seek goes on with its loop   *)
(* while the frame it got is before the timestamp, and turns every success *)
(* into TaskExecInfo::SUCCESS.                                             *)
BugSeekStopsAtKey(status) == FALSE
SeekGoesOn(status) ==
  target # NoSeek /\ status = "SUCCESS" /\ m_frame'.pts + StartTime < target
Finish(status, info) ==
  /\ pc' = "idle"
  /\ ret' = [status |-> status, info |-> info]
  /\ delivered' = IF status = "SUCCESS" /\ info = "SUCCESS" /\ Len(delivered) <= NumFrames
                  THEN Append(delivered, dst'.frame) ELSE delivered
Return(status, info) ==
  IF SeekGoesOn(status)
  THEN pc' = "read" /\ UNCHANGED <<ret, delivered>>
  ELSE Finish(status, IF target # NoSeek /\ status = "SUCCESS" THEN "SUCCESS" ELSE info)
EndDecode(info) == m_end_decode' = TRUE /\ Return("FAIL", info)

-----------------------------------------------------------------------------
(* GetLastFrame: m_frame is copied to the caller's token; nothing is       *)
(* checked about the sizes.                                                *)
CopyFrame(f) == dst' = [dst EXCEPT !.frame = f]

(* The start of a call: the caller makes the token for the size reported.  *)
NewDst == [size |-> Reported, frame |-> NoFrame]

(* Run without a seek.  FlipGetResChange inverts m_res_change and returns  *)
(* what it was: when it was set, the frame kept in m_frame is returned.    *)
RunDecode ==
  /\ pc = "idle" /\ ~m_res_change
  /\ m_res_change' = TRUE
  /\ pc' = "read" /\ target' = NoSeek /\ dst' = NewDst
  /\ UNCHANGED <<position, codec, m_frame, m_pkt, saved, m_last, flags, ret, delivered, clock, bounds>>

StashBegins ==
  /\ pc = "idle" /\ m_res_change
  /\ m_res_change' = FALSE /\ target' = NoSeek
  /\ UNCHANGED <<position, codec, m_frame, m_pkt, saved, m_last, flags, clock, seeks>>
RunReturnsStash ==
  /\ StashBegins /\ m_frame.id # NoFrame /\ UNCHANGED failures
  /\ dst' = [NewDst EXCEPT !.frame = m_frame.id]
  /\ Finish("SUCCESS", "SUCCESS")
BugCopyResultIgnored == "SUCCESS"
BlankCopyStatus == IF Accelerated THEN "THROW" ELSE "FAIL"
(* A blank frame is not in GPU memory, so it is taken for one in RAM: the  *)
(* copy is refused, or the Surface is not a Buffer and the cast throws.    *)
RunFindsBlank ==
  /\ StashBegins /\ m_frame.id = NoFrame /\ UNCHANGED failures
  /\ dst' = NewDst
  /\ Finish(BlankCopyStatus, "FAIL")
RunStashCopyFails ==
  /\ StashBegins /\ m_frame.id # NoFrame /\ Accelerated /\ LibraryFails
  /\ dst' = NewDst
  /\ Finish("FAIL", "FAIL")

(* SeekDecode up to its loop: the codec is closed and opened, the file is  *)
(* positioned at the key packet at or before the timestamp.  m_flush,      *)
(* m_resend, m_end_decode and m_res_change are left alone.                 *)
BugKeyBefore(t) == Max({p \in KeyPackets : (p - 1) * FramesPerPacket <= t}) - 1
KeyBefore(t) == Max({p \in KeyPackets : (p - 1) * FramesPerPacket <= t})
Timestamp(t) == t + StartTime
\* Mutant: Run inverts the flag before it looks for a seek.
BugFlippedForSeek == ~m_res_change
ResChangeInSeek == m_res_change
SeekBegins ==
  /\ pc = "idle" /\ seeks < MaxSeeks /\ seeks' = seeks + 1
  /\ dst' = NewDst /\ m_res_change' = ResChangeInSeek
  /\ UNCHANGED <<m_pkt, saved, m_last, m_end_decode, m_flush, m_resend, silence, timedOut>>
BugEofKept == m_eof
EofAfterSeek == FALSE
RunSeek(t) ==
  /\ SeekBegins
  /\ codec' = OpenedCodec /\ position' = KeyBefore(t) - 1
  /\ m_frame' = [m_frame EXCEPT !.pts = NoPts] /\ m_eof' = EofAfterSeek
  /\ target' = Timestamp(t) /\ pc' = "read" /\ delivered' = <<>>
  /\ Reset
  /\ UNCHANGED <<ret, failures>>
RunSeekFails(t) ==
  /\ SeekBegins
  /\ LibraryFails
  /\ codec' = OpenedCodec
  /\ target' = Timestamp(t) /\ pc' = "idle" /\ ret' = [status |-> "FAIL", info |-> "FAIL"]
  /\ Reset
  /\ UNCHANGED <<position, m_frame, m_eof, delivered>>
RunSeekNotSupported(t) ==
  /\ SeekBegins /\ Vfr
  /\ target' = Timestamp(t) /\ pc' = "idle"
  /\ ret' = [status |-> "FAIL", info |-> "NOT_SUPPORTED"]
  /\ UNCHANGED <<position, codec, m_frame, m_eof, delivered, elapsed, failures>>

-----------------------------------------------------------------------------
(* DecodeSingleFrame, one iteration of its loop: read, send, receive.      *)
InCall == UNCHANGED <<target, seeks>>

DecodeFinished ==
  /\ pc = "read" /\ m_end_decode
  /\ Return("FAIL", "FAIL")
  /\ InCall
  /\ UNCHANGED <<position, codec, m_frame, m_pkt, saved, m_last, flags, m_res_change, dst, clock, failures>>

(* The next packet: none while the codec is drained, the one refused       *)
(* before, or the next video packet of the file.                           *)
ReadBegins ==
  /\ pc = "read" /\ ~m_end_decode
  /\ InCall
  /\ UNCHANGED <<position, codec, m_frame, m_pkt, saved, m_last, m_end_decode, m_flush, m_eof,
                 m_res_change, dst, ret, delivered, timedOut, failures>>
BugReadIgnoresFlush == m_eof
ReadsNothing == m_eof \/ m_flush
ReadSkipped ==
  /\ ReadBegins /\ ReadsNothing
  /\ pc' = "send"
  /\ UNCHANGED <<m_resend, elapsed, silence>>
ReadResent ==
  /\ ReadBegins /\ ~ReadsNothing /\ m_resend
  /\ m_resend' = FALSE /\ pc' = "send"
  /\ UNCHANGED <<elapsed, silence>>

\* Mutant: the time since the last call counts as well.
BugNoReset == UNCHANGED elapsed
ResetBeforeRead == Reset
ReadCalls ==
  /\ ReadBegins /\ ~ReadsNothing /\ ~m_resend
  /\ ResetBeforeRead /\ silence' = 0 /\ pc' = "reading"
  /\ UNCHANGED m_resend

(* av_read_frame blocks until the source answers, or until the callback    *)
(* says that it took too long.                                             *)
ReadReturns ==
  /\ pc = "reading"
  /\ InCall
  /\ UNCHANGED <<codec, m_frame, saved, m_last, m_flush, m_resend, m_res_change, dst,
                 elapsed, silence>>
ReadPacket ==
  /\ ReadReturns /\ position < NumPackets
  /\ position' = position + 1 /\ m_pkt' = position + 1 /\ pc' = "send"
  /\ UNCHANGED <<m_end_decode, m_eof, ret, delivered, timedOut, failures>>
ReadEof ==
  /\ ReadReturns /\ position = NumPackets
  /\ m_eof' = TRUE /\ pc' = "send"
  /\ UNCHANGED <<position, m_pkt, m_end_decode, ret, delivered, timedOut, failures>>
ReadFails ==
  /\ ReadReturns
  /\ LibraryFails /\ EndDecode("FAIL")
  /\ UNCHANGED <<position, m_pkt, m_eof, timedOut>>
ReadTimesOut ==
  /\ ReadReturns /\ IsTimeout
  /\ timedOut' = TRUE /\ EndDecode("FAIL")
  /\ UNCHANGED <<position, m_pkt, m_eof, failures>>

(* Time passes while the caller does something else and while the source   *)
(* is silent; what the library computes takes none.                        *)
Tick ==
  /\ pc \in {"idle", "reading"} /\ TimePasses
  /\ silence' = IF pc = "reading" THEN silence + 1 ELSE silence
  /\ UNCHANGED <<position, codec, m_frame, m_pkt, saved, m_last, flags, m_res_change,
                 pc, target, dst, ret, delivered, timedOut, bounds>>

(* DecodeSinglePacket, first part: SaveCurrentRes and avcodec_send_packet. *)
(* A codec that waits for a key packet drops what comes before it.         *)
FramesOf(p) == [i \in 1 .. FramesPerPacket |-> (p - 1) * FramesPerPacket + i]
Dropped == codec.needKey /\ m_pkt \notin KeyPackets
Fed == [codec EXCEPT
          !.held = IF Dropped THEN @ ELSE @ \o FramesOf(m_pkt),
          !.needKey = Dropped,
          !.size = IF EarlySize /\ ~Dropped THEN PacketSize(m_pkt) ELSE @]
Full == Len(codec.held) >= Capacity
SendBegins ==
  /\ pc = "send" /\ m_last' = Reported
  /\ InCall
  /\ UNCHANGED <<position, m_frame, saved, m_resend, m_eof, m_res_change, dst, clock>>
SendsNothing ==
  /\ SendBegins /\ m_flush /\ pc' = "receive"
  /\ UNCHANGED <<codec, m_pkt, m_end_decode, m_flush, ret, delivered, failures>>
BugSendsPacketAtEof ==
  /\ SendBegins /\ ~m_flush /\ m_eof
  /\ pc' = "receive"
  /\ UNCHANGED <<codec, m_pkt, m_end_decode, m_flush, ret, delivered, failures>>
SendNull ==
  /\ SendBegins /\ ~m_flush /\ m_eof
  /\ codec' = [codec EXCEPT !.draining = TRUE] /\ pc' = "receive"
  /\ UNCHANGED <<m_pkt, m_end_decode, m_flush, ret, delivered, failures>>
SendPacket ==
  /\ SendBegins /\ ~m_flush /\ ~m_eof /\ ~Full
  /\ codec' = Fed /\ m_pkt' = 0 /\ pc' = "receive"
  /\ UNCHANGED <<m_end_decode, m_flush, ret, delivered, failures>>
SendRefused ==
  /\ SendBegins /\ ~m_flush /\ ~m_eof /\ Full
  /\ m_flush' = TRUE /\ pc' = "receive"
  /\ UNCHANGED <<codec, m_pkt, m_end_decode, ret, delivered, failures>>
SendFails ==
  /\ SendBegins /\ ~m_flush
  /\ LibraryFails /\ EndDecode("FAIL")
  /\ UNCHANGED <<codec, m_pkt, m_flush>>

(* DecodeSinglePacket, second part: avcodec_receive_frame, which releases  *)
(* the frame in m_frame first.  The codec outputs nothing only while it    *)
(* can take a packet.                                                      *)
ReceiveBegins ==
  /\ pc = "receive"
  /\ InCall
  /\ UNCHANGED <<position, m_pkt, m_last, m_eof, clock>>
ReceiveEof ==
  /\ ReceiveBegins /\ codec.draining /\ codec.held = <<>>
  /\ m_frame' = Blank /\ EndDecode("END_OF_STREAM")
  /\ UNCHANGED <<codec, saved, m_flush, m_resend, m_res_change, dst, failures>>
BugResendForgotten == FALSE
Resends == m_flush
ReceiveMore ==
  /\ ReceiveBegins /\ ~codec.draining /\ ~Full
  /\ m_frame' = Blank /\ pc' = "read"
  /\ m_flush' = FALSE /\ m_resend' = (m_resend \/ Resends)
  /\ UNCHANGED <<codec, saved, m_end_decode, m_res_change, dst, ret, delivered, failures>>
ReceiveFails ==
  /\ ReceiveBegins /\ LibraryFails
  /\ m_frame' = Blank /\ EndDecode("FAIL")
  /\ UNCHANGED <<codec, saved, m_flush, m_resend, m_res_change, dst>>

(* A frame is received.  UpdGetResChange compares it with the size saved   *)
(* before it was decoded; SaveMotionVectors copies the vectors when there  *)
(* are none yet or their number differs from the number kept.              *)
ReceiveBeginsFrame ==
  /\ ReceiveBegins /\ codec.held # <<>>
  /\ m_frame' = Decoded(Head(codec.held))
  /\ codec' = [codec EXCEPT !.held = Tail(@),
                 !.size = IF EarlySize THEN @ ELSE PacketSize(PacketOf(Head(codec.held)))]
  /\ UNCHANGED <<m_flush, m_resend>>
BugNeverChanges(f) == FALSE
SizeChanged(f) == PacketSize(PacketOf(f)) # m_last
SavedVectors(f) ==
  IF Vectors[f] > 0 /\ (m_side_data.of = NoFrame \/ m_side_data.count # Vectors[f])
  THEN [of |-> f, count |-> Vectors[f]] ELSE m_side_data
ReceiveChanged ==
  /\ ReceiveBeginsFrame /\ SizeChanged(Head(codec.held))
  /\ m_res_change' = TRUE
  /\ UNCHANGED <<dst, saved, m_end_decode, failures>>
  /\ Return("SUCCESS", "RES_CHANGE")
ReceiveSameSize(f) ==
  /\ ReceiveBeginsFrame /\ f = Head(codec.held) /\ ~SizeChanged(f)
  /\ m_res_change' = FALSE
  /\ m_side_data' = SavedVectors(f) /\ m_packet_data' = f
ReceiveFrame(f) ==
  /\ ReceiveSameSize(f) /\ CopyFrame(f)
  /\ UNCHANGED <<m_end_decode, failures>>
  /\ Return("SUCCESS", "SUCCESS")
ReceiveCopyFails(f) ==
  /\ ReceiveSameSize(f) /\ Accelerated /\ LibraryFails
  /\ UNCHANGED dst /\ EndDecode("FAIL")

-----------------------------------------------------------------------------
RunBegins ==
  \/ RunDecode \/ RunReturnsStash \/ RunFindsBlank \/ RunStashCopyFails
  \/ \E t \in 0 .. NumFrames - 1 : RunSeek(t) \/ RunSeekFails(t) \/ RunSeekNotSupported(t)
SourceAnswers == ReadPacket \/ ReadEof \/ ReadFails
RunContinues ==
  \/ DecodeFinished
  \/ ReadSkipped \/ ReadResent \/ ReadCalls \/ ReadTimesOut
  \/ SendsNothing \/ SendNull \/ SendPacket \/ SendRefused \/ SendFails
  \/ ReceiveEof \/ ReceiveMore \/ ReceiveFails \/ ReceiveChanged
  \/ \E f \in Frame : ReceiveFrame(f) \/ ReceiveCopyFails(f)
DecNext == RunBegins \/ RunContinues \/ SourceAnswers \/ Tick

(* A call runs in its caller's thread, which the scheduler runs, and time  *)
(* passes; the source may never answer.                                    *)
DecSpec == DecInit /\ [][DecNext]_vars /\ WF_vars(RunContinues) /\ WF_vars(Tick)

-----------------------------------------------------------------------------
(* The state keeps its types, and no packet outside the file is read.      *)
DecTypeOK ==
  /\ position \in 0 .. NumPackets /\ m_pkt \in 0 .. NumPackets
  /\ codec \in [held : Seq(Frame), draining : BOOLEAN, needKey : BOOLEAN, size : Size]
  /\ m_frame \in [id : Frame \cup {NoFrame}, pts : Int]
  /\ m_packet_data \in Frame \cup {NoFrame}
  /\ m_side_data \in [of : Frame \cup {NoFrame}, count : Nat]
  /\ m_last \in Size \cup {"none"}
  /\ {m_end_decode, m_flush, m_resend, m_eof, m_res_change} \subseteq BOOLEAN
  /\ pc \in {"idle", "read", "reading", "send", "receive"}
  /\ target \in Int
  /\ dst \in [size : Size, frame : Frame \cup {NoFrame}]
  /\ ret \in [status : {"none", "SUCCESS", "FAIL", "THROW"},
              info : {"none", "SUCCESS", "FAIL", "END_OF_STREAM", "RES_CHANGE", "NOT_SUPPORTED"}]
  /\ delivered \in Seq(Frame \cup {NoFrame})
  /\ {elapsed, silence} \subseteq 0 .. m_timeout + 1 /\ timedOut \in BOOLEAN
  /\ seeks \in 0 .. MaxSeeks /\ failures \in 0 .. MaxFailures

Idle == pc = "idle"
GotFrame == Idle /\ ret.status = "SUCCESS" /\ ret.info = "SUCCESS"

NothingFailed == failures = 0 /\ ~timedOut

(* As long as nothing fails, the caller gets consecutive frames from one   *)
(* seek to the next, each exactly once, whatever the codec refuses and has *)
(* to be sent again, and across a change of resolution; before the first   *)
(* seek they start with the first frame of the file.  Whatever does fail,  *)
(* a seek or a read that times out included, frames never go back, and one *)
(* comes twice only after the decoding has ended.                          *)
FramesInOrder ==
  /\ \A i \in 1 .. Len(delivered) - 1 :
       /\ delivered[i] <= delivered[i + 1]
       /\ delivered[i] = delivered[i + 1] => m_end_decode
       /\ NothingFailed => delivered[i + 1] = delivered[i] + 1
  /\ NothingFailed /\ seeks = 0 /\ delivered # <<>> => delivered[1] = 1

(* END_OF_STREAM is returned only after the last frame of the file was:    *)
(* draining the codec loses nothing.                                       *)
EndMeansAll ==
  Idle /\ seeks + failures = 0 /\ ret.info = "END_OF_STREAM" => Len(delivered) = NumFrames

(* After RES_CHANGE a frame is kept, the next one in order when nothing    *)
(* failed; the decoder reports its size, and the next call will return it. *)
ChangeIsStashed ==
  Idle /\ ret.info = "RES_CHANGE" =>
    /\ m_res_change /\ m_frame.id # NoFrame
    /\ failures = 0 => m_frame.id = Len(delivered) + 1
    /\ Reported = PacketSize(PacketOf(m_frame.id))

(* A frame is copied only to a token made for its size.                    *)
DstHoldsItsSize ==
  dst.frame # NoFrame => dst.size = PacketSize(PacketOf(dst.frame))

(* Every call returns: neither the refused packets nor the end of the file *)
(* keep the decode loop going, nor does a source that never answers.       *)
RunReturns == pc # "idle" ~> pc = "idle"

(* Once END_OF_STREAM was returned no call without a seek succeeds again,  *)
(* although m_res_change is set and makes the next call return m_frame.    *)
EndIsFinal ==
  [](ret.info = "END_OF_STREAM" => [](target = NoSeek /\ Idle => ret.status # "SUCCESS"))

(* A seek that succeeds returns the frame with the timestamp asked for, as *)
(* the comment on its loop says.                                           *)
SeekReachesTarget ==
  GotFrame /\ target # NoSeek /\ Len(delivered) = 1 =>
    dst.frame # NoFrame /\ PtsOf(dst.frame) = target

(* A seek fails only when a library call or the source did or when the     *)
(* call before it had failed: m_eof is reset, as the comment there says, so having read   *)
(* the file to its end is no reason.                                       *)
SeekAfterSuccess ==
  [][pc # "idle" /\ pc' = "idle" /\ target # NoSeek /\ ret.status = "SUCCESS" /\ failures' = 0
       => ret'.status = "SUCCESS" \/ timedOut']_vars

(* A read gives up only when the source was silent for longer than the     *)
(* timeout during this very read, however long the caller took before.     *)
TimeoutMeansSilence == [][~timedOut /\ timedOut' => silence > m_timeout]_vars
=============================================================================
