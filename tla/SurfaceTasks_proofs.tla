------------------------- MODULE SurfaceTasks_proofs -------------------------
(***************************************************************************)
(* What the tasks on the GPU promise their callers, for any threads,       *)
(* surfaces, arrays, conversions and failures: who waits for work, that    *)
(* a call on objects its task is for succeeds, and which pictures there are *)
(* when calls and the GPU have interleaved.                                *)
(***************************************************************************)
EXTENDS SurfaceTasks, SequenceTheorems, FiniteSetTheorems, TLAPS

Place == (Object \union Temporary) \X (0 .. 2)
Task == {"none", "uploader", "downloader", "converter", "resizer"}
Info == {"SUCCESS", "FAIL", "INVALID_INPUT", "UNSUPPORTED_FMT_CONV_PARAMS",
         "SRC_DST_SIZE_MISMATCH", "EXCEPTION", "UNDEFINED"}

\* The steps of a call that go on with it, and those that end its work.
GoingOn ==
  [do : {"launch"}, reads : SUBSET Place, writes : SUBSET Place]
    \union [do : {"make"}, temp : Temporary, size : Nat \ {0}]
    \union {RecordEvent, WaitForEvent}
Concluding == [do : {"conclude"}, info : Info]

Call ==
  [id : Nat, task : Task, src : Object \union {"none"}, dst : Object \union {"none"},
   mode : Mode, cc : AnyColors, work : Seq(GoingOn \union Concluding),
   closing : {Synchronize, <<WaitForEvent>>, <<RecordEvent>>, <<>>},
   info : Info, libraryFailed : BOOLEAN]
Entry == [event : BOOLEAN, call : Nat, reads : SUBSET Place, writes : SUBSET Place]
Left == [id : Nat, task : Task, event : BOOLEAN]

CallTypes ==
  /\ scenario \in Scenario
  /\ call \in [Thread -> Call]
  /\ calls \in Nat
  /\ pending \in Seq(Entry)
  /\ left \in SUBSET Left

-----------------------------------------------------------------------------
(***************************************************************************)
(* The inductive invariant.  A call waits for an event that it recorded    *)
(* after its work, so that the queue, which is performed in order, holds   *)
(* nothing of it when the event is reached; what the queue holds of a call *)
(* is told from the rest by the number of the call.                        *)
(***************************************************************************)
CallsNumbered ==
  /\ \A t \in Running : call[t].id \in 1 .. calls
  /\ \A t, u \in Running : call[t].id = call[u].id => t = u
  /\ \A c \in left : c.id \in 1 .. calls /\ \A t \in Running : call[t].id # c.id
  /\ \A i \in DOMAIN pending : pending[i].call \in 1 .. calls

\* Nothing of a call is in the queue; all of it comes before an event of it.
Absent(queue, id) == \A i \in DOMAIN queue : queue[i].call # id
Followed(queue, id) ==
  \A i \in DOMAIN queue : queue[i].call = id =>
    \E j \in DOMAIN queue : i <= j /\ queue[j] = Event(id)

\* What closes the calls that wait, and those that have an event to give.
ClosedBlocking(c, queue) ==
  \/ c.closing = Synchronize
  \/ c.work = <<>> /\ c.closing = <<WaitForEvent>> /\ Followed(queue, c.id)
  \/ c.work = <<>> /\ c.closing = <<>> /\ (c.info = "EXCEPTION" \/ Absent(queue, c.id))
ClosedEvent(c, queue) ==
  \/ c.closing = <<RecordEvent>>
  \/ c.work = <<>> /\ c.closing = <<>> /\ (c.info = "EXCEPTION" \/ Followed(queue, c.id))

CallsClosed ==
  \A t \in Running :
    /\ call[t].mode = "blocking" => ClosedBlocking(call[t], pending)
    /\ call[t].mode = "event" /\ call[t].task = "resizer" => ClosedEvent(call[t], pending)

LeftFollowed == \A c \in left : c.task = "resizer" /\ c.event => Followed(pending, c.id)

\* As long as no library call failed, the work of a call on objects that fit
\* its task has nothing that would end it.
Fitting(t) ==
  /\ ~call[t].libraryFailed /\ ValidRun(t)
  /\ ~(call[t].task = "converter" /\ row \in {nv12_bgr, rgb_planar_yuv444})
FittingGoOn ==
  \A t \in Running :
    /\ call[t].libraryFailed => call[t].work = <<>>
    /\ Fitting(t) => call[t].info = "SUCCESS" /\ call[t].work \in Seq(GoingOn)

TasksInv ==
  /\ CallTypes /\ CallsNumbered /\ CallsClosed /\ LeftFollowed /\ FittingGoOn
  /\ BlockingCallsLeaveNothing

-----------------------------------------------------------------------------
(***************************************************************************)
(* The conversions and the formats.                                        *)
(***************************************************************************)
LEMMA FormatSizes ==
  ASSUME NEW f \in SurfaceFormat
  PROVE  /\ Components(f) \subseteq 0 .. 2
         /\ NumPlanes(f) \in 1 .. 3
         /\ \A plane \in 0 .. NumPlanes(f) - 1 : plane \in 0 .. 2 /\ ComponentsOfPlane(f, plane) \subseteq 0 .. 2
BY DEF Components, NumComponents, NumPlanes, ComponentsOfPlane, SurfaceFormat

\* VALI picks colors for which NPP is called, in all conversions but two.
LEMMA DefaultColors ==
  ASSUME NEW r \in Conversions
  PROVE  /\ r.src \in SurfaceFormat /\ r.dst \in SurfaceFormat
         /\ r.default \in AnyColors
         /\ r \notin {nv12_bgr, rgb_planar_yuv444} =>
              /\ r.default \in r.colors /\ r.default \notin r.noReturn
              /\ r.default \notin r.failing /\ r.default \notin r.throwing
<1>c. /\ <<"BT_601", "JPEG">> \in Sdtv \X FullOrNarrow
      /\ <<"BT_601", "JPEG">> \in Sdtv \X {"JPEG"}
      /\ <<"BT_601", "JPEG">> \in AnyColors
      /\ <<"BT_601", "JPEG">> \notin Sdtv \X {"UDEF"}
      /\ <<"BT_601", "JPEG">> \notin Sdtv \X {"MPEG", "UDEF"}
  BY DEF Sdtv, FullOrNarrow, AnyColors, ColorSpace, ColorRange
<1>1. CASE r \in {nv12_yuv420, yuv420_nv12, nv12_rgb, rgb8_deinterleave, rgb8_interleave, y_yuv444}
  BY <1>1 DEF nv12_yuv420, yuv420_nv12, nv12_rgb, rgb8_deinterleave, rgb8_interleave, y_yuv444,
     Row, AnyColors, ColorSpace, ColorRange, SurfaceFormat, FullOrNarrow, Hdtv, Sdtv
<1>2. CASE r \in {p16_nv12("P10"), p16_nv12("P12")}
  BY <1>2 DEF p16_nv12,
     Row, AnyColors, ColorSpace, ColorRange, SurfaceFormat, FullOrNarrow, Hdtv, Sdtv
<1>3. CASE r \in {yuv420_rgb, rgb_yuv420, rgb_yuv444, rgb_bgr, bgr_rgb, yuv420_bgr}
  BY <1>3 DEF yuv420_rgb, rgb_yuv420, rgb_yuv444, rgb_bgr, bgr_rgb, yuv420_bgr,
     Row, AnyColors, ColorSpace, ColorRange, SurfaceFormat, FullOrNarrow, Hdtv, Sdtv
<1>4. CASE r \in {nv12_y, rbg8_rgb32f, rbg8_y, rgb32f_deinterleave}
  BY <1>4 DEF nv12_y, rbg8_rgb32f, rbg8_y, rgb32f_deinterleave,
     Row, AnyColors, ColorSpace, ColorRange, SurfaceFormat, FullOrNarrow, Hdtv, Sdtv
<1>5. CASE r \in {yuv444_bgr, bgr_yuv444}
  <2>1. /\ r.default = <<"BT_601", "JPEG">> /\ r.colors = Sdtv \X FullOrNarrow
        /\ r.noReturn = {} /\ r.throwing = {}
        /\ r.failing = Sdtv \X {"UDEF"}
        /\ r.src \in SurfaceFormat /\ r.dst \in SurfaceFormat
    BY <1>5 DEF yuv444_bgr, bgr_yuv444, Row, SurfaceFormat
  <2> QED BY <1>c, <2>1
<1>6. CASE r = yuv444_rgb
  <2>1. /\ r.default = <<"BT_601", "JPEG">> /\ r.colors = Sdtv \X {"JPEG"}
        /\ r.noReturn = {} /\ r.throwing = {}
        /\ r.failing = Sdtv \X {"MPEG", "UDEF"}
        /\ r.src \in SurfaceFormat /\ r.dst \in SurfaceFormat
    BY <1>6 DEF yuv444_rgb, Row, SurfaceFormat
  <2> QED BY <1>c, <2>1
<1>7. CASE r = nv12_bgr
  BY <1>7 DEF nv12_bgr,
     Row, AnyColors, ColorSpace, ColorRange, SurfaceFormat, FullOrNarrow, Hdtv, Sdtv
<1>8. CASE r = rgb_planar_yuv444
  BY <1>8 DEF rgb_planar_yuv444,
     Row, AnyColors, ColorSpace, ColorRange, SurfaceFormat, FullOrNarrow, Hdtv, Sdtv
<1> QED BY <1>1, <1>2, <1>3, <1>4, <1>5, <1>6, <1>7, <1>8 DEF Conversions

LEMMA ScenarioTypes ==
  ASSUME scenario \in Scenario
  PROVE  /\ row \in Conversions
         /\ kind \in [Object -> [format : SurfaceFormat, size : Nat \ {0}]]
         /\ scenario.colors \subseteq AnyColors
         /\ row.default \in AnyColors
BY SurfaceTasksAssumption, DefaultColors DEF row, kind, Object

NppCall == [reads : SUBSET (0 .. 2), writes : SUBSET (0 .. 2)]

LEMMA NppPlaces ==
  ASSUME NEW r \in Conversions, NEW cc
  PROVE  NppCalls(r, cc) \in Seq(NppCall)
<1>1. [reads |-> Components(r.src), writes |-> Components(r.dst)] \in NppCall
  BY DefaultColors, FormatSizes DEF NppCall
<1>2. \A x, y, z \in NppCall : <<x>> \in Seq(NppCall) /\ <<x, y, z>> \in Seq(NppCall)
  OBVIOUS
<1>3. /\ [reads |-> {}, writes |-> {1}] \in NppCall /\ [reads |-> {}, writes |-> {2}] \in NppCall
      /\ [reads |-> {0}, writes |-> {0}] \in NppCall
  BY DEF NppCall
<1> QED BY <1>1, <1>2, <1>3, Zenon DEF NppCalls

-----------------------------------------------------------------------------
(***************************************************************************)
(* The work of a call.                                                     *)
(***************************************************************************)
LEMMA LaunchGoesOn ==
  ASSUME NEW reads \in SUBSET Place, NEW writes \in SUBSET Place
  PROVE  Launch(reads, writes) \in GoingOn
BY DEF Launch, GoingOn

LEMMA PlanesOf ==
  ASSUME NEW o \in Object \union Temporary, NEW C \in SUBSET (0 .. 2)
  PROVE  {o} \X C \in SUBSET Place
BY DEF Place

LEMMA PartsAreFew ==
  ASSUME scenario \in Scenario, NEW o \in Object \union Temporary
  PROVE  Parts(o) \in SUBSET (0 .. 2) /\ Places(o) \in SUBSET Place
<1>1. \A s \in Object : kind[s].format \in SurfaceFormat
  BY ScenarioTypes
<1>2. \A f \in SurfaceFormat :
        Components(f) \subseteq 0 .. 2 /\ 0 .. NumPlanes(f) - 1 \subseteq 0 .. 2
  BY FormatSizes
<1>3. Components("YUV420") \subseteq 0 .. 2
  BY FormatSizes DEF SurfaceFormat
<1>4. Parts(o) \in SUBSET (0 .. 2)
  BY <1>1, <1>2, <1>3 DEF Parts, Object, Temporary
<1> QED BY <1>4, PlanesOf DEF Places

LEMMA PlanePlacesType ==
  ASSUME scenario \in Scenario, NEW s \in Object, NEW i \in 1 .. NumPlanes(kind[s].format)
  PROVE  PlanePlaces(s, i - 1) \in SUBSET Place /\ i - 1 \in 0 .. 2
<1>1. kind[s].format \in SurfaceFormat
  BY ScenarioTypes
<1>2. i - 1 \in 0 .. NumPlanes(kind[s].format) - 1
  BY <1>1, FormatSizes
<1>3. i - 1 \in 0 .. 2 /\ ComponentsOfPlane(kind[s].format, i - 1) \in SUBSET (0 .. 2)
  BY <1>1, <1>2, FormatSizes
<1> QED BY <1>3, PlanesOf DEF PlanePlaces

\* Steps that go on are steps, and a sequence made of two has what they have.
LEMMA StepSequences ==
  /\ Seq(GoingOn) \subseteq Seq(GoingOn \union Concluding)
  /\ \A S : \A a, b \in Seq(S) : a \o b \in Seq(S)
  /\ \A S : <<>> \in Seq(S) /\ \A x, y, z \in S : <<x>> \in Seq(S) /\ <<x, y>> \in Seq(S) /\ <<x, y, z>> \in Seq(S)
  /\ \A info \in Info : <<Conclude(info)>> \in Seq(GoingOn \union Concluding)
  /\ Synchronize \in Seq(GoingOn)
<1>1. \A S : \A a, b \in Seq(S) : a \o b \in Seq(S)
  BY ConcatProperties
<1>2. \A info \in Info : Conclude(info) \in Concluding
  BY DEF Conclude, Concluding
<1>3. RecordEvent \in GoingOn /\ WaitForEvent \in GoingOn
  BY DEF GoingOn
<1>4. \A S : <<>> \in Seq(S) /\ \A x, y, z \in S : <<x>> \in Seq(S) /\ <<x, y>> \in Seq(S) /\ <<x, y, z>> \in Seq(S)
  OBVIOUS
<1>5. Seq(GoingOn) \subseteq Seq(GoingOn \union Concluding)
  OBVIOUS
<1> QED BY <1>1, <1>2, <1>3, <1>4, <1>5 DEF Synchronize

LEMMA MakeGoesOn ==
  ASSUME NEW t \in Temporary, NEW size \in Nat \ {0}
  PROVE  MakeIfNeeded(t, size) \in Seq(GoingOn)
<1>1. Make(t, size) \in GoingOn
  BY DEF Make, GoingOn
<1> QED BY <1>1, StepSequences DEF MakeIfNeeded

LEMMA UploadWork ==
  ASSUME scenario \in Scenario, NEW array \in HostArray, NEW s \in Surface
  PROVE  /\ Upload(array, s) \in Seq(GoingOn \union Concluding)
         /\ kind[array] = kind[s] => Upload(array, s) \in Seq(GoingOn)
<1> DEFINE n == NumPlanes(kind[s].format)
           copy(i) == Launch({<<array, i - 1>>}, PlanePlaces(s, i - 1))
<1>1. n \in Nat
  BY ScenarioTypes, FormatSizes DEF Object
<1>2. ASSUME NEW i \in 1 .. n PROVE copy(i) \in GoingOn
  <2>1. PlanePlaces(s, i - 1) \in SUBSET Place /\ i - 1 \in 0 .. 2
    BY PlanePlacesType DEF Object
  <2>2. {<<array, i - 1>>} \in SUBSET Place
    BY <2>1 DEF Place, Object
  <2> QED BY <2>1, <2>2, LaunchGoesOn
<1>3. [i \in 1 .. n |-> copy(i)] \in Seq(GoingOn)
  <2> HIDE DEF n, copy
  <2> QED BY <1>1, <1>2
<1>4. kind[array] = kind[s] => HostMemSize(array) = HostMemSize(s)
  BY DEF HostMemSize
<1>5. "SRC_DST_SIZE_MISMATCH" \in Info
  BY DEF Info
<1> QED BY <1>3, <1>4, <1>5, StepSequences, Zenon DEF Upload

LEMMA DownloadWork ==
  ASSUME scenario \in Scenario, NEW array \in HostArray, NEW s \in Surface
  PROVE  /\ Download(s, array) \in Seq(GoingOn \union Concluding)
         /\ kind[array] = kind[s] => Download(s, array) \in Seq(GoingOn)
<1> DEFINE n == NumPlanes(kind[s].format)
           copy(i) == Launch(PlanePlaces(s, i - 1), {<<array, i - 1>>})
<1>1. n \in Nat
  BY ScenarioTypes, FormatSizes DEF Object
<1>2. ASSUME NEW i \in 1 .. n PROVE copy(i) \in GoingOn
  <2>1. PlanePlaces(s, i - 1) \in SUBSET Place /\ i - 1 \in 0 .. 2
    BY PlanePlacesType DEF Object
  <2>2. {<<array, i - 1>>} \in SUBSET Place
    BY <2>1 DEF Place, Object
  <2> QED BY <2>1, <2>2, LaunchGoesOn
<1>3. [i \in 1 .. n |-> copy(i)] \in Seq(GoingOn)
  <2> HIDE DEF n, copy
  <2> QED BY <1>1, <1>2
<1>4. kind[array] = kind[s] => HostMemSize(array) = HostMemSize(s)
  BY DEF HostMemSize
<1>5. "SRC_DST_SIZE_MISMATCH" \in Info
  BY DEF Info
<1> QED BY <1>3, <1>4, <1>5, StepSequences, Zenon DEF Download

LEMMA ConvertWork ==
  ASSUME scenario \in Scenario, NEW s \in Surface, NEW d \in Surface, NEW cc \in AnyColors
  PROVE  /\ Convert(s, d, cc) \in Seq(GoingOn \union Concluding)
         /\ /\ Validate(row, kind[s], kind[d]) /\ cc = row.default
            /\ row \notin {nv12_bgr, rgb_planar_yuv444}
            => Convert(s, d, cc) \in Seq(GoingOn)
<1> DEFINE calls_ == NppCalls(row, cc)
           nppCalls == [i \in DOMAIN calls_ |->
                          Launch({s} \X calls_[i].reads, {d} \X calls_[i].writes)]
           answer == Answer(row, kind[s], kind[d], cc)
           scratch == MakeIfNeeded("scratch", kind[s].size)
                        \o <<Launch(Places(s), Places("scratch")), Launch(Places("scratch"), Places(d))>>
<1>1. nppCalls \in Seq(GoingOn)
  <2>1. calls_ \in Seq(NppCall)
    BY ScenarioTypes, NppPlaces
  <2>2. ASSUME NEW i \in DOMAIN calls_
        PROVE  Launch({s} \X calls_[i].reads, {d} \X calls_[i].writes) \in GoingOn
    <3>1. calls_[i] \in NppCall
      BY <2>1, ElementOfSeq
    <3>2. calls_[i].reads \in SUBSET (0 .. 2) /\ calls_[i].writes \in SUBSET (0 .. 2)
      BY <3>1 DEF NppCall
    <3> HIDE DEF calls_
    <3> QED BY <3>2, PlanesOf, LaunchGoesOn DEF Object
  <2>3. Len(calls_) \in Nat /\ DOMAIN calls_ = 1 .. Len(calls_)
    BY <2>1, LenProperties
  <2> HIDE DEF calls_
  <2> QED BY <2>2, <2>3
<1>2. scratch \in Seq(GoingOn)
  <2>1. kind[s].size \in Nat \ {0}
    BY ScenarioTypes DEF Object
  <2>2. MakeIfNeeded("scratch", kind[s].size) \in Seq(GoingOn)
    BY <2>1, MakeGoesOn DEF Temporary
  <2>3. /\ Launch(Places(s), Places("scratch")) \in GoingOn
        /\ Launch(Places("scratch"), Places(d)) \in GoingOn
    BY PartsAreFew, LaunchGoesOn DEF Temporary, Object
  <2> QED BY <2>2, <2>3, StepSequences, Zenon
<1>3. answer # "NONE" => answer \in Info
  <2>1. ColorAnswer(row, cc) # "NONE" => ColorAnswer(row, cc) \in Info
    BY DEF ColorAnswer, Info
  <2>2. answer \in {"INVALID_INPUT", ColorAnswer(row, cc)}
    BY DEF Answer
  <2> QED BY <2>1, <2>2 DEF Info
<1>4. "UNDEFINED" \in Info
  BY DEF Info
<1>5. /\ Validate(row, kind[s], kind[d]) /\ cc = row.default
      /\ row \notin {nv12_bgr, rgb_planar_yuv444}
      => answer = "NONE" /\ cc \notin row.noReturn
  <2> SUFFICES ASSUME Validate(row, kind[s], kind[d]), cc = row.default,
                      row \notin {nv12_bgr, rgb_planar_yuv444}
               PROVE  answer = "NONE" /\ cc \notin row.noReturn
    OBVIOUS
  <2>1. /\ cc \in row.colors /\ cc \notin row.noReturn
        /\ cc \notin row.failing /\ cc \notin row.throwing
    BY ScenarioTypes, DefaultColors
  <2>2. ColorAnswer(row, cc) = "NONE"
    BY <2>1 DEF ColorAnswer
  <2>3. answer = ColorAnswer(row, cc)
    BY DEF Answer
  <2> QED BY <2>1, <2>2, <2>3
<1>6. Convert(s, d, cc) =
        IF answer # "NONE" THEN <<Conclude(answer)>>
        ELSE CASE row.src \in {"P10", "P12"} -> scratch
               [] row = nv12_y -> nppCalls \o Synchronize
               [] cc \in row.noReturn -> nppCalls \o <<Conclude("UNDEFINED")>>
               [] OTHER -> nppCalls
  BY DEF Convert
<1> HIDE DEF nppCalls, answer, scratch
<1> QED BY <1>1, <1>2, <1>3, <1>4, <1>5, <1>6, StepSequences

LEMMA ResizeWork ==
  ASSUME scenario \in Scenario, NEW s \in Surface, NEW d \in Surface
  PROVE  /\ Resize(s, d) \in Seq(GoingOn \union Concluding)
         /\ kind[s].format = kind[d].format => Resize(s, d) \in Seq(GoingOn)
<1> DEFINE n == NumPlanes(kind[d].format)
           plane(i) == Launch(PlanePlaces(s, i - 1), PlanePlaces(d, i - 1))
           fits(t, o) == SizeThen(t, kind[o].size) = kind[o].size /\ kind[o].format = "NV12"
           yuv(i) == Launch({<<"src_yuv420", i>>}, {<<"dst_yuv420", i>>})
           makes == MakeIfNeeded("src_yuv420", kind[s].size)
                      \o MakeIfNeeded("dst_yuv420", kind[d].size)
           in == IF fits("src_yuv420", s) THEN <<Launch(Places(s), Places("src_yuv420"))>>
                 ELSE <<Conclude("FAIL")>>
           out == IF fits("dst_yuv420", d) THEN <<Launch(Places("dst_yuv420"), Places(d))>>
                  ELSE <<Conclude("FAIL")>>
           AnyStep == GoingOn \union Concluding
<1>k. /\ kind[s].size \in Nat \ {0} /\ kind[d].size \in Nat \ {0}
      /\ kind[s].format \in SurfaceFormat /\ kind[d].format \in SurfaceFormat
      /\ s \in Object /\ d \in Object
  BY ScenarioTypes DEF Object
<1>1. ASSUME kind[s].format = kind[d].format
      PROVE  [i \in 1 .. n |-> plane(i)] \in Seq(GoingOn)
  <2>1. n \in Nat
    BY <1>k, FormatSizes
  <2>2. ASSUME NEW i \in 1 .. n PROVE plane(i) \in GoingOn
    BY <1>1, <1>k, <2>2, PlanePlacesType, LaunchGoesOn
  <2> HIDE DEF n, plane
  <2> QED BY <2>1, <2>2
<1>2. makes \in Seq(GoingOn) /\ makes \in Seq(AnyStep)
  <2>1. makes \in Seq(GoingOn)
    BY <1>k, MakeGoesOn, StepSequences, Zenon DEF Temporary
  <2> QED BY <2>1, StepSequences
<1>3. <<yuv(0), yuv(1), yuv(2)>> \in Seq(GoingOn) /\ <<yuv(0), yuv(1), yuv(2)>> \in Seq(AnyStep)
  <2>1. ASSUME NEW i \in 0 .. 2 PROVE yuv(i) \in GoingOn
    BY LaunchGoesOn DEF Place, Temporary
  <2>2. yuv(0) \in GoingOn /\ yuv(1) \in GoingOn /\ yuv(2) \in GoingOn
    BY <2>1
  <2> HIDE DEF yuv
  <2> QED BY <2>2, StepSequences
<1>4. /\ <<Launch(Places(s), Places("src_yuv420"))>> \in Seq(GoingOn)
      /\ <<Launch(Places("dst_yuv420"), Places(d))>> \in Seq(GoingOn)
  <2>1. /\ Launch(Places(s), Places("src_yuv420")) \in GoingOn
        /\ Launch(Places("dst_yuv420"), Places(d)) \in GoingOn
    BY <1>k, PartsAreFew, LaunchGoesOn DEF Temporary
  <2> QED BY <2>1, StepSequences
<1>5. <<Conclude("FAIL")>> \in Seq(AnyStep) /\ <<Conclude("INVALID_INPUT")>> \in Seq(AnyStep)
  BY StepSequences DEF Info
<1>6. in \in Seq(AnyStep) /\ out \in Seq(AnyStep)
  BY <1>4, <1>5, StepSequences, Zenon
<1>7. kind[s].format = "NV12" => in \in Seq(GoingOn)
  BY <1>4, Zenon DEF SizeThen, NeedsMake
<1>8. kind[d].format = "NV12" => out \in Seq(GoingOn)
  BY <1>4, Zenon DEF SizeThen, NeedsMake
<1>9. ResizeSemiPlanar(s, d) = makes \o in \o <<yuv(0), yuv(1), yuv(2)>> \o out
  BY DEF ResizeSemiPlanar
<1>10. Resize(s, d) = CASE kind[s].format = "NV12" -> ResizeSemiPlanar(s, d)
         [] kind[s].format \notin {"NV12", kind[d].format} -> <<Conclude("INVALID_INPUT")>>
         [] OTHER -> [i \in 1 .. n |-> plane(i)]
  BY DEF Resize
<1>11. ResizeSemiPlanar(s, d) \in Seq(AnyStep)
  <2> HIDE DEF makes, in, out, yuv, AnyStep
  <2>1. makes \o in \in Seq(AnyStep)
    BY <1>2, <1>6, StepSequences
  <2>2. makes \o in \o <<yuv(0), yuv(1), yuv(2)>> \in Seq(AnyStep)
    BY <2>1, <1>3, StepSequences
  <2> QED BY <2>2, <1>6, <1>9, StepSequences
<1>12. kind[s].format = "NV12" /\ kind[d].format = "NV12" => ResizeSemiPlanar(s, d) \in Seq(GoingOn)
  <2> HIDE DEF makes, in, out, yuv
  <2> SUFFICES ASSUME kind[s].format = "NV12", kind[d].format = "NV12"
               PROVE  ResizeSemiPlanar(s, d) \in Seq(GoingOn)
    OBVIOUS
  <2>1. makes \o in \in Seq(GoingOn)
    BY <1>2, <1>7, StepSequences
  <2>2. makes \o in \o <<yuv(0), yuv(1), yuv(2)>> \in Seq(GoingOn)
    BY <2>1, <1>3, StepSequences
  <2> QED BY <2>2, <1>8, <1>9, StepSequences
<1> HIDE DEF n, plane
<1> QED BY <1>1, <1>5, <1>10, <1>11, <1>12, StepSequences

-----------------------------------------------------------------------------
(***************************************************************************)
(* The queue of the stream, which is appended to and performed in order.   *)
(***************************************************************************)
LEMMA QueueGrows ==
  ASSUME NEW queue \in Seq(Entry), NEW entry \in Entry, NEW id
  PROVE  /\ entry.call # id /\ Followed(queue, id) => Followed(Append(queue, entry), id)
         /\ entry.call # id /\ Absent(queue, id) => Absent(Append(queue, entry), id)
         /\ entry = Event(id) => Followed(Append(queue, entry), id)
<1> DEFINE more == Append(queue, entry)
           n == Len(queue)
<1>1. /\ n \in Nat /\ DOMAIN queue = 1 .. n /\ DOMAIN more = 1 .. n + 1
      /\ \A i \in 1 .. n : more[i] = queue[i]
      /\ more[n + 1] = entry
  BY AppendProperties, LenProperties
<1> HIDE DEF more, n
<1>2. \A i \in 1 .. n + 1 : i \in 1 .. n \/ i = n + 1
  BY <1>1
<1>3. \A i \in 1 .. n : i \in 1 .. n + 1
  BY <1>1
<1>4. ASSUME entry.call # id, Followed(queue, id) PROVE Followed(more, id)
  BY <1>1, <1>2, <1>3, <1>4 DEF Followed
<1>5. ASSUME entry.call # id, Absent(queue, id) PROVE Absent(more, id)
  BY <1>1, <1>2, <1>5 DEF Absent
<1>6. ASSUME entry = Event(id) PROVE Followed(more, id)
  BY <1>1, <1>6 DEF Followed
<1> QED BY <1>4, <1>5, <1>6 DEF more

LEMMA QueueShrinks ==
  ASSUME NEW queue \in Seq(Entry), queue # <<>>, NEW id
  PROVE  /\ Followed(queue, id) => Followed(Tail(queue), id)
         /\ Absent(queue, id) => Absent(Tail(queue), id)
         /\ Tail(queue) \in Seq(Entry)
         /\ \A i \in DOMAIN Tail(queue) : i + 1 \in DOMAIN queue /\ Tail(queue)[i] = queue[i + 1]
<1> DEFINE less == Tail(queue)
           n == Len(queue)
<1>1. /\ n \in Nat \ {0} /\ DOMAIN queue = 1 .. n /\ DOMAIN less = 1 .. n - 1
      /\ \A i \in 1 .. n - 1 : less[i] = queue[i + 1]
      /\ less \in Seq(Entry)
  BY HeadTailProperties, LenProperties, EmptySeq
<1> HIDE DEF less, n
<1>2. \A i \in 1 .. n - 1 : i + 1 \in 1 .. n
  BY <1>1
<1>3. ASSUME Followed(queue, id) PROVE Followed(less, id)
  <2> SUFFICES ASSUME NEW i \in 1 .. n - 1, less[i].call = id
               PROVE  \E j \in 1 .. n - 1 : i <= j /\ less[j] = Event(id)
    BY <1>1 DEF Followed
  <2>1. i + 1 \in 1 .. n /\ queue[i + 1].call = id
    BY <1>1, <1>2
  <2>2. PICK j \in 1 .. n : i + 1 <= j /\ queue[j] = Event(id)
    BY <1>1, <1>3, <2>1 DEF Followed
  <2>3. j - 1 \in 1 .. n - 1 /\ i <= j - 1 /\ (j - 1) + 1 = j
    BY <1>1, <2>2
  <2> QED BY <1>1, <2>2, <2>3
<1>4. ASSUME Absent(queue, id) PROVE Absent(less, id)
  BY <1>1, <1>2, <1>4 DEF Absent
<1> QED BY <1>1, <1>2, <1>3, <1>4 DEF less

\* An event that is reached has nothing of its call behind it.
LEMMA EventReached ==
  ASSUME NEW id, Followed(pending, id), ~IsPending(Event(id))
  PROVE  Absent(pending, id)
BY DEF Followed, IsPending, Absent

-----------------------------------------------------------------------------
(***************************************************************************)
(* The steps of a call.                                                    *)
(***************************************************************************)
LEMMA CallType ==
  ASSUME CallTypes, NEW t \in Thread
  PROVE  /\ call[t] \in Call
         /\ call[t].work \in Seq(GoingOn \union Concluding)
         /\ call[t].closing \in {Synchronize, <<WaitForEvent>>, <<RecordEvent>>, <<>>}
         /\ call[t].id \in Nat
BY DEF CallTypes, Call

LEMMA NoCallType ==
  ASSUME scenario \in Scenario
  PROVE  NoCall \in Call /\ NoCall.id = 0 /\ NoCall.work = <<>> /\ NoCall.closing = <<>>
<1>1. row.default \in AnyColors
  BY ScenarioTypes
<1>2. <<>> \in Seq(GoingOn \union Concluding)
  BY StepSequences
<1> QED BY <1>1, <1>2 DEF NoCall, Call, Task, Mode, Info

LEMMA HeadOfConcat ==
  ASSUME NEW S, NEW a \in Seq(S), NEW b \in Seq(S), a # <<>>
  PROVE  a \o b # <<>> /\ Head(a \o b) = Head(a) /\ Head(a) \in S /\ Tail(a) \in Seq(S)
<1>1. Len(a) \in Nat \ {0} /\ Len(b) \in Nat /\ Head(a) = a[1] /\ Head(a) \in S /\ Tail(a) \in Seq(S)
  BY HeadTailProperties, EmptySeq, LenProperties
<1>2. a \o b \in Seq(S) /\ Len(a \o b) = Len(a) + Len(b)
  BY ConcatProperties
<1>3. 1 \in 1 .. Len(a) + Len(b) /\ 1 <= Len(a) /\ Len(a) + Len(b) # 0
  BY <1>1
<1>4. (a \o b)[1] = a[1]
  BY <1>3, ConcatProperties
<1>5. a \o b # <<>>
  BY <1>2, <1>3, EmptySeq
<1> QED BY <1>1, <1>2, <1>4, <1>5, HeadTailProperties

LEMMA StepsOf ==
  ASSUME CallTypes, NEW t \in Thread
  PROVE  /\ InWork(t) => /\ Steps(t) # <<>> /\ Head(Steps(t)) = Head(call[t].work)
                         /\ Head(call[t].work) \in GoingOn \union Concluding
                         /\ Tail(call[t].work) \in Seq(GoingOn \union Concluding)
         /\ ~InWork(t) => Steps(t) = call[t].closing
         /\ Steps(t) = <<>> => call[t].work = <<>> /\ call[t].closing = <<>>
<1> DEFINE AnyStep == GoingOn \union Concluding
           a == call[t].work
           b == call[t].closing
<1>1. RecordEvent \in AnyStep /\ WaitForEvent \in AnyStep
  BY DEF GoingOn
<1>2. a \in Seq(AnyStep) /\ b \in Seq(AnyStep)
  <2>1. a \in Seq(AnyStep) /\ b \in {Synchronize, <<WaitForEvent>>, <<RecordEvent>>, <<>>}
    BY CallType
  <2>2. \A x, y \in AnyStep : <<x, y>> \in Seq(AnyStep) /\ <<x>> \in Seq(AnyStep)
    BY StepSequences, Zenon
  <2> HIDE DEF a, b, AnyStep
  <2>3. /\ <<RecordEvent, WaitForEvent>> \in Seq(AnyStep) /\ <<>> \in Seq(AnyStep)
        /\ <<WaitForEvent>> \in Seq(AnyStep) /\ <<RecordEvent>> \in Seq(AnyStep)
    BY <1>1, <2>2, StepSequences, Zenon
  <2> QED BY <2>1, <2>3, Zenon DEF Synchronize
<1> HIDE DEF AnyStep
<1>3. ASSUME InWork(t)
      PROVE  /\ Steps(t) # <<>> /\ Head(Steps(t)) = Head(a)
             /\ Head(a) \in AnyStep /\ Tail(a) \in Seq(AnyStep)
  <2>1. a # <<>>
    BY <1>3 DEF InWork
  <2> QED BY <1>2, <2>1, HeadOfConcat DEF Steps
<1>4. ASSUME ~InWork(t) PROVE Steps(t) = b
  <2>1. a = <<>>
    BY <1>4 DEF InWork
  <2>2. <<>> \o b = b
    BY <1>2, ConcatEmptySeq
  <2> QED BY <2>1, <2>2 DEF Steps
<1>5. Steps(t) = <<>> => a = <<>> /\ b = <<>>
  BY <1>3, <1>4 DEF InWork
<1> QED BY <1>3, <1>4, <1>5 DEF AnyStep

\* What closes a call only records events and waits for them.
LEMMA ClosingSteps ==
  ASSUME CallTypes, NEW t \in Thread, ~InWork(t)
  PROVE  /\ AtStep(t, "record") =>
              \/ call[t].closing = Synchronize /\ Tail(call[t].closing) = <<WaitForEvent>>
              \/ call[t].closing = <<RecordEvent>> /\ Tail(call[t].closing) = <<>>
         /\ AtStep(t, "wait") =>
              call[t].closing = <<WaitForEvent>> /\ Tail(call[t].closing) = <<>>
         /\ ~AtStep(t, "launch") /\ ~AtStep(t, "make") /\ ~AtStep(t, "conclude")
<1>1. Steps(t) = call[t].closing
  BY StepsOf
<1>2. call[t].closing \in {<<RecordEvent, WaitForEvent>>, <<WaitForEvent>>, <<RecordEvent>>, <<>>}
  BY CallType DEF Synchronize
<1>3. RecordEvent.do = "record" /\ WaitForEvent.do = "wait"
  BY DEF RecordEvent, WaitForEvent
<1>4. /\ Head(<<RecordEvent, WaitForEvent>>) = RecordEvent
      /\ Tail(<<RecordEvent, WaitForEvent>>) = <<WaitForEvent>>
      /\ Head(<<WaitForEvent>>) = WaitForEvent /\ Tail(<<WaitForEvent>>) = <<>>
      /\ Head(<<RecordEvent>>) = RecordEvent /\ Tail(<<RecordEvent>>) = <<>>
  OBVIOUS
<1> QED BY <1>1, <1>2, <1>3, <1>4, Zenon DEF AtStep, Synchronize

\* Those that open it are in its work.
LEMMA WorkSteps ==
  ASSUME CallTypes, NEW t \in Thread
  PROVE  /\ AtStep(t, "launch") =>
              /\ InWork(t) /\ Steps(t) # <<>>
              /\ Head(Steps(t)).reads \in SUBSET Place /\ Head(Steps(t)).writes \in SUBSET Place
         /\ AtStep(t, "conclude") =>
              /\ InWork(t) /\ Head(Steps(t)).info \in Info /\ Head(call[t].work) \notin GoingOn
         /\ AtStep(t, "make") => InWork(t)
<1>1. AtStep(t, "launch") \/ AtStep(t, "conclude") \/ AtStep(t, "make") => InWork(t)
  BY ClosingSteps
<1>2. InWork(t) => Head(Steps(t)) = Head(call[t].work) /\ Head(Steps(t)) \in GoingOn \union Concluding
  BY StepsOf
<1>3. \A step \in GoingOn \union Concluding :
        /\ step.do = "launch" => step.reads \in SUBSET Place /\ step.writes \in SUBSET Place
        /\ step.do = "conclude" => step.info \in Info /\ step \notin GoingOn
  BY DEF GoingOn, Concluding, RecordEvent, WaitForEvent
<1> QED BY <1>1, <1>2, <1>3 DEF AtStep

\* A call that is in progress has a number.
LEMMA RunningNumbers ==
  ASSUME CallTypes, CallsNumbered
  PROVE  Running = {t \in Thread : call[t].id # 0}
<1>1. NoCall.id = 0
  BY NoCallType DEF CallTypes
<1> QED BY <1>1 DEF Running, CallsNumbered

\* What a step of a call does to the calls: one step less, or no work any more.
Constant(u) ==
  /\ call'[u].id = call[u].id /\ call'[u].task = call[u].task
  /\ call'[u].src = call[u].src /\ call'[u].dst = call[u].dst
  /\ call'[u].mode = call[u].mode /\ call'[u].cc = call[u].cc

LEMMA StepDoneCall ==
  ASSUME CallTypes, NEW t \in Thread, Steps(t) # <<>>, StepDone(t)
  PROVE  /\ call' \in [Thread -> Call]
         /\ \A u \in Thread : Constant(u) /\ (u # t => call'[u] = call[u])
         /\ call'[t].info = call[t].info /\ call'[t].libraryFailed = call[t].libraryFailed
         /\ InWork(t) => call'[t].work = Tail(call[t].work) /\ call'[t].closing = call[t].closing
         /\ ~InWork(t) => call'[t].work = call[t].work /\ call'[t].closing = Tail(call[t].closing)
<1>1. call \in [Thread -> Call] /\ call[t] \in Call
  BY CallType DEF CallTypes
<1>2. call' = [call EXCEPT ![t] = [call[t] EXCEPT
                 !.work = IF InWork(t) THEN Tail(@) ELSE @,
                 !.closing = IF InWork(t) THEN @ ELSE Tail(@)]]
  BY <1>1 DEF StepDone, Call
<1> DEFINE next == [call[t] EXCEPT !.work = IF InWork(t) THEN Tail(@) ELSE @,
                                   !.closing = IF InWork(t) THEN @ ELSE Tail(@)]
<1>3. /\ next.id = call[t].id /\ next.task = call[t].task /\ next.src = call[t].src
      /\ next.dst = call[t].dst /\ next.mode = call[t].mode /\ next.cc = call[t].cc
      /\ next.info = call[t].info /\ next.libraryFailed = call[t].libraryFailed
      /\ next.work = (IF InWork(t) THEN Tail(call[t].work) ELSE call[t].work)
      /\ next.closing = (IF InWork(t) THEN call[t].closing ELSE Tail(call[t].closing))
  BY <1>1 DEF Call
<1>4. next \in Call
  <2>1. next.work \in Seq(GoingOn \union Concluding)
    BY <1>3, CallType, StepsOf
  <2>2. next.closing \in {Synchronize, <<WaitForEvent>>, <<RecordEvent>>, <<>>}
    <3>1. CASE InWork(t)
      BY <1>3, <3>1, CallType
    <3>2. CASE ~InWork(t)
      <4>1. call[t].closing \in {<<RecordEvent, WaitForEvent>>, <<WaitForEvent>>, <<RecordEvent>>}
        BY <3>2, CallType, StepsOf DEF Synchronize
      <4>2. /\ Tail(<<RecordEvent, WaitForEvent>>) = <<WaitForEvent>>
            /\ Tail(<<WaitForEvent>>) = <<>> /\ Tail(<<RecordEvent>>) = <<>>
        OBVIOUS
      <4>3. Tail(call[t].closing) \in {<<WaitForEvent>>, <<>>}
        BY <4>1, <4>2, Zenon
      <4> QED BY <1>3, <3>2, <4>3, Zenon
    <3> QED BY <3>1, <3>2
  <2> DEFINE work == IF InWork(t) THEN Tail(call[t].work) ELSE call[t].work
             closing == IF InWork(t) THEN call[t].closing ELSE Tail(call[t].closing)
  <2>3. /\ work \in Seq(GoingOn \union Concluding)
        /\ closing \in {Synchronize, <<WaitForEvent>>, <<RecordEvent>>, <<>>}
    BY <1>3, <2>1, <2>2, Zenon
  <2>4. next = [call[t] EXCEPT !.work = work, !.closing = closing]
    BY <1>1 DEF Call
  <2> HIDE DEF next, work, closing
  <2> QED BY <1>1, <2>3, <2>4 DEF Call
<1> HIDE DEF next
<1>5. call' = [call EXCEPT ![t] = next]
  BY <1>2, Zenon DEF next
<1>6. call'[t] = next /\ \A u \in Thread : u # t => call'[u] = call[u]
  BY <1>1, <1>5
<1> QED BY <1>1, <1>3, <1>4, <1>5, <1>6 DEF Constant

LEMMA WorkEndsCall ==
  ASSUME CallTypes, NEW t \in Thread, NEW info \in Info, NEW failed \in BOOLEAN,
         WorkEnds(t, info, failed)
  PROVE  /\ call' \in [Thread -> Call]
         /\ \A u \in Thread : Constant(u) /\ (u # t => call'[u] = call[u])
         /\ call'[t].info = info /\ call'[t].libraryFailed = failed /\ call'[t].work = <<>>
         /\ call'[t].closing = IF info = "EXCEPTION" THEN <<>> ELSE call[t].closing
<1>1. call \in [Thread -> Call] /\ call[t] \in Call
  BY CallType DEF CallTypes
<1> DEFINE next == [call[t] EXCEPT !.work = <<>>, !.info = info, !.libraryFailed = failed,
                                   !.closing = IF info = "EXCEPTION" THEN <<>> ELSE @]
<1>2. call' = [call EXCEPT ![t] = next]
  BY <1>1 DEF WorkEnds, Call
<1>3. /\ next.id = call[t].id /\ next.task = call[t].task /\ next.src = call[t].src
      /\ next.dst = call[t].dst /\ next.mode = call[t].mode /\ next.cc = call[t].cc
      /\ next.info = info /\ next.libraryFailed = failed /\ next.work = <<>>
      /\ next.closing = IF info = "EXCEPTION" THEN <<>> ELSE call[t].closing
  BY <1>1 DEF Call
<1>4. next \in Call
  <2>1. <<>> \in Seq(GoingOn \union Concluding)
    BY StepSequences
  <2> QED BY <1>1, <2>1 DEF Call
<1> HIDE DEF next
<1>5. call'[t] = next /\ \A u \in Thread : u # t => call'[u] = call[u]
  BY <1>1, <1>2
<1> QED BY <1>1, <1>2, <1>3, <1>4, <1>5 DEF Constant

-----------------------------------------------------------------------------
(***************************************************************************)
(* The steps, by what they do.                                             *)
(***************************************************************************)
\* A call begins: it has a number of its own, and its work is its task's.
LEMMA Beginning ==
  ASSUME CallTypes, CallsNumbered, NEW t \in Thread, BeginAny(t)
  PROVE  \E next \in Call :
           /\ t \notin Running /\ calls' = calls + 1 /\ call' = [call EXCEPT ![t] = next]
           /\ next.id = calls + 1
           /\ next.mode = "blocking" => next.closing = Synchronize
           /\ next.mode = "event" /\ next.task = "resizer" => next.closing = <<RecordEvent>>
           /\ next.info = "SUCCESS" /\ ~next.libraryFailed
           /\ Fitting(t)' => next.work \in Seq(GoingOn)
           /\ UNCHANGED pending \/ pending' = Append(pending, Event(calls + 1))
           /\ UNCHANGED <<scenario, left>>
<1> DEFINE Conclusion == \E next \in Call :
           /\ t \notin Running /\ calls' = calls + 1 /\ call' = [call EXCEPT ![t] = next]
           /\ next.id = calls + 1
           /\ next.mode = "blocking" => next.closing = Synchronize
           /\ next.mode = "event" /\ next.task = "resizer" => next.closing = <<RecordEvent>>
           /\ next.info = "SUCCESS" /\ ~next.libraryFailed
           /\ Fitting(t)' => next.work \in Seq(GoingOn)
           /\ UNCHANGED pending \/ pending' = Append(pending, Event(calls + 1))
           /\ UNCHANGED <<scenario, left>>
<1>s. scenario \in Scenario /\ calls \in Nat /\ call \in [Thread -> Call]
  BY DEF CallTypes
<1>k. /\ row.default \in AnyColors /\ scenario.colors \subseteq AnyColors
      /\ Surface \subseteq Object /\ HostArray \subseteq Object
  BY <1>s, ScenarioTypes DEF Object
<1>1. ASSUME NEW task \in Task, NEW s \in Object, NEW d \in Object, NEW cc \in AnyColors,
             NEW mode \in Mode, NEW early \in BOOLEAN,
             NEW work \in Seq(GoingOn \union Concluding),
             NEW closing \in {Synchronize, <<WaitForEvent>>, <<RecordEvent>>, <<>>},
             Begin(t, task, s, d, cc, mode, early, work, closing),
             mode = "blocking" => closing = Synchronize,
             mode = "event" /\ task = "resizer" => closing = <<RecordEvent>>,
             /\ CASE task = "converter" -> Validate(row, kind[s], kind[d]) /\ cc = row.default
                  [] task = "resizer" -> kind[s].format = kind[d].format
                  [] OTHER -> kind[s] = kind[d]
             /\ ~(task = "converter" /\ row \in {nv12_bgr, rgb_planar_yuv444})
             => work \in Seq(GoingOn)
      PROVE  Conclusion
  <2> DEFINE next == [id |-> calls + 1, task |-> task, src |-> s, dst |-> d, mode |-> mode,
                      cc |-> cc, work |-> work, closing |-> closing, info |-> "SUCCESS",
                      libraryFailed |-> FALSE]
  <2>1. next \in Call
    BY <1>s DEF Call, Info
  <2>2. /\ t \notin Running /\ calls' = calls + 1 /\ call' = [call EXCEPT ![t] = next]
        /\ UNCHANGED pending \/ pending' = Append(pending, Event(calls + 1))
        /\ UNCHANGED <<scenario, left>>
    BY <1>1 DEF Begin, Enqueue
  <2>3. row' = row /\ kind' = kind
    BY <2>2 DEF row, kind
  <2>4. call'[t] = next
    BY <1>s, <2>2
  <2>5. Fitting(t)' => next.work \in Seq(GoingOn)
    BY <1>1, <2>3, <2>4 DEF Fitting, ValidRun
  <2> QED BY <1>1, <2>1, <2>2, <2>5
<1> HIDE DEF Conclusion
<1>m. "blocking" \in Mode /\ "event" \in Mode /\ "no event" \in Mode
  BY DEF Mode
<1>2. ASSUME NEW array \in HostArray, NEW s \in Surface, BeginUpload(t, array, s)
      PROVE  Conclusion
  <2>1. /\ Begin(t, "uploader", array, s, row.default, "blocking", FALSE,
                Upload(array, s), Synchronize)
        /\ Upload(array, s) \in Seq(GoingOn \union Concluding)
        /\ kind[array] = kind[s] => Upload(array, s) \in Seq(GoingOn)
        /\ "uploader" \in Task
    BY <1>s, <1>2, UploadWork DEF BeginUpload, Task
  <2> QED BY <1>1, <1>k, <1>m, <2>1
<1>3. ASSUME NEW array \in HostArray, NEW s \in Surface, BeginDownload(t, s, array)
      PROVE  Conclusion
  <2>1. /\ Begin(t, "downloader", s, array, row.default, "blocking", FALSE,
                Download(s, array), Synchronize)
        /\ Download(s, array) \in Seq(GoingOn \union Concluding)
        /\ kind[array] = kind[s] => Download(s, array) \in Seq(GoingOn)
        /\ "downloader" \in Task
    BY <1>s, <1>3, DownloadWork DEF BeginDownload, Task
  <2> QED BY <1>1, <1>k, <1>m, <2>1
<1>c. ASSUME NEW mode \in Mode
      PROVE  /\ Closing(mode) \in {Synchronize, <<WaitForEvent>>, <<RecordEvent>>, <<>>}
             /\ mode = "blocking" => Closing(mode) = Synchronize
             /\ mode = "event" => Closing(mode) = <<RecordEvent>>
  BY DEF Mode, Closing
<1>4. ASSUME NEW s \in Surface, NEW d \in Surface, NEW mode \in Mode, BeginResize(t, s, d, mode)
      PROVE  Conclusion
  <2>1. /\ Begin(t, "resizer", s, d, row.default, mode, FALSE, Resize(s, d), Closing(mode))
        /\ Resize(s, d) \in Seq(GoingOn \union Concluding)
        /\ kind[s].format = kind[d].format => Resize(s, d) \in Seq(GoingOn)
        /\ "resizer" \in Task
    BY <1>s, <1>4, ResizeWork DEF BeginResize, Task
  <2> QED BY <1>1, <1>c, <1>k, <2>1
<1>5. ASSUME NEW s \in Surface, NEW d \in Surface, NEW mode \in Mode,
             NEW cc \in scenario.colors, NEW early \in BOOLEAN,
             BeginConvert(t, s, d, cc, mode, early)
      PROVE  Conclusion
  <2> DEFINE closing == IF early THEN <<>> ELSE Closing(mode)
  <2>1. /\ Begin(t, "converter", s, d, cc, mode, early, Convert(s, d, cc), closing)
        /\ early => mode = "event"
    BY <1>5 DEF BeginConvert
  <2>2. /\ Convert(s, d, cc) \in Seq(GoingOn \union Concluding)
        /\ /\ Validate(row, kind[s], kind[d]) /\ cc = row.default
           /\ row \notin {nv12_bgr, rgb_planar_yuv444}
           => Convert(s, d, cc) \in Seq(GoingOn)
        /\ "converter" \in Task /\ cc \in AnyColors
    BY <1>k, <1>s, ConvertWork DEF Task
  <2>3. /\ closing \in {Synchronize, <<WaitForEvent>>, <<RecordEvent>>, <<>>}
        /\ mode = "blocking" => closing = Synchronize
    BY <1>c, <2>1
  <2> HIDE DEF closing
  <2> QED BY <1>1, <1>k, <2>1, <2>2, <2>3
<1> QED BY <1>2, <1>3, <1>4, <1>5 DEF BeginAny, Conclusion

\* A call goes on: it enqueues something of its own, or nothing, and then it is
\* in its work or has waited for its event.
Advances(t) ==
  /\ Steps(t) # <<>> /\ StepDone(t) /\ UNCHANGED <<scenario, calls, left>>
  /\ \/ /\ UNCHANGED pending
        /\ ~InWork(t) => AtStep(t, "wait") /\ ~IsPending(Event(call[t].id))
     \/ \E entry \in Entry :
          /\ entry.call = call[t].id /\ pending' = Append(pending, entry)
          /\ ~InWork(t) => AtStep(t, "record") /\ entry = Event(call[t].id)

\* Its work ends early: a library call failed or it has come to a conclusion.
Stops(t) ==
  /\ Steps(t) # <<>> /\ UNCHANGED <<scenario, calls, left, pending>>
  /\ \E info \in Info, failed \in BOOLEAN :
       /\ WorkEnds(t, info, failed)
       /\ failed \/ (InWork(t) /\ Head(call[t].work) \notin GoingOn)

LEMMA EntryTypes ==
  ASSUME NEW id \in Nat, NEW reads \in SUBSET Place, NEW writes \in SUBSET Place
  PROVE  /\ Event(id) \in Entry /\ Event(id).call = id
         /\ Work(id, reads, writes) \in Entry /\ Work(id, reads, writes).call = id
BY DEF Event, Work, Entry

LEMMA CallStepKinds ==
  ASSUME CallTypes, NEW t \in Thread, CallStep(t)
  PROVE  Advances(t) \/ Stops(t) \/ Return(t)
<1> USE DEF streamVars
<1>i. call[t].id \in Nat
  BY CallType
<1>a. \A do : AtStep(t, do) => Steps(t) # <<>>
  BY DEF AtStep
<1>1. CASE LaunchSucceeds(t)
  <2> DEFINE entry == Work(call[t].id, Head(Steps(t)).reads, Head(Steps(t)).writes)
  <2>1. /\ AtStep(t, "launch") /\ pending' = Append(pending, entry) /\ StepDone(t)
        /\ UNCHANGED <<scenario, calls, left>>
    BY <1>1 DEF LaunchSucceeds, Enqueue
  <2>2. /\ InWork(t) /\ Head(Steps(t)).reads \in SUBSET Place
        /\ Head(Steps(t)).writes \in SUBSET Place
    BY <2>1, WorkSteps
  <2>3. entry \in Entry /\ entry.call = call[t].id
    BY <1>i, <2>2, EntryTypes
  <2> HIDE DEF entry
  <2> QED BY <1>a, <2>1, <2>2, <2>3 DEF Advances
<1>2. CASE MakeSucceeds(t)
  <2>1. /\ AtStep(t, "make") /\ StepDone(t) /\ UNCHANGED <<pending, scenario, calls, left>>
    BY <1>2 DEF MakeSucceeds
  <2> QED BY <1>a, <2>1, WorkSteps DEF Advances
<1>3. CASE Record(t)
  <2>1. /\ AtStep(t, "record") /\ pending' = Append(pending, Event(call[t].id)) /\ StepDone(t)
        /\ UNCHANGED <<scenario, calls, left>>
    BY <1>3 DEF Record, Enqueue
  <2>2. Event(call[t].id) \in Entry /\ Event(call[t].id).call = call[t].id
    BY <1>i, EntryTypes
  <2> QED BY <1>a, <2>1, <2>2 DEF Advances
<1>4. CASE Wait(t)
  <2>1. /\ AtStep(t, "wait") /\ ~IsPending(Event(call[t].id)) /\ StepDone(t)
        /\ UNCHANGED <<pending, scenario, calls, left>>
    BY <1>4 DEF Wait
  <2> QED BY <1>a, <2>1 DEF Advances
<1>5. CASE TaskFails(t)
  <2>1. /\ Steps(t) # <<>> /\ WorkEnds(t, FailureInfo(t), TRUE)
        /\ UNCHANGED <<pending, scenario, calls, left>>
    BY <1>a, <1>5 DEF TaskFails
  <2>2. FailureInfo(t) \in Info
    BY DEF FailureInfo, Info
  <2> QED BY <2>1, <2>2 DEF Stops
<1>6. CASE StepThrows(t)
  <2>1. /\ Steps(t) # <<>> /\ WorkEnds(t, "EXCEPTION", TRUE)
        /\ UNCHANGED <<pending, scenario, calls, left>>
    BY <1>a, <1>6 DEF StepThrows
  <2>2. "EXCEPTION" \in Info
    BY DEF Info
  <2> QED BY <2>1, <2>2 DEF Stops
<1>7. CASE ConcludeWork(t)
  <2>1. /\ AtStep(t, "conclude") /\ WorkEnds(t, Head(Steps(t)).info, FALSE)
        /\ UNCHANGED <<pending, scenario, calls, left>>
    BY <1>7 DEF ConcludeWork
  <2>2. /\ Head(Steps(t)).info \in Info /\ InWork(t) /\ Head(call[t].work) \notin GoingOn
    BY <2>1, WorkSteps
  <2> QED BY <1>a, <2>1, <2>2 DEF Stops
<1> QED BY <1>1, <1>2, <1>3, <1>4, <1>5, <1>6, <1>7 DEF CallStep

\* A call in progress has steps; one that returns has none left.
LEMMA StepsAreOfRunning ==
  ASSUME CallTypes, NEW t \in Thread, Steps(t) # <<>>
  PROVE  t \in Running
<1>1. NoCall.work = <<>> /\ NoCall.closing = <<>>
  BY NoCallType DEF CallTypes
<1> QED BY <1>1, StepsOf DEF Running, InWork

-----------------------------------------------------------------------------
(***************************************************************************)
(* The parts of the invariant.                                             *)
(***************************************************************************)
\* Between its beginning and its return a call stays what it is.
LEMMA AmongCalls ==
  ASSUME CallTypes, CallsNumbered, NEW t \in Thread, Advances(t) \/ Stops(t)
  PROVE  /\ t \in Running /\ call' \in [Thread -> Call] /\ Running' = Running
         /\ \A u \in Thread : Constant(u) /\ (u # t => call'[u] = call[u])
         /\ UNCHANGED <<scenario, calls, left>>
         /\ \/ UNCHANGED pending
            \/ \E entry \in Entry : entry.call = call[t].id /\ pending' = Append(pending, entry)
<1>1. /\ call' \in [Thread -> Call]
      /\ \A u \in Thread : Constant(u) /\ (u # t => call'[u] = call[u])
  BY StepDoneCall, WorkEndsCall DEF Advances, Stops
<1>2. t \in Running /\ UNCHANGED <<scenario, calls, left>>
  BY StepsAreOfRunning DEF Advances, Stops
<1>3. NoCall' = NoCall /\ NoCall.id = 0
  BY <1>2, NoCallType DEF CallTypes, NoCall, row
<1>4. \A u \in Running : call[u].id # 0
  BY RunningNumbers
<1>5. \A u \in Thread : u \in Running' <=> u \in Running
  <2> TAKE u \in Thread
  <2>1. CASE u = t
    <3>1. call'[t].id # 0
      BY <1>1, <1>2, <1>4 DEF Constant
    <3> QED BY <1>2, <1>3, <2>1, <3>1 DEF Running
  <2>2. CASE u # t
    BY <1>1, <1>3, <2>2 DEF Running
  <2> QED BY <2>1, <2>2
<1>6. Running' = Running
  BY <1>5 DEF Running
<1> QED BY <1>1, <1>2, <1>6 DEF Advances, Stops

\* A beginning adds a call to those in progress.
LEMMA CallBegun ==
  ASSUME CallTypes, CallsNumbered, NEW t \in Thread, t \notin Running, NEW next \in Call,
         next.id = calls + 1, call' = [call EXCEPT ![t] = next], UNCHANGED scenario
  PROVE  /\ call' \in [Thread -> Call] /\ Running' = Running \union {t}
         /\ call'[t] = next /\ \A u \in Thread \ {t} : call'[u] = call[u]
<1>1. /\ call' \in [Thread -> Call] /\ call'[t] = next
      /\ \A u \in Thread \ {t} : call'[u] = call[u]
  BY DEF CallTypes
<1>2. NoCall' = NoCall /\ NoCall.id = 0
  BY NoCallType DEF CallTypes, NoCall, row
<1>3. calls + 1 # 0
  BY DEF CallTypes
<1>4. t \in Running'
  BY <1>1, <1>2, <1>3 DEF Running
<1> QED BY <1>1, <1>2, <1>4 DEF Running

\* A return takes it from them.
LEMMA CallReturned ==
  ASSUME CallTypes, NEW t \in Thread, Return(t)
  PROVE  /\ t \in Running /\ call[t].work = <<>> /\ call[t].closing = <<>>
         /\ call' \in [Thread -> Call] /\ Running' = Running \ {t}
         /\ \A u \in Thread \ {t} : call'[u] = call[u]
         /\ UNCHANGED <<pending, scenario, calls>>
         /\ \/ call[t].mode = "blocking" /\ call[t].info # "EXCEPTION" /\ left' = left
            \/ left' = left \union
                 {[id |-> call[t].id, task |-> call[t].task,
                   event |-> call[t].mode = "event" /\ call[t].info # "EXCEPTION"]}
<1>1. /\ t \in Running /\ Steps(t) = <<>> /\ call' = [call EXCEPT ![t] = NoCall]
      /\ UNCHANGED <<pending, scenario, calls>>
  BY DEF Return, Returning, streamVars
<1>2. NoCall' = NoCall /\ NoCall \in Call
  BY <1>1, NoCallType DEF CallTypes, NoCall, row
<1>3. /\ call' \in [Thread -> Call] /\ call'[t] = NoCall
      /\ \A u \in Thread \ {t} : call'[u] = call[u]
  BY <1>1, <1>2 DEF CallTypes
<1>4. Running' = Running \ {t}
  BY <1>2, <1>3 DEF Running
<1>5. \/ call[t].mode = "blocking" /\ call[t].info # "EXCEPTION" /\ left' = left
      \/ left' = left \union
           {[id |-> call[t].id, task |-> call[t].task,
             event |-> call[t].mode = "event" /\ call[t].info # "EXCEPTION"]}
  BY Zenon DEF Return
<1> QED BY <1>1, <1>3, <1>4, <1>5, StepsOf

\* What is in the queue after it changed was there, or was appended.
LEMMA QueueContents ==
  ASSUME NEW queue \in Seq(Entry), NEW entry \in Entry
  PROVE  /\ Append(queue, entry) \in Seq(Entry)
         /\ \A i \in DOMAIN Append(queue, entry) :
              \/ Append(queue, entry)[i] = entry
              \/ \E j \in DOMAIN queue : Append(queue, entry)[i] = queue[j]
         /\ queue # <<>> => \A i \in DOMAIN Tail(queue) : \E j \in DOMAIN queue : Tail(queue)[i] = queue[j]
<1> DEFINE more == Append(queue, entry)
<1>1. /\ more \in Seq(Entry) /\ Len(queue) \in Nat
      /\ DOMAIN queue = 1 .. Len(queue) /\ DOMAIN more = 1 .. Len(queue) + 1
      /\ \A i \in 1 .. Len(queue) : more[i] = queue[i]
      /\ more[Len(queue) + 1] = entry
  BY AppendProperties, LenProperties
<1> HIDE DEF more
<1>2. \A i \in 1 .. Len(queue) + 1 : i \in 1 .. Len(queue) \/ i = Len(queue) + 1
  BY <1>1
<1>3. \A i \in DOMAIN more : more[i] = entry \/ \E j \in DOMAIN queue : more[i] = queue[j]
  BY <1>1, <1>2
<1>4. queue # <<>> => \A i \in DOMAIN Tail(queue) : \E j \in DOMAIN queue : Tail(queue)[i] = queue[j]
  BY QueueShrinks
<1> QED BY <1>1, <1>3, <1>4 DEF more

\* The queue is only appended to and performed.
LEMMA StepKinds ==
  ASSUME CallTypes, [Next]_vars
  PROVE  \/ UNCHANGED <<scenario, call, calls, left, pending>>
         \/ /\ pending # <<>> /\ pending' = Tail(pending)
            /\ UNCHANGED <<scenario, call, calls, left>>
         \/ \E t \in Thread : BeginAny(t) \/ Advances(t) \/ Stops(t) \/ Return(t)
<1>1. CASE UNCHANGED vars
  BY <1>1 DEF vars, streamVars
<1>2. CASE GpuPerforms
  BY <1>2 DEF GpuPerforms, Perform
<1>3. ASSUME NEW t \in Thread, CallStep(t)
      PROVE  Advances(t) \/ Stops(t) \/ Return(t)
  BY <1>3, CallStepKinds
<1> QED BY <1>1, <1>2, <1>3 DEF Next

LEMMA TypesStep == ASSUME CallTypes, CallsNumbered, [Next]_vars PROVE CallTypes'
<1>t. /\ scenario \in Scenario /\ call \in [Thread -> Call] /\ calls \in Nat
      /\ pending \in Seq(Entry) /\ left \in SUBSET Left
  BY DEF CallTypes
<1>1. CASE UNCHANGED <<scenario, call, calls, left, pending>>
  BY <1>1 DEF CallTypes
<1>2. CASE pending # <<>> /\ pending' = Tail(pending) /\ UNCHANGED <<scenario, call, calls, left>>
  BY <1>t, <1>2, QueueShrinks DEF CallTypes
<1>3. ASSUME NEW t \in Thread, BeginAny(t) PROVE CallTypes'
  <2>1. PICK next \in Call :
           /\ t \notin Running /\ calls' = calls + 1 /\ call' = [call EXCEPT ![t] = next]
           /\ UNCHANGED pending \/ pending' = Append(pending, Event(calls + 1))
           /\ UNCHANGED <<scenario, left>>
    BY <1>3, Beginning
  <2>0. calls + 1 \in Nat
    BY <1>t
  <2>2. calls + 1 \in Nat /\ Event(calls + 1) \in Entry
    BY <2>0, EntryTypes
  <2>3. pending' \in Seq(Entry)
    BY <1>t, <2>1, <2>2, QueueContents
  <2> QED BY <1>t, <2>1, <2>2, <2>3 DEF CallTypes
<1>4. ASSUME NEW t \in Thread, Advances(t) \/ Stops(t) PROVE CallTypes'
  <2>1. /\ call' \in [Thread -> Call] /\ UNCHANGED <<scenario, calls, left>>
        /\ UNCHANGED pending \/ \E entry \in Entry : pending' = Append(pending, entry)
    BY <1>4, AmongCalls
  <2>2. pending' \in Seq(Entry)
    BY <1>t, <2>1, QueueContents
  <2> QED BY <1>t, <2>1, <2>2 DEF CallTypes
<1>5. ASSUME NEW t \in Thread, Return(t) PROVE CallTypes'
  <2>1. call[t].id \in Nat /\ call[t].task \in Task
    BY <1>t DEF Call
  <2>2. [id |-> call[t].id, task |-> call[t].task,
         event |-> call[t].mode = "event" /\ call[t].info # "EXCEPTION"] \in Left
    <3>1. (call[t].mode = "event" /\ call[t].info # "EXCEPTION") \in BOOLEAN
      OBVIOUS
    <3> QED BY <2>1, <3>1, Zenon DEF Left
  <2>3. left' \in SUBSET Left
    BY <1>5, <1>t, <2>2, CallReturned
  <2> QED BY <1>5, <1>t, <2>3, CallReturned DEF CallTypes
<1> QED BY <1>1, <1>2, <1>3, <1>4, <1>5, StepKinds

LEMMA NumbersStep == ASSUME CallTypes, CallsNumbered, [Next]_vars PROVE CallsNumbered'
<1>t. /\ calls \in Nat /\ pending \in Seq(Entry) /\ call \in [Thread -> Call]
      /\ \A u \in Thread : call[u].id \in Nat
  BY CallType DEF CallTypes
<1>n. /\ \A u \in Running : call[u].id \in 1 .. calls
      /\ \A u, v \in Running : call[u].id = call[v].id => u = v
      /\ \A c \in left : c.id \in 1 .. calls /\ \A u \in Running : call[u].id # c.id
      /\ \A i \in DOMAIN pending : pending[i].call \in 1 .. calls
  BY DEF CallsNumbered
<1>r. Running \subseteq Thread
  BY DEF Running
<1>1. CASE UNCHANGED <<scenario, call, calls, left, pending>>
  <2>1. Running' = Running
    BY <1>1 DEF Running, NoCall, row
  <2> QED BY <1>1, <1>n, <2>1 DEF CallsNumbered
<1>2. CASE pending # <<>> /\ pending' = Tail(pending) /\ UNCHANGED <<scenario, call, calls, left>>
  <2>1. Running' = Running
    BY <1>2 DEF Running, NoCall, row
  <2>2. \A i \in DOMAIN pending' : \E j \in DOMAIN pending : pending'[i] = pending[j]
    BY <1>t, <1>2, QueueShrinks
  <2>3. \A i \in DOMAIN pending' : pending'[i].call \in 1 .. calls
    BY <1>n, <2>2
  <2> QED BY <1>2, <1>n, <2>1, <2>3 DEF CallsNumbered
<1>3. ASSUME NEW t \in Thread, BeginAny(t) PROVE CallsNumbered'
  <2>1. PICK next \in Call :
           /\ t \notin Running /\ calls' = calls + 1 /\ call' = [call EXCEPT ![t] = next]
           /\ next.id = calls + 1
           /\ UNCHANGED pending \/ pending' = Append(pending, Event(calls + 1))
           /\ UNCHANGED <<scenario, left>>
    BY <1>3, Beginning
  <2>2. /\ Running' = Running \union {t} /\ call'[t].id = calls + 1
        /\ \A u \in Running : call'[u] = call[u]
    BY <1>r, <2>1, CallBegun
  <2>3. /\ calls + 1 \in Nat /\ calls + 1 \in 1 .. calls + 1
        /\ \A n \in 1 .. calls : n \in 1 .. calls + 1 /\ n # calls + 1
    BY <1>t
  <2>4. Event(calls + 1) \in Entry /\ Event(calls + 1).call = calls + 1
    BY <2>3, EntryTypes
  <2>5. \A i \in DOMAIN pending' : pending'[i].call = calls + 1 \/ \E j \in DOMAIN pending : pending'[i] = pending[j]
    BY <1>t, <2>1, <2>4, QueueContents
  <2>6. \A i \in DOMAIN pending' : pending'[i].call \in 1 .. calls + 1
    BY <1>n, <2>3, <2>5
  <2>7. \A u \in Running' : call'[u].id \in 1 .. calls + 1
    BY <1>n, <2>2, <2>3
  <2>8. \A u, v \in Running' : call'[u].id = call'[v].id => u = v
    BY <1>n, <2>2, <2>3
  <2>9. \A c \in left : c.id \in 1 .. calls + 1 /\ \A u \in Running' : call'[u].id # c.id
    BY <1>n, <2>2, <2>3
  <2> QED BY <2>1, <2>6, <2>7, <2>8, <2>9 DEF CallsNumbered
<1>4. ASSUME NEW t \in Thread, Advances(t) \/ Stops(t) PROVE CallsNumbered'
  <2>1. /\ t \in Running /\ Running' = Running /\ UNCHANGED <<calls, left>>
        /\ \A u \in Thread : call'[u].id = call[u].id
        /\ \/ UNCHANGED pending
           \/ \E entry \in Entry : entry.call = call[t].id /\ pending' = Append(pending, entry)
    BY <1>4, AmongCalls DEF Constant
  <2>2. \A i \in DOMAIN pending' : \/ pending'[i].call = call[t].id
                                   \/ \E j \in DOMAIN pending : pending'[i] = pending[j]
    BY <1>t, <2>1, QueueContents
  <2>3. \A i \in DOMAIN pending' : pending'[i].call \in 1 .. calls
    BY <1>n, <2>1, <2>2
  <2>4. \A u \in Running : call'[u].id = call[u].id
    BY <1>r, <2>1
  <2> QED BY <1>n, <2>1, <2>3, <2>4 DEF CallsNumbered
<1>5. ASSUME NEW t \in Thread, Return(t) PROVE CallsNumbered'
  <2>1. /\ t \in Running /\ Running' = Running \ {t} /\ UNCHANGED <<calls, pending>>
        /\ \A u \in Running' : call'[u] = call[u] /\ u \in Running /\ u # t
        /\ \A c \in left' : c \in left \/ c.id = call[t].id
    BY <1>5, <1>r, CallReturned
  <2> QED BY <1>n, <2>1 DEF CallsNumbered
<1> QED BY <1>1, <1>2, <1>3, <1>4, <1>5, StepKinds

\* Whatever is in the queue is of a call in progress, or of one that did not
\* wait when it returned.
LEMMA OwnedStep ==
  ASSUME CallTypes, CallsNumbered, CallsClosed, BlockingCallsLeaveNothing, [Next]_vars
  PROVE  BlockingCallsLeaveNothing'
<1> DEFINE owners == {call[u].id : u \in Running} \union {c.id : c \in left}
<1>t. /\ calls \in Nat /\ pending \in Seq(Entry) /\ Running \subseteq Thread
  BY DEF CallTypes, Running
<1>o. \A i \in DOMAIN pending : pending[i].call \in owners
  BY DEF BlockingCallsLeaveNothing
<1>s. SUFFICES \A i \in DOMAIN pending' : pending'[i].call \in owners'
  BY DEF BlockingCallsLeaveNothing
<1>1. CASE UNCHANGED <<scenario, call, calls, left, pending>>
  <2>1. Running' = Running
    BY <1>1 DEF Running, NoCall, row
  <2> QED BY <1>1, <1>o, <2>1
<1>2. CASE pending # <<>> /\ pending' = Tail(pending) /\ UNCHANGED <<scenario, call, calls, left>>
  <2>1. Running' = Running
    BY <1>2 DEF Running, NoCall, row
  <2>2. \A i \in DOMAIN pending' : \E j \in DOMAIN pending : pending'[i] = pending[j]
    BY <1>t, <1>2, QueueShrinks
  <2>3. owners' = owners
    BY <1>2, <2>1
  <2> QED BY <1>o, <2>2, <2>3
<1>3. ASSUME NEW t \in Thread, BeginAny(t)
      PROVE  \A i \in DOMAIN pending' : pending'[i].call \in owners'
  <2>1. PICK next \in Call :
           /\ t \notin Running /\ calls' = calls + 1 /\ call' = [call EXCEPT ![t] = next]
           /\ next.id = calls + 1
           /\ UNCHANGED pending \/ pending' = Append(pending, Event(calls + 1))
           /\ UNCHANGED <<scenario, left>>
    BY <1>3, Beginning
  <2>2. /\ Running' = Running \union {t} /\ call'[t].id = calls + 1
        /\ \A u \in Running : call'[u] = call[u]
    BY <1>t, <2>1, CallBegun
  <2>3. Event(calls + 1) \in Entry /\ Event(calls + 1).call = calls + 1
    BY <1>t, EntryTypes
  <2>4. \A i \in DOMAIN pending' : pending'[i].call = calls + 1 \/ \E j \in DOMAIN pending : pending'[i] = pending[j]
    BY <1>t, <2>1, <2>3, QueueContents
  <2>5. owners \subseteq owners' /\ calls + 1 \in owners'
    BY <2>1, <2>2
  <2> QED BY <1>o, <2>4, <2>5
<1>4. ASSUME NEW t \in Thread, Advances(t) \/ Stops(t)
      PROVE  \A i \in DOMAIN pending' : pending'[i].call \in owners'
  <2>1. /\ t \in Running /\ Running' = Running /\ UNCHANGED left
        /\ \A u \in Running : call'[u].id = call[u].id
        /\ \/ UNCHANGED pending
           \/ \E entry \in Entry : entry.call = call[t].id /\ pending' = Append(pending, entry)
    BY <1>4, <1>t, AmongCalls DEF Constant
  <2>2. \A i \in DOMAIN pending' : \/ pending'[i].call = call[t].id
                                   \/ \E j \in DOMAIN pending : pending'[i] = pending[j]
    BY <1>t, <2>1, QueueContents
  <2>3. owners' = owners /\ call[t].id \in owners
    BY <2>1
  <2> QED BY <1>o, <2>2, <2>3
<1>5. ASSUME NEW t \in Thread, Return(t)
      PROVE  \A i \in DOMAIN pending' : pending'[i].call \in owners'
  <2>0. \/ call[t].mode = "blocking" /\ call[t].info # "EXCEPTION" /\ left' = left
        \/ left \subseteq left' /\ \E c \in left' : c.id = call[t].id
    <3> DEFINE c == [id |-> call[t].id, task |-> call[t].task,
                     event |-> call[t].mode = "event" /\ call[t].info # "EXCEPTION"]
    <3>1. c.id = call[t].id
      OBVIOUS
    <3>2. \/ call[t].mode = "blocking" /\ call[t].info # "EXCEPTION" /\ left' = left
          \/ left' = left \union {c}
      BY <1>5, CallReturned, Zenon
    <3> HIDE DEF c
    <3> QED BY <3>1, <3>2
  <2>1. /\ t \in Running /\ call[t].work = <<>> /\ call[t].closing = <<>>
        /\ Running' = Running \ {t} /\ UNCHANGED pending
        /\ \A u \in Running \ {t} : call'[u] = call[u]
        /\ left \subseteq left'
        /\ \/ call[t].mode = "blocking" /\ call[t].info # "EXCEPTION"
           \/ \E c \in left' : c.id = call[t].id
    BY <1>5, <1>t, <2>0, CallReturned
  <2>2. \A id \in owners : id \in owners' \/ id = call[t].id
    BY <2>1
  <2>3. \/ call[t].id \in owners'
        \/ Absent(pending, call[t].id)
    BY <2>1 DEF CallsClosed, ClosedBlocking, Synchronize
  <2> QED BY <1>o, <2>1, <2>2, <2>3 DEF Absent
<1> QED BY <1>1, <1>2, <1>3, <1>4, <1>5, StepKinds

\* How a call waits survives what others enqueue and what the GPU performs.
LEMMA ClosedKept ==
  ASSUME NEW queue \in Seq(Entry), NEW c, NEW next,
         c.closing = next.closing, c.work = next.work, c.info = next.info, c.id = next.id
  PROVE  /\ \A entry \in Entry : entry.call # c.id =>
              /\ ClosedBlocking(c, queue) => ClosedBlocking(next, Append(queue, entry))
              /\ ClosedEvent(c, queue) => ClosedEvent(next, Append(queue, entry))
         /\ queue # <<>> =>
              /\ ClosedBlocking(c, queue) => ClosedBlocking(next, Tail(queue))
              /\ ClosedEvent(c, queue) => ClosedEvent(next, Tail(queue))
<1>1. ASSUME NEW entry \in Entry, entry.call # c.id
      PROVE  /\ ClosedBlocking(c, queue) => ClosedBlocking(next, Append(queue, entry))
             /\ ClosedEvent(c, queue) => ClosedEvent(next, Append(queue, entry))
  <2>1. /\ Followed(queue, c.id) => Followed(Append(queue, entry), c.id)
        /\ Absent(queue, c.id) => Absent(Append(queue, entry), c.id)
    BY <1>1, QueueGrows
  <2> QED BY <2>1, Zenon DEF ClosedBlocking, ClosedEvent
<1>2. ASSUME queue # <<>>
      PROVE  /\ ClosedBlocking(c, queue) => ClosedBlocking(next, Tail(queue))
             /\ ClosedEvent(c, queue) => ClosedEvent(next, Tail(queue))
  <2>1. /\ Followed(queue, c.id) => Followed(Tail(queue), c.id)
        /\ Absent(queue, c.id) => Absent(Tail(queue), c.id)
    BY <1>2, QueueShrinks
  <2> QED BY <2>1, Zenon DEF ClosedBlocking, ClosedEvent
<1> QED BY <1>1, <1>2

LEMMA NotAppended ==
  ASSUME NEW queue \in Seq(Entry), NEW entry \in Entry
  PROVE  Append(queue, entry) # queue
BY AppendProperties, LenProperties

LEMMA ClosedStep ==
  ASSUME CallTypes, CallsNumbered, CallsClosed, [Next]_vars
  PROVE  CallsClosed'
<1>t. /\ calls \in Nat /\ pending \in Seq(Entry) /\ Running \subseteq Thread
      /\ \A u \in Running : call[u].id \in 1 .. calls
      /\ \A u, v \in Running : call[u].id = call[v].id => u = v
  BY DEF CallTypes, Running, CallsNumbered
<1>c. \A u \in Running :
        /\ call[u].mode = "blocking" => ClosedBlocking(call[u], pending)
        /\ call[u].mode = "event" /\ call[u].task = "resizer" => ClosedEvent(call[u], pending)
  BY DEF CallsClosed
<1>s. SUFFICES \A u \in Running' :
        /\ call'[u].mode = "blocking" => ClosedBlocking(call'[u], pending')
        /\ call'[u].mode = "event" /\ call'[u].task = "resizer" => ClosedEvent(call'[u], pending')
  BY DEF CallsClosed, ClosedBlocking, ClosedEvent
\* The calls that the step is not of.
<1>o. ASSUME NEW u \in Running, call'[u] = call[u],
             \/ UNCHANGED pending
             \/ pending # <<>> /\ pending' = Tail(pending)
             \/ \E entry \in Entry : entry.call # call[u].id /\ pending' = Append(pending, entry)
      PROVE  /\ call'[u].mode = "blocking" => ClosedBlocking(call'[u], pending')
             /\ call'[u].mode = "event" /\ call'[u].task = "resizer" => ClosedEvent(call'[u], pending')
  <2> DEFINE c == call[u]
  <2>1. /\ c.mode = "blocking" => ClosedBlocking(c, pending)
        /\ c.mode = "event" /\ c.task = "resizer" => ClosedEvent(c, pending)
    BY <1>c
  <2>2. call'[u] = c
    BY <1>o
  <2>3. \/ pending' = pending
        \/ pending # <<>> /\ pending' = Tail(pending)
        \/ \E entry \in Entry : entry.call # c.id /\ pending' = Append(pending, entry)
    BY <1>o
  <2> HIDE DEF c
  <2>4. /\ c.mode = "blocking" => ClosedBlocking(c, pending')
        /\ c.mode = "event" /\ c.task = "resizer" => ClosedEvent(c, pending')
    <3>1. CASE pending' = pending
      BY <2>1, <3>1, Zenon
    <3>2. CASE pending # <<>> /\ pending' = Tail(pending)
      BY <1>t, <2>1, <3>2, ClosedKept, Zenon
    <3>3. ASSUME NEW entry \in Entry, entry.call # c.id, pending' = Append(pending, entry)
          PROVE  /\ c.mode = "blocking" => ClosedBlocking(c, pending')
                 /\ c.mode = "event" /\ c.task = "resizer" => ClosedEvent(c, pending')
      BY <1>t, <2>1, <3>3, ClosedKept, Zenon
    <3> QED BY <2>3, <3>1, <3>2, <3>3
  <2> QED BY <2>2, <2>4, Zenon
<1>1. CASE UNCHANGED <<scenario, call, calls, left, pending>>
  <2>1. Running' = Running
    BY <1>1 DEF Running, NoCall, row
  <2> QED BY <1>1, <1>o, <2>1
<1>2. CASE pending # <<>> /\ pending' = Tail(pending) /\ UNCHANGED <<scenario, call, calls, left>>
  <2>1. Running' = Running
    BY <1>2 DEF Running, NoCall, row
  <2> QED BY <1>2, <1>o, <2>1
<1>3. ASSUME NEW t \in Thread, BeginAny(t), NEW u \in Running'
      PROVE  /\ call'[u].mode = "blocking" => ClosedBlocking(call'[u], pending')
             /\ call'[u].mode = "event" /\ call'[u].task = "resizer" => ClosedEvent(call'[u], pending')
  <2>1. PICK next \in Call :
           /\ t \notin Running /\ call' = [call EXCEPT ![t] = next]
           /\ next.id = calls + 1
           /\ next.mode = "blocking" => next.closing = Synchronize
           /\ next.mode = "event" /\ next.task = "resizer" => next.closing = <<RecordEvent>>
           /\ UNCHANGED pending \/ pending' = Append(pending, Event(calls + 1))
           /\ UNCHANGED scenario
    BY <1>3, Beginning
  <2>2. /\ Running' = Running \union {t} /\ call'[t] = next
        /\ \A v \in Running : call'[v] = call[v]
    BY <1>t, <2>1, CallBegun
  <2>3. CASE u = t
    BY <2>1, <2>2, <2>3 DEF ClosedBlocking, ClosedEvent
  <2>4. CASE u \in Running
    <3>1. calls + 1 \in Nat /\ call[u].id # calls + 1
      BY <1>t, <2>4
    <3>2. Event(calls + 1) \in Entry /\ Event(calls + 1).call # call[u].id
      BY <3>1, EntryTypes
    <3> QED BY <1>o, <2>1, <2>2, <2>4, <3>2
  <2> QED BY <1>3, <2>2, <2>3, <2>4
\* The call goes on: when its event is enqueued its work comes before it, and
\* when it is reached its work is done.
<1>4. ASSUME NEW t \in Thread, Advances(t), NEW u \in Running'
      PROVE  /\ call'[u].mode = "blocking" => ClosedBlocking(call'[u], pending')
             /\ call'[u].mode = "event" /\ call'[u].task = "resizer" => ClosedEvent(call'[u], pending')
  <2>1. /\ t \in Running /\ Running' = Running
        /\ \A v \in Thread : Constant(v) /\ (v # t => call'[v] = call[v])
        /\ \/ UNCHANGED pending
           \/ \E entry \in Entry : entry.call = call[t].id /\ pending' = Append(pending, entry)
    BY <1>4, AmongCalls
  <2>2. CASE u # t
    <3>1. u \in Running /\ call'[u] = call[u] /\ call[u].id # call[t].id
      BY <1>4, <1>t, <2>1, <2>2
    <3> QED BY <1>o, <2>1, <3>1
  <2>3. CASE u = t
    <3>1. /\ call'[t].info = call[t].info
          /\ InWork(t) => call'[t].closing = call[t].closing
          /\ ~InWork(t) => call'[t].work = call[t].work /\ call'[t].closing = Tail(call[t].closing)
          /\ call'[t].id = call[t].id /\ call'[t].mode = call[t].mode /\ call'[t].task = call[t].task
      BY <1>4, <2>1, StepDoneCall DEF Advances, Constant
    <3>2. CASE InWork(t)
      BY <1>c, <2>1, <2>3, <3>1, <3>2 DEF InWork, ClosedBlocking, ClosedEvent
    <3>3. CASE ~InWork(t) /\ UNCHANGED pending
      <4>1. call[t].closing = <<WaitForEvent>> /\ Tail(call[t].closing) = <<>>
        BY <1>4, <3>3, ClosingSteps, NotAppended DEF Advances
      <4>2. ~IsPending(Event(call[t].id)) /\ call[t].work = <<>>
        BY <1>4, <3>3, NotAppended DEF Advances, InWork
      <4>3. <<WaitForEvent>> # Synchronize /\ <<WaitForEvent>> # <<>> /\ <<WaitForEvent>> # <<RecordEvent>>
        BY DEF Synchronize, RecordEvent, WaitForEvent
      <4>4. call[t].mode = "blocking" => Followed(pending, call[t].id)
        BY <1>c, <2>1, <4>1, <4>3, Zenon DEF ClosedBlocking
      <4>5. call[t].mode = "blocking" => Absent(pending, call[t].id)
        BY <4>2, <4>4, EventReached
      <4>6. ~(call[t].mode = "event" /\ call[t].task = "resizer")
        BY <1>c, <2>1, <4>1, <4>3, Zenon DEF ClosedEvent
      <4> QED BY <2>3, <3>1, <3>3, <4>1, <4>2, <4>5, <4>6 DEF ClosedBlocking
    <3>4. CASE ~InWork(t) /\ pending' # pending
      <4>1. /\ AtStep(t, "record") /\ pending' = Append(pending, Event(call[t].id))
            /\ Event(call[t].id) \in Entry /\ call[t].work = <<>>
        BY <1>4, <3>4 DEF Advances, InWork
      <4>2. Followed(pending', call[t].id)
        BY <1>t, <4>1, QueueGrows
      <4>3. \/ call[t].closing = Synchronize /\ Tail(call[t].closing) = <<WaitForEvent>>
            \/ call[t].closing = <<RecordEvent>> /\ Tail(call[t].closing) = <<>>
        BY <3>4, <4>1, ClosingSteps
      <4>4. /\ <<RecordEvent>> # Synchronize /\ <<RecordEvent>> # <<>> /\ <<RecordEvent>> # <<WaitForEvent>>
            /\ Synchronize # <<>>
        BY DEF Synchronize, RecordEvent, WaitForEvent
      <4>5. call[t].mode = "blocking" => call[t].closing # <<RecordEvent>>
        BY <1>c, <2>1, <4>4, Zenon DEF ClosedBlocking
      <4>6. call[t].mode = "event" /\ call[t].task = "resizer" => call[t].closing # Synchronize
        BY <1>c, <2>1, <4>4, Zenon DEF ClosedEvent
      <4> QED BY <2>3, <3>1, <3>4, <4>1, <4>2, <4>3, <4>5, <4>6 DEF ClosedBlocking, ClosedEvent
    <3> QED BY <3>2, <3>3, <3>4
  <2> QED BY <2>2, <2>3
<1>5. ASSUME NEW t \in Thread, Stops(t), NEW u \in Running'
      PROVE  /\ call'[u].mode = "blocking" => ClosedBlocking(call'[u], pending')
             /\ call'[u].mode = "event" /\ call'[u].task = "resizer" => ClosedEvent(call'[u], pending')
  <2>1. /\ t \in Running /\ Running' = Running /\ UNCHANGED pending
        /\ \A v \in Thread : Constant(v) /\ (v # t => call'[v] = call[v])
    BY <1>5, AmongCalls DEF Stops
  <2>2. CASE u # t
    BY <1>o, <1>t, <2>1, <2>2
  <2>3. CASE u = t
    <3>1. PICK info \in Info, failed \in BOOLEAN : WorkEnds(t, info, failed)
      BY <1>5 DEF Stops
    <3>2. /\ call'[t].work = <<>> /\ call'[t].info = info
          /\ call'[t].closing = IF info = "EXCEPTION" THEN <<>> ELSE call[t].closing
          /\ call'[t].id = call[t].id /\ call'[t].mode = call[t].mode /\ call'[t].task = call[t].task
      BY <2>1, <3>1, WorkEndsCall DEF Constant
    <3>3. ~(call[t].work = <<>> /\ call[t].closing = <<>>)
      BY <1>5, StepsOf DEF Stops, InWork
    <3> QED BY <1>c, <2>1, <2>3, <3>2, <3>3 DEF ClosedBlocking, ClosedEvent
  <2> QED BY <2>2, <2>3
<1>6. ASSUME NEW t \in Thread, Return(t), NEW u \in Running'
      PROVE  /\ call'[u].mode = "blocking" => ClosedBlocking(call'[u], pending')
             /\ call'[u].mode = "event" /\ call'[u].task = "resizer" => ClosedEvent(call'[u], pending')
  <2>1. u \in Running /\ call'[u] = call[u] /\ UNCHANGED pending
    BY <1>6, <1>t, CallReturned
  <2> QED BY <1>o, <2>1
<1> QED BY <1>1, <1>2, <1>3, <1>4, <1>5, <1>6, StepKinds

\* An event that its client has is still behind the work of its call.
LEMMA LeftStep ==
  ASSUME CallTypes, CallsNumbered, CallsClosed, LeftFollowed, [Next]_vars
  PROVE  LeftFollowed'
<1>t. /\ calls \in Nat /\ pending \in Seq(Entry) /\ Running \subseteq Thread
      /\ \A c \in left : c.id \in 1 .. calls /\ \A t \in Running : call[t].id # c.id
  BY DEF CallTypes, Running, CallsNumbered
<1>l. \A c \in left : c.task = "resizer" /\ c.event => Followed(pending, c.id)
  BY DEF LeftFollowed
<1>s. SUFFICES ASSUME NEW c \in left', c.task = "resizer", c.event
               PROVE  Followed(pending', c.id)
  BY DEF LeftFollowed, Followed
<1>1. CASE UNCHANGED <<scenario, call, calls, left, pending>>
  BY <1>1, <1>l, <1>s
<1>2. CASE pending # <<>> /\ pending' = Tail(pending) /\ UNCHANGED <<scenario, call, calls, left>>
  BY <1>2, <1>l, <1>s, <1>t, QueueShrinks
<1>3. ASSUME NEW t \in Thread, BeginAny(t) PROVE Followed(pending', c.id)
  <2>1. /\ UNCHANGED pending \/ pending' = Append(pending, Event(calls + 1))
        /\ UNCHANGED left
    BY <1>3, Beginning
  <2>2. calls + 1 \in Nat /\ c.id # calls + 1
    BY <1>t, <2>1
  <2>3. Event(calls + 1) \in Entry /\ Event(calls + 1).call # c.id
    BY <2>2, EntryTypes
  <2>4. Followed(pending, c.id)
    BY <1>l, <1>s, <2>1
  <2>5. Followed(Append(pending, Event(calls + 1)), c.id)
    BY <1>t, <2>3, <2>4, QueueGrows
  <2> QED BY <2>1, <2>4, <2>5
<1>4. ASSUME NEW t \in Thread, Advances(t) \/ Stops(t) PROVE Followed(pending', c.id)
  <2>1. /\ t \in Running /\ UNCHANGED left
        /\ \/ UNCHANGED pending
           \/ \E entry \in Entry : entry.call = call[t].id /\ pending' = Append(pending, entry)
    BY <1>4, AmongCalls
  <2>2. call[t].id # c.id
    BY <1>t, <2>1
  <2>3. Followed(pending, c.id)
    BY <1>l, <1>s, <2>1
  <2>4. \A entry \in Entry : entry.call = call[t].id => Followed(Append(pending, entry), c.id)
    BY <1>t, <2>2, <2>3, QueueGrows
  <2> QED BY <2>1, <2>3, <2>4
<1>5. ASSUME NEW t \in Thread, Return(t) PROVE Followed(pending', c.id)
  <2> DEFINE d == [id |-> call[t].id, task |-> call[t].task,
                   event |-> call[t].mode = "event" /\ call[t].info # "EXCEPTION"]
  <2>1. /\ t \in Running /\ call[t].work = <<>> /\ call[t].closing = <<>> /\ UNCHANGED pending
        /\ left' = left \/ left' = left \union {d}
    BY <1>5, CallReturned
  <2>2. CASE c \in left
    BY <1>l, <1>s, <2>1, <2>2
  <2>3. CASE c = d
    <3>1. /\ c.id = call[t].id /\ c.task = call[t].task
          /\ c.event = (call[t].mode = "event" /\ call[t].info # "EXCEPTION")
      BY <2>3
    <3>2. ClosedEvent(call[t], pending) /\ call[t].info # "EXCEPTION"
      BY <1>s, <2>1, <3>1 DEF CallsClosed
    <3>3. <<>> # <<RecordEvent>>
      OBVIOUS
    <3> QED BY <2>1, <3>1, <3>2, <3>3 DEF ClosedEvent
  <2> QED BY <2>1, <2>2, <2>3
<1> QED BY <1>1, <1>2, <1>3, <1>4, <1>5, StepKinds

LEMMA FittingStep ==
  ASSUME CallTypes, CallsNumbered, FittingGoOn, [Next]_vars
  PROVE  FittingGoOn'
<1>t. Running \subseteq Thread /\ call \in [Thread -> Call]
  BY DEF CallTypes, Running
<1>f. \A u \in Running :
        /\ call[u].libraryFailed => call[u].work = <<>>
        /\ Fitting(u) => call[u].info = "SUCCESS" /\ call[u].work \in Seq(GoingOn)
  BY DEF FittingGoOn
<1>e. \A u \in Running' : call'[u].libraryFailed => call'[u].work = <<>>
  <2> SUFFICES ASSUME NEW u \in Running', call'[u].libraryFailed PROVE call'[u].work = <<>>
    OBVIOUS
  <2>1. CASE UNCHANGED <<scenario, call>>
    <3>1. Running' = Running
      BY <2>1 DEF Running, NoCall, row
    <3> QED BY <2>1, <1>f, <3>1
  <2>2. ASSUME NEW t \in Thread, BeginAny(t) PROVE call'[u].work = <<>>
    <3>1. PICK next \in Call :
             /\ t \notin Running /\ call' = [call EXCEPT ![t] = next]
             /\ next.id = calls + 1 /\ ~next.libraryFailed /\ UNCHANGED scenario
      BY <2>2, Beginning
    <3>2. /\ Running' = Running \union {t} /\ call'[t] = next
          /\ \A v \in Running : call'[v] = call[v]
      BY <1>t, <3>1, CallBegun
    <3> QED BY <1>f, <3>1, <3>2
  <2>3. ASSUME NEW t \in Thread, Advances(t) PROVE call'[u].work = <<>>
    <3>1. Running' = Running /\ \A v \in Thread : v # t => call'[v] = call[v]
      BY <2>3, AmongCalls
    <3>2. /\ call'[t].libraryFailed = call[t].libraryFailed
          /\ ~InWork(t) => call'[t].work = call[t].work
      BY <2>3, StepDoneCall DEF Advances
    <3> QED BY <1>f, <1>t, <3>1, <3>2 DEF InWork
  <2>4. ASSUME NEW t \in Thread, Stops(t) PROVE call'[u].work = <<>>
    <3>1. Running' = Running /\ \A v \in Thread : v # t => call'[v] = call[v]
      BY <2>4, AmongCalls
    <3>2. call'[t].work = <<>>
      BY <2>4, WorkEndsCall DEF Stops
    <3> QED BY <1>f, <1>t, <3>1, <3>2
  <2>5. ASSUME NEW t \in Thread, Return(t) PROVE call'[u].work = <<>>
    BY <1>f, <1>t, <2>5, CallReturned
  <2> QED BY <2>1, <2>2, <2>3, <2>4, <2>5, StepKinds
<1>s. SUFFICES ASSUME NEW u \in Running', Fitting(u)'
               PROVE  call'[u].info = "SUCCESS" /\ call'[u].work \in Seq(GoingOn)
  BY <1>e DEF FittingGoOn
\* Whether a call fits depends on what it keeps.
<1>k. ASSUME u \in Running, UNCHANGED scenario, Constant(u),
             call'[u].libraryFailed = call[u].libraryFailed
      PROVE  Fitting(u)
  <2>1. row' = row /\ kind' = kind
    BY <1>k DEF row, kind
  <2> QED BY <1>k, <1>s, <2>1 DEF Fitting, ValidRun, Constant
<1>o. ASSUME u \in Running, UNCHANGED scenario, call'[u] = call[u]
      PROVE  call'[u].info = "SUCCESS" /\ call'[u].work \in Seq(GoingOn)
  BY <1>o, <1>k, <1>f DEF Constant
<1>1. CASE UNCHANGED <<scenario, call>>
  <2>1. Running' = Running
    BY <1>1 DEF Running, NoCall, row
  <2> QED BY <1>1, <1>o, <2>1
<1>2. ASSUME NEW t \in Thread, BeginAny(t)
      PROVE  call'[u].info = "SUCCESS" /\ call'[u].work \in Seq(GoingOn)
  <2>1. PICK next \in Call :
           /\ t \notin Running /\ call' = [call EXCEPT ![t] = next]
           /\ next.id = calls + 1
           /\ next.info = "SUCCESS" /\ ~next.libraryFailed
           /\ Fitting(t)' => next.work \in Seq(GoingOn)
           /\ UNCHANGED scenario
    BY <1>2, Beginning
  <2>2. /\ Running' = Running \union {t} /\ call'[t] = next
        /\ \A v \in Running : call'[v] = call[v]
    BY <1>t, <2>1, CallBegun
  <2>3. CASE u = t
    BY <1>s, <2>1, <2>2, <2>3
  <2>4. CASE u \in Running
    BY <1>o, <2>1, <2>2, <2>4
  <2> QED BY <2>2, <2>3, <2>4
<1>3. ASSUME NEW t \in Thread, Advances(t) \/ Stops(t)
      PROVE  call'[u].info = "SUCCESS" /\ call'[u].work \in Seq(GoingOn)
  <2>1. /\ t \in Running /\ Running' = Running /\ UNCHANGED scenario
        /\ \A v \in Thread : Constant(v) /\ (v # t => call'[v] = call[v])
    BY <1>3, AmongCalls
  <2>2. CASE u # t
    BY <1>o, <1>t, <2>1, <2>2
  <2>3. CASE u = t /\ Advances(t)
    <3>1. /\ call'[t].info = call[t].info /\ call'[t].libraryFailed = call[t].libraryFailed
          /\ InWork(t) => call'[t].work = Tail(call[t].work)
          /\ ~InWork(t) => call'[t].work = call[t].work
      BY <2>3, StepDoneCall DEF Advances
    <3>2. call[t].info = "SUCCESS" /\ call[t].work \in Seq(GoingOn)
      BY <1>f, <1>k, <2>1, <2>3, <3>1
    <3>3. InWork(t) => Tail(call[t].work) \in Seq(GoingOn)
      BY <3>2, HeadTailProperties DEF InWork
    <3> QED BY <2>3, <3>1, <3>2, <3>3
  <2>4. CASE u = t /\ Stops(t)
    <3>1. PICK info \in Info, failed \in BOOLEAN :
            /\ WorkEnds(t, info, failed)
            /\ failed \/ (InWork(t) /\ Head(call[t].work) \notin GoingOn)
      BY <2>4 DEF Stops
    <3>2. call'[t].libraryFailed = failed
      BY <3>1, WorkEndsCall
    <3>3. ~failed
      BY <1>s, <2>4, <3>2 DEF Fitting
    <3>4. ~call[t].libraryFailed /\ call[t].work # <<>>
      BY <1>f, <2>1, <3>1, <3>3 DEF InWork
    <3>5. call'[t].libraryFailed = call[t].libraryFailed
      BY <1>t, <3>2, <3>3, <3>4 DEF Call
    <3>6. call[t].work \in Seq(GoingOn)
      BY <1>f, <1>k, <2>1, <2>4, <3>5
    <3> QED BY <3>1, <3>3, <3>4, <3>6, HeadTailProperties
  <2> QED BY <1>3, <2>2, <2>3, <2>4
<1>4. ASSUME NEW t \in Thread, Return(t)
      PROVE  call'[u].info = "SUCCESS" /\ call'[u].work \in Seq(GoingOn)
  BY <1>4, <1>o, <1>t, CallReturned
<1> QED BY <1>1, <1>2, <1>3, <1>4, StepKinds

-----------------------------------------------------------------------------
(***************************************************************************)
(* The invariant holds.                                                    *)
(***************************************************************************)
LEMMA InitTasksInv == Init => TasksInv
<1> SUFFICES ASSUME Init PROVE TasksInv
  OBVIOUS
<1>1. scenario \in Scenario /\ call = [t \in Thread |-> NoCall] /\ calls = 0 /\ pending = <<>> /\ left = {}
  BY DEF Init
<1>2. Running = {}
  BY <1>1 DEF Running
<1>3. CallTypes
  BY <1>1, NoCallType DEF CallTypes
<1>4. DOMAIN pending = {}
  BY <1>1
<1> QED
  BY <1>1, <1>2, <1>3, <1>4
     DEF TasksInv, CallsNumbered, CallsClosed, LeftFollowed, FittingGoOn, BlockingCallsLeaveNothing

LEMMA NextTasksInv == ASSUME TasksInv, [Next]_vars PROVE TasksInv'
BY TypesStep, NumbersStep, OwnedStep, ClosedStep, LeftStep, FittingStep DEF TasksInv

LEMMA TasksInvariant == Spec => []TasksInv
<1>1. TasksInv /\ [Next]_vars => TasksInv'
  BY NextTasksInv
<1> QED BY <1>1, InitTasksInv, PTL DEF Spec

-----------------------------------------------------------------------------
(***************************************************************************)
(* Run of the uploader, the converter, the resizer and the downloader      *)
(* leaves nothing of itself on the stream that all of them share, whether  *)
(* the task succeeded, failed half way or refused: the event or the        *)
(* synchronization comes after all it enqueued.                            *)
(***************************************************************************)
THEOREM RunLeavesNothing == Spec => []BlockingCallsLeaveNothing
<1>1. TasksInv => BlockingCallsLeaveNothing
  BY DEF TasksInv
<1> QED BY <1>1, TasksInvariant, PTL

(***************************************************************************)
(* When the event that PySurfaceResizer::RunAsync gave to its client is    *)
(* reached, the resize is done: the event is recorded after the work, of   *)
(* every format, and after a failure too.                                  *)
(***************************************************************************)
THEOREM ResizerEventsTell == Spec => []ResizerEventsCover
<1>1. ASSUME TasksInv, NEW c \in left, c.task = "resizer", c.event, ~IsPending(Event(c.id))
      PROVE  \A i \in DOMAIN pending : pending[i].call # c.id
  <2>1. Followed(pending, c.id)
    BY <1>1 DEF TasksInv, LeftFollowed
  <2> QED BY <1>1, <2>1, EventReached DEF Absent
<1>2. TasksInv => ResizerEventsCover
  BY <1>1 DEF ResizerEventsCover, EventCovers
<1> QED BY <1>2, TasksInvariant, PTL

(***************************************************************************)
(* A call on objects of the formats and sizes its task is for, with the    *)
(* colors VALI picks, fails only when a call of a library did: neither the *)
(* temporary surfaces of an earlier call of another size nor an earlier    *)
(* failure is in its way.  NV12 to BGR and RGB_PLANAR to YUV444 are        *)
(* excepted, whose converters never answer with success.                   *)
(***************************************************************************)
THEOREM FittingCallsSucceed == Spec => []ValidRunsSucceed
<1>1. ASSUME TasksInv, NEW t \in Thread,
             ~(call[t].task = "converter" /\ row \in {nv12_bgr, rgb_planar_yuv444})
      PROVE  Succeeds(t)
  BY <1>1 DEF Succeeds, Returning, TasksInv, FittingGoOn, Fitting
<1>2. TasksInv => ValidRunsSucceed
  BY <1>1 DEF ValidRunsSucceed
<1> QED BY <1>2, TasksInvariant, PTL

-----------------------------------------------------------------------------
(***************************************************************************)
(* What the places will hold once the GPU has performed the queue.         *)
(***************************************************************************)
PictureOf(v, places) ==
  LET seen == {v[p] : p \in places} \ {Gray}
  IN CASE seen = {} -> Gray
       [] Cardinality(seen) = 1 -> CHOOSE p \in seen : TRUE
       [] OTHER -> Garbled
Effect(v, entry) ==
  [p \in DOMAIN v |-> IF p \in entry.writes THEN PictureOf(v, entry.reads) ELSE v[p]]

\* v[i] is what the places hold after i entries; in the end they hold last.
Foretold(v, queue, now, last) ==
  /\ DOMAIN v = 0 .. Len(queue) /\ v[0] = now /\ last = v[Len(queue)]
  /\ \A i \in 1 .. Len(queue) : v[i] = Effect(v[i - 1], queue[i])
  /\ \A i \in 0 .. Len(queue) : DOMAIN v[i] = DOMAIN now
  /\ \A i \in 0 .. Len(queue), p \in DOMAIN now :
       (\A j \in i + 1 .. Len(queue) : p \notin queue[j].writes) => last[p] = v[i][p]

\* All of some places show the picture: components that are filled may be gray,
\* the first one of an object may not.
Good(v, p, pic) == v[p] \in {pic, Gray} /\ (p[2] = 0 => v[p] = pic)
Holds(v, places, pic) == \A p \in places : Good(v, p, pic)
HasFirst(places) == \E p \in places : p[2] = 0

LEMMA PictureShown ==
  ASSUME NEW v, NEW places, NEW pic, \A p \in places : v[p] \in {pic, Gray}
  PROVE  /\ PictureOf(v, places) \in {pic, Gray}
         /\ (\E p \in places : v[p] = pic) => PictureOf(v, places) = pic
<1> DEFINE seen == {v[p] : p \in places} \ {Gray}
<1>1. seen \subseteq {pic}
  OBVIOUS
<1>2. CASE seen = {}
  <2>1. PictureOf(v, places) = Gray
    <3>1. Cardinality({}) = 0
      BY FS_EmptySet
    <3> QED BY <1>2, <3>1 DEF PictureOf
  <2>2. (\E p \in places : v[p] = pic) => pic = Gray
    BY <1>2
  <2> QED BY <2>1, <2>2
<1>3. CASE seen # {}
  <2>1. seen = {pic}
    BY <1>1, <1>3
  <2>2. Cardinality({pic}) = 1 /\ {pic} # {}
    BY FS_Singleton
  <2>3. PictureOf(v, places) = CHOOSE p \in {pic} : TRUE
    <3> HIDE DEF seen
    <3>1. PictureOf(v, places) = CASE seen = {} -> Gray
            [] Cardinality(seen) = 1 -> CHOOSE p \in seen : TRUE [] OTHER -> Garbled
      BY DEF PictureOf, seen
    <3> QED BY <2>1, <2>2, <3>1
  <2> QED BY <2>3
<1> QED BY <1>2, <1>3

LEMMA PictureHeld ==
  ASSUME NEW v, NEW places, NEW pic, Holds(v, places, pic), NEW some \in SUBSET places
  PROVE  /\ PictureOf(v, some) \in {pic, Gray}
         /\ HasFirst(some) => PictureOf(v, some) = pic
<1>1. \A p \in some : v[p] \in {pic, Gray} /\ (p[2] = 0 => v[p] = pic)
  BY DEF Holds, Good
<1> QED BY <1>1, PictureShown DEF HasFirst

LEMMA PictureSame ==
  ASSUME NEW v, NEW w, NEW places, \A p \in places : v[p] = w[p]
  PROVE  PictureOf(v, places) = PictureOf(w, places)
<1>1. {v[p] : p \in places} = {w[p] : p \in places}
  OBVIOUS
<1> QED BY <1>1 DEF PictureOf

-----------------------------------------------------------------------------
LEMMA ForetoldEmpty ==
  ASSUME NEW now
  PROVE  \E v : Foretold(v, <<>>, now, now)
<1> DEFINE v == [i \in 0 .. 0 |-> now]
<1>1. Foretold(v, <<>>, now, now)
  BY DEF Foretold
<1> QED BY <1>1

\* Another entry is enqueued.
LEMMA ForetoldMore ==
  ASSUME NEW queue \in Seq(Entry), NEW entry \in Entry, NEW v, NEW now, NEW last,
         Foretold(v, queue, now, last)
  PROVE  \E w : Foretold(w, Append(queue, entry), now, Effect(last, entry))
<1> DEFINE n == Len(queue)
           more == Append(queue, entry)
           new == Effect(last, entry)
           w == [i \in 0 .. n + 1 |-> IF i <= n THEN v[i] ELSE new]
<1>1. /\ n \in Nat /\ Len(more) = n + 1 /\ more[n + 1] = entry
      /\ \A i \in 1 .. n : more[i] = queue[i]
  BY AppendProperties, LenProperties
<1>2. /\ DOMAIN v = 0 .. n /\ v[0] = now /\ last = v[n]
      /\ \A i \in 1 .. n : v[i] = Effect(v[i - 1], queue[i])
      /\ \A i \in 0 .. n : DOMAIN v[i] = DOMAIN now
      /\ \A i \in 0 .. n, p \in DOMAIN now :
           (\A j \in i + 1 .. n : p \notin queue[j].writes) => last[p] = v[i][p]
  BY DEF Foretold
<1>3. DOMAIN new = DOMAIN now /\ DOMAIN last = DOMAIN now
  BY <1>1, <1>2 DEF Effect
<1>4. \A p \in DOMAIN now : p \notin entry.writes => new[p] = last[p]
  BY <1>3 DEF Effect
<1> HIDE DEF new, more
<1>5. /\ DOMAIN w = 0 .. n + 1 /\ w[0] = now /\ w[n + 1] = new
      /\ \A i \in 0 .. n : w[i] = v[i]
  BY <1>1, <1>2
<1> HIDE DEF w, n
<1>6. \A i \in 1 .. n + 1 : w[i] = Effect(w[i - 1], more[i])
  <2> TAKE i \in 1 .. n + 1
  <2>1. CASE i = n + 1
    BY <1>1, <1>2, <1>5, <2>1 DEF new
  <2>2. CASE i # n + 1
    BY <1>1, <1>2, <1>5, <2>2
  <2> QED BY <2>1, <2>2
<1>7. \A i \in 0 .. n + 1 : DOMAIN w[i] = DOMAIN now
  BY <1>1, <1>2, <1>3, <1>5
<1>8. ASSUME NEW i \in 0 .. n + 1, NEW p \in DOMAIN now, \A j \in i + 1 .. n + 1 : p \notin more[j].writes
      PROVE  new[p] = w[i][p]
  <2>1. CASE i = n + 1
    BY <1>5, <2>1
  <2>2. CASE i # n + 1
    <3>1. i \in 0 .. n /\ n + 1 \in i + 1 .. n + 1
      BY <1>1, <2>2
    <3>2. p \notin entry.writes /\ \A j \in i + 1 .. n : p \notin queue[j].writes
      BY <1>1, <1>8, <3>1
    <3> QED BY <1>2, <1>4, <1>5, <3>1, <3>2
  <2> QED BY <2>1, <2>2
<1>9. Foretold(w, more, now, new)
  BY <1>1, <1>5, <1>6, <1>7, <1>8 DEF Foretold
<1> QED BY <1>9 DEF more, new

\* The GPU performs the oldest entry, as foretold.
LEMMA ForetoldLess ==
  ASSUME NEW queue \in Seq(Entry), queue # <<>>, NEW v, NEW now, NEW last,
         Foretold(v, queue, now, last)
  PROVE  \E w : Foretold(w, Tail(queue), Effect(now, Head(queue)), last)
<1> DEFINE n == Len(queue)
           less == Tail(queue)
           new == Effect(now, Head(queue))
           w == [i \in 0 .. n - 1 |-> v[i + 1]]
<1>1. /\ n \in Nat \ {0} /\ Len(less) = n - 1 /\ Head(queue) = queue[1]
      /\ \A i \in 1 .. n - 1 : less[i] = queue[i + 1]
  BY LenProperties, EmptySeq, HeadTailProperties
<1>2. /\ DOMAIN v = 0 .. n /\ v[0] = now /\ last = v[n]
      /\ \A i \in 1 .. n : v[i] = Effect(v[i - 1], queue[i])
      /\ \A i \in 0 .. n : DOMAIN v[i] = DOMAIN now
      /\ \A i \in 0 .. n, p \in DOMAIN now :
           (\A j \in i + 1 .. n : p \notin queue[j].writes) => last[p] = v[i][p]
  BY DEF Foretold
<1>3. DOMAIN new = DOMAIN now
  BY DEF Effect
<1>4. new = v[1]
  BY <1>1, <1>2
<1> HIDE DEF new, less
<1>5. /\ DOMAIN w = 0 .. n - 1 /\ w[0] = new /\ w[n - 1] = last
      /\ \A i \in 0 .. n - 1 : w[i] = v[i + 1]
  BY <1>1, <1>2, <1>4
<1> HIDE DEF w, n
<1>6. \A i \in 1 .. n - 1 : w[i] = Effect(w[i - 1], less[i])
  <2> TAKE i \in 1 .. n - 1
  <2>1. /\ w[i] = v[i + 1] /\ w[i - 1] = v[i] /\ less[i] = queue[i + 1]
        /\ i + 1 \in 1 .. n /\ i + 1 - 1 = i
    BY <1>1, <1>5
  <2> QED BY <1>2, <2>1
<1>7. \A i \in 0 .. n - 1 : DOMAIN w[i] = DOMAIN new
  BY <1>1, <1>2, <1>3, <1>5
<1>8. ASSUME NEW i \in 0 .. n - 1, NEW p \in DOMAIN new, \A j \in i + 1 .. n - 1 : p \notin less[j].writes
      PROVE  last[p] = w[i][p]
  <2>1. ASSUME NEW j \in i + 2 .. n PROVE p \notin queue[j].writes
    <3>1. j - 1 \in i + 1 .. n - 1 /\ j - 1 \in 1 .. n - 1 /\ j - 1 + 1 = j
      BY <1>1
    <3> QED BY <1>1, <1>8, <3>1
  <2>2. i + 1 \in 0 .. n /\ i + 1 + 1 = i + 2 /\ w[i] = v[i + 1]
    BY <1>1, <1>5
  <2> QED BY <1>2, <1>3, <2>1, <2>2
<1>9. Foretold(w, less, new, last)
  BY <1>1, <1>5, <1>6, <1>7, <1>8 DEF Foretold
<1> QED BY <1>9 DEF less, new

\* Places that no entry touches lose what they hold.
Garble(v, places) == [p \in DOMAIN v |-> IF p \in places THEN Garbled ELSE v[p]]

LEMMA ForetoldElsewhere ==
  ASSUME NEW queue \in Seq(Entry), NEW v, NEW now, NEW last, Foretold(v, queue, now, last),
         NEW places,
         \A i \in DOMAIN queue : (queue[i].reads \union queue[i].writes) \intersect places = {},
         \A i \in DOMAIN queue : queue[i].reads \subseteq DOMAIN now
  PROVE  \E w : Foretold(w, queue, Garble(now, places), Garble(last, places))
<1> DEFINE n == Len(queue)
           w == [i \in 0 .. n |-> Garble(v[i], places)]
<1>1. n \in Nat /\ DOMAIN queue = 1 .. n
  BY LenProperties
<1>2. /\ DOMAIN v = 0 .. n /\ v[0] = now /\ last = v[n]
      /\ \A i \in 1 .. n : v[i] = Effect(v[i - 1], queue[i])
      /\ \A i \in 0 .. n : DOMAIN v[i] = DOMAIN now
      /\ \A i \in 0 .. n, p \in DOMAIN now :
           (\A j \in i + 1 .. n : p \notin queue[j].writes) => last[p] = v[i][p]
  BY DEF Foretold
<1>3. /\ DOMAIN w = 0 .. n /\ w[0] = Garble(now, places) /\ w[n] = Garble(last, places)
      /\ \A i \in 0 .. n : w[i] = Garble(v[i], places)
  BY <1>1, <1>2
<1> HIDE DEF w, n
<1>g. \A u : /\ DOMAIN Garble(u, places) = DOMAIN u
             /\ \A p \in DOMAIN u : Garble(u, places)[p] = IF p \in places THEN Garbled ELSE u[p]
             /\ Garble(u, places) = [p \in DOMAIN u |-> Garble(u, places)[p]]
  BY DEF Garble
<1>4. \A i \in 0 .. n : DOMAIN w[i] = DOMAIN Garble(now, places)
  BY <1>2, <1>3, <1>g
<1>6. ASSUME NEW i \in 1 .. n PROVE w[i] = Effect(w[i - 1], queue[i])
  <2> DEFINE a == v[i - 1]
             e == queue[i]
  <2>1. /\ i \in 0 .. n /\ i - 1 \in 0 .. n /\ i \in DOMAIN queue
        /\ v[i] = Effect(a, e)
    BY <1>1, <1>2
  <2>0. w[i - 1] = Garble(a, places) /\ w[i] = Garble(Effect(a, e), places) /\ DOMAIN a = DOMAIN now
    BY <1>2, <1>3, <2>1
  <2>2. (e.reads \union e.writes) \intersect places = {} /\ e.reads \subseteq DOMAIN now
    BY <2>1
  <2> HIDE DEF a, e
  <2>3. \A p \in e.reads : Garble(a, places)[p] = a[p]
    BY <2>0, <2>2, <1>g
  <2>4. PictureOf(Garble(a, places), e.reads) = PictureOf(a, e.reads)
    BY <2>3, PictureSame
  <2>e. \A u : /\ DOMAIN Effect(u, e) = DOMAIN u
               /\ \A p \in DOMAIN u : Effect(u, e)[p] = IF p \in e.writes THEN PictureOf(u, e.reads) ELSE u[p]
               /\ Effect(u, e) = [p \in DOMAIN u |-> Effect(u, e)[p]]
    BY DEF Effect
  <2>5. Effect(Garble(a, places), e) = Garble(Effect(a, e), places)
    <3>1. DOMAIN Effect(Garble(a, places), e) = DOMAIN a /\ DOMAIN Garble(Effect(a, e), places) = DOMAIN a
      BY <1>g, <2>e
    <3>2. ASSUME NEW p \in DOMAIN a PROVE Effect(Garble(a, places), e)[p] = Garble(Effect(a, e), places)[p]
      <4>1. Effect(Garble(a, places), e)[p] = IF p \in e.writes THEN PictureOf(a, e.reads) ELSE Garble(a, places)[p]
        BY <1>g, <2>4, <2>e
      <4>2. Garble(Effect(a, e), places)[p] = IF p \in places THEN Garbled ELSE Effect(a, e)[p]
        BY <1>g, <2>e
      <4>3. p \in e.writes => p \notin places
        BY <2>2
      <4> QED BY <1>g, <2>e, <4>1, <4>2, <4>3
    <3>3. Effect(Garble(a, places), e) = [p \in DOMAIN a |-> Effect(Garble(a, places), e)[p]]
      BY <1>g, <2>e
    <3>4. Garble(Effect(a, e), places) = [p \in DOMAIN a |-> Garble(Effect(a, e), places)[p]]
      BY <1>g, <2>e
    <3> QED BY <3>2, <3>3, <3>4
  <2> QED BY <2>0, <2>5 DEF e
<1>7. ASSUME NEW i \in 0 .. n, NEW p \in DOMAIN now, \A j \in i + 1 .. n : p \notin queue[j].writes
      PROVE  Garble(last, places)[p] = w[i][p]
  <2>1. last[p] = v[i][p] /\ DOMAIN last = DOMAIN now /\ DOMAIN v[i] = DOMAIN now
        /\ w[i] = Garble(v[i], places)
    BY <1>1, <1>2, <1>3, <1>7
  <2> QED BY <1>g, <2>1
<1>8. Foretold(w, queue, Garble(now, places), Garble(last, places))
  BY <1>3, <1>4, <1>6, <1>7, <1>g DEF Foretold, n
<1> QED BY <1>8

-----------------------------------------------------------------------------
(***************************************************************************)
(* What a call still has to do, and what it will have made of the picture  *)
(* of its source.                                                          *)
(***************************************************************************)
At == [o \in Object \union Temporary |-> Places(o)]

\* A call writes its destination, and the temporary surfaces of its task.
TemporariesOf(task) ==
  CASE task = "resizer" -> {"src_yuv420", "dst_yuv420"}
    [] task = "converter" -> {"scratch"}
    [] OTHER -> {}
Names(c) == {c.dst} \union TemporariesOf(c.task)
Of(names, places) == {p \in places : p[1] \in names}

Launches(work) == {i \in DOMAIN work : work[i].do = "launch"}
Makes(work) == {i \in DOMAIN work : work[i].do = "make"}
Concludes(work) == {i \in DOMAIN work : work[i].do = "conclude"}

\* A launch after step k writes the place.
Covered(work, k, p) == \E i \in Launches(work) : i > k /\ p \in work[i].writes

Planned(work, names, all) ==
  /\ \A i \in Launches(work) : work[i].reads \subseteq all /\ \A p \in work[i].writes : p[1] \in names
  /\ \A i \in Makes(work) : work[i].temp \in names
  /\ \A i \in Concludes(work) : work[i].info # "SUCCESS" /\ (Refused(work[i].info) => Len(work) = 1)

\* What is read is not written any more, and a temporary surface is made
\* before it is written.
Orderly(work, source, ready, at) ==
  /\ \A i \in Launches(work) :
       /\ work[i].reads \subseteq source \union ready
       /\ HasFirst(work[i].writes) => HasFirst(work[i].reads)
       /\ \A k \in Launches(work) : k >= i => work[k].writes \intersect work[i].reads = {}
  /\ \A i \in Makes(work) : \A p \in at[work[i].temp] \intersect ready : Covered(work, i, p)

\* Places show the picture or will be written.
Filled(v, work, ready, pic) == \A p \in ready : Good(v, p, pic) \/ Covered(work, 0, p)

Carries(v, c, at, pic) ==
  \E ready :
    /\ at[c.dst] \subseteq ready /\ ready \subseteq Of(Names(c), DOMAIN v)
    /\ Orderly(c.work, at[c.src], ready, at) /\ Filled(v, c.work, ready, pic)

-----------------------------------------------------------------------------
LEMMA WorkTail ==
  ASSUME NEW work \in Seq(GoingOn \union Concluding), work # <<>>
  PROVE  /\ Tail(work) \in Seq(GoingOn \union Concluding)
         /\ Len(work) \in Nat \ {0} /\ Len(Tail(work)) = Len(work) - 1
         /\ DOMAIN work = 1 .. Len(work) /\ DOMAIN Tail(work) = 1 .. Len(work) - 1
         /\ \A i \in 1 .. Len(work) - 1 : Tail(work)[i] = work[i + 1]
         /\ Head(work) = work[1] /\ 1 \in DOMAIN work
         /\ \A i \in DOMAIN Tail(work) : i \in Nat /\ i >= 1 /\ i + 1 \in DOMAIN work
BY HeadTailProperties, LenProperties, EmptySeq

LEMMA StepsTail ==
  ASSUME NEW work \in Seq(GoingOn \union Concluding), work # <<>>
  PROVE  /\ \A i \in Launches(Tail(work)) : i + 1 \in Launches(work)
         /\ \A i \in Makes(Tail(work)) : i + 1 \in Makes(work)
         /\ \A i \in Concludes(Tail(work)) : i + 1 \in Concludes(work)
         /\ \A i \in Launches(work) \union Makes(work) \union Concludes(work) :
              i \in Nat /\ i >= 1 /\ (i > 1 => i - 1 \in DOMAIN Tail(work) /\ Tail(work)[i - 1] = work[i])
BY WorkTail DEF Launches, Makes, Concludes

LEMMA CoveredTail ==
  ASSUME NEW work \in Seq(GoingOn \union Concluding), work # <<>>, NEW k \in Nat, NEW p
  PROVE  Covered(work, k + 1, p) => Covered(Tail(work), k, p)
<1> SUFFICES ASSUME NEW i \in Launches(work), i > k + 1, p \in work[i].writes
             PROVE  Covered(Tail(work), k, p)
  BY DEF Covered
<1>1. i \in Nat /\ i - 1 \in DOMAIN Tail(work) /\ Tail(work)[i - 1] = work[i]
  BY StepsTail
<1>2. i - 1 \in Launches(Tail(work)) /\ i - 1 > k /\ p \in Tail(work)[i - 1].writes
  BY <1>1 DEF Launches
<1> QED BY <1>2 DEF Covered

LEMMA PlannedTail ==
  ASSUME NEW work \in Seq(GoingOn \union Concluding), work # <<>>, NEW names, NEW all,
         Planned(work, names, all)
  PROVE  Planned(Tail(work), names, all)
<1> DEFINE rest == Tail(work)
<1>1. \A i \in DOMAIN rest : rest[i] = work[i + 1]
  BY WorkTail
<1>2. \A i \in Launches(rest) : rest[i].reads \subseteq all /\ \A p \in rest[i].writes : p[1] \in names
  BY <1>1, StepsTail DEF Planned, Launches
<1>3. \A i \in Makes(rest) : rest[i].temp \in names
  BY <1>1, StepsTail DEF Planned, Makes
<1>4. ASSUME NEW i \in Concludes(rest)
      PROVE  rest[i].info # "SUCCESS" /\ (Refused(rest[i].info) => Len(rest) = 1)
  <2>1. /\ i + 1 \in Concludes(work) /\ rest[i] = work[i + 1] /\ i \in Nat /\ i >= 1
        /\ i <= Len(work) - 1 /\ Len(work) \in Nat
    BY <1>1, StepsTail, WorkTail DEF Concludes
  <2>2. work[i + 1].info # "SUCCESS" /\ (Refused(work[i + 1].info) => Len(work) = 1)
    BY <2>1 DEF Planned
  <2> QED BY <2>1, <2>2
<1> QED BY <1>2, <1>3, <1>4 DEF Planned

LEMMA OrderlyTail ==
  ASSUME NEW work \in Seq(GoingOn \union Concluding), work # <<>>, NEW source, NEW ready, NEW at,
         Orderly(work, source, ready, at)
  PROVE  Orderly(Tail(work), source, ready, at)
<1> DEFINE rest == Tail(work)
<1>1. \A i \in DOMAIN rest : rest[i] = work[i + 1] /\ i \in Nat
  BY WorkTail
<1>2. ASSUME NEW i \in Launches(rest)
      PROVE  /\ rest[i].reads \subseteq source \union ready
             /\ HasFirst(rest[i].writes) => HasFirst(rest[i].reads)
             /\ \A k \in Launches(rest) : k >= i => rest[k].writes \intersect rest[i].reads = {}
  <2>1. i + 1 \in Launches(work) /\ rest[i] = work[i + 1] /\ i \in Nat
    BY <1>1, StepsTail DEF Launches
  <2>2. /\ work[i + 1].reads \subseteq source \union ready
        /\ HasFirst(work[i + 1].writes) => HasFirst(work[i + 1].reads)
        /\ \A k \in Launches(work) : k >= i + 1 => work[k].writes \intersect work[i + 1].reads = {}
    BY <2>1 DEF Orderly
  <2>3. ASSUME NEW k \in Launches(rest), k >= i PROVE rest[k].writes \intersect rest[i].reads = {}
    <3>1. k + 1 \in Launches(work) /\ rest[k] = work[k + 1] /\ k \in Nat
      BY <1>1, StepsTail DEF Launches
    <3>2. k + 1 >= i + 1
      BY <2>1, <2>3, <3>1
    <3>3. work[k + 1].writes \intersect work[i + 1].reads = {}
      BY <2>2, <3>1, <3>2
    <3> QED BY <2>1, <3>1, <3>3
  <2> QED BY <2>1, <2>2, <2>3
<1>3. ASSUME NEW i \in Makes(rest), NEW p \in at[rest[i].temp] \intersect ready
      PROVE  Covered(rest, i, p)
  <2>1. i + 1 \in Makes(work) /\ rest[i] = work[i + 1] /\ i \in Nat
    BY <1>1, StepsTail DEF Makes
  <2>2. Covered(work, i + 1, p)
    BY <1>3, <2>1 DEF Orderly
  <2> QED BY <2>1, <2>2, CoveredTail
<1> QED BY <1>2, <1>3 DEF Orderly

-----------------------------------------------------------------------------
\* What a step makes of the places when only those of some names may change.
Changes(v, w, names) ==
  DOMAIN w = DOMAIN v /\ \A p \in DOMAIN v : p[1] \notin names => w[p] = v[p]

LEMMA EffectChanges ==
  ASSUME NEW v, NEW entry, NEW names, \A p \in entry.writes : p[1] \in names
  PROVE  Changes(v, Effect(v, entry), names)
BY DEF Changes, Effect

LEMMA GarbleChanges ==
  ASSUME NEW v, NEW places, NEW names, \A p \in places : p[1] \in names
  PROVE  Changes(v, Garble(v, places), names)
BY DEF Changes, Garble

LEMMA HoldsElsewhere ==
  ASSUME NEW v, NEW w, NEW names, Changes(v, w, names), NEW places, NEW pic,
         places \subseteq DOMAIN v, \A p \in places : p[1] \notin names
  PROVE  Holds(v, places, pic) => Holds(w, places, pic)
BY DEF Changes, Holds, Good

LEMMA CarriesElsewhere ==
  ASSUME NEW v, NEW w, NEW names, Changes(v, w, names), NEW c, NEW at, NEW pic,
         names \intersect Names(c) = {}, Carries(v, c, at, pic)
  PROVE  Carries(w, c, at, pic)
<1>1. PICK ready :
        /\ at[c.dst] \subseteq ready /\ ready \subseteq Of(Names(c), DOMAIN v)
        /\ Orderly(c.work, at[c.src], ready, at) /\ Filled(v, c.work, ready, pic)
  BY DEF Carries
<1>2. \A p \in ready : p \in DOMAIN v /\ p[1] \notin names
  BY <1>1 DEF Of
<1>3. \A p \in ready : w[p] = v[p]
  BY <1>2 DEF Changes
<1>4. Filled(w, c.work, ready, pic)
  BY <1>1, <1>3 DEF Filled, Good
<1>5. ready \subseteq Of(Names(c), DOMAIN w)
  BY <1>1 DEF Changes
<1> QED BY <1>1, <1>4, <1>5 DEF Carries

\* A call is one step further.
Further(c, next) ==
  /\ next.src = c.src /\ next.dst = c.dst /\ next.task = c.task
  /\ c.work \in Seq(GoingOn \union Concluding) /\ c.work # <<>> /\ next.work = Tail(c.work)

LEMMA LaunchCarries ==
  ASSUME NEW v, NEW c, NEW next, NEW at, NEW pic, NEW entry,
         Further(c, next), Head(c.work).do = "launch",
         entry.reads = Head(c.work).reads, entry.writes = Head(c.work).writes,
         Holds(v, at[c.src], pic), Carries(v, c, at, pic)
  PROVE  Carries(Effect(v, entry), next, at, pic)
<1> DEFINE w == Effect(v, entry)
           work == c.work
           source == at[c.src]
<1>1. PICK ready :
        /\ at[c.dst] \subseteq ready /\ ready \subseteq Of(Names(c), DOMAIN v)
        /\ Orderly(work, source, ready, at) /\ Filled(v, work, ready, pic)
  BY DEF Carries
<1>2. /\ work \in Seq(GoingOn \union Concluding) /\ work # <<>> /\ next.work = Tail(work)
      /\ next.src = c.src /\ next.dst = c.dst /\ Names(next) = Names(c)
  BY DEF Further, Names
<1>3. /\ Head(work) = work[1] /\ 1 \in Launches(work)
      /\ \A i \in Launches(work) : i \in Nat /\ i >= 1
  BY <1>2, WorkTail, StepsTail DEF Launches
<1>4. /\ entry.reads \subseteq source \union ready
      /\ HasFirst(entry.writes) => HasFirst(entry.reads)
      /\ \A k \in Launches(work) : work[k].writes \intersect entry.reads = {}
  BY <1>1, <1>3 DEF Orderly
<1>5. \A p \in entry.reads : ~Covered(work, 0, p)
  BY <1>4 DEF Covered
<1>6. \A p \in entry.reads : Good(v, p, pic)
  BY <1>1, <1>4, <1>5 DEF Filled, Holds
<1>7. /\ PictureOf(v, entry.reads) \in {pic, Gray}
      /\ HasFirst(entry.reads) => PictureOf(v, entry.reads) = pic
  BY <1>6, PictureHeld DEF Holds
<1>8. \A p \in entry.writes : p[2] = 0 => PictureOf(v, entry.reads) = pic
  BY <1>4, <1>7 DEF HasFirst
<1>9. ASSUME NEW p \in ready PROVE Good(w, p, pic) \/ Covered(Tail(work), 0, p)
  <2>1. p \in DOMAIN v
    BY <1>1 DEF Of
  <2>2. CASE p \in entry.writes
    <3>1. w[p] = PictureOf(v, entry.reads)
      BY <2>1, <2>2 DEF Effect
    <3> QED BY <1>7, <1>8, <2>2, <3>1 DEF Good
  <2>3. CASE p \notin entry.writes
    <3>1. w[p] = v[p]
      BY <2>1, <2>3 DEF Effect
    <3>2. Covered(work, 0, p) => Covered(work, 0 + 1, p)
      BY <1>3, <2>3 DEF Covered
    <3>3. Covered(work, 0, p) => Covered(Tail(work), 0, p)
      BY <1>2, <3>2, CoveredTail
    <3> QED BY <1>1, <3>1, <3>3 DEF Filled, Good
  <2> QED BY <2>2, <2>3
<1>10. DOMAIN w = DOMAIN v
  BY DEF Effect
<1> HIDE DEF w
<1>11. Orderly(Tail(work), source, ready, at) /\ Filled(w, Tail(work), ready, pic)
  BY <1>1, <1>2, <1>9, OrderlyTail DEF Filled
<1>12. Carries(w, next, at, pic)
  BY <1>1, <1>2, <1>10, <1>11 DEF Carries
<1> QED BY <1>12 DEF w

LEMMA MakeCarries ==
  ASSUME NEW v, NEW c, NEW next, NEW at, NEW pic,
         Further(c, next), Head(c.work).do = "make", Carries(v, c, at, pic)
  PROVE  Carries(Garble(v, at[Head(c.work).temp]), next, at, pic)
<1> DEFINE places == at[Head(c.work).temp]
           w == Garble(v, places)
           work == c.work
<1>1. PICK ready :
        /\ at[c.dst] \subseteq ready /\ ready \subseteq Of(Names(c), DOMAIN v)
        /\ Orderly(work, at[c.src], ready, at) /\ Filled(v, work, ready, pic)
  BY DEF Carries
<1>2. /\ work \in Seq(GoingOn \union Concluding) /\ work # <<>> /\ next.work = Tail(work)
      /\ next.src = c.src /\ next.dst = c.dst /\ Names(next) = Names(c)
  BY DEF Further, Names
<1>3. /\ Head(work) = work[1] /\ 1 \in Makes(work) /\ 1 \notin Launches(work)
      /\ \A i \in Launches(work) : i \in Nat /\ i >= 1
  BY <1>2, WorkTail, StepsTail DEF Launches, Makes
<1>4. ASSUME NEW p \in ready PROVE Good(w, p, pic) \/ Covered(Tail(work), 0, p)
  <2>1. p \in DOMAIN v
    BY <1>1 DEF Of
  <2>2. Covered(work, 0, p) => Covered(work, 0 + 1, p)
    BY <1>3 DEF Covered
  <2>3. Covered(work, 0 + 1, p) => Covered(Tail(work), 0, p)
    BY <1>2, CoveredTail
  <2>4. CASE p \in places
    <3>1. Covered(work, 1, p)
      BY <1>1, <1>3, <2>4 DEF Orderly
    <3> QED BY <2>3, <3>1
  <2>5. CASE p \notin places
    <3>1. w[p] = v[p]
      BY <2>1, <2>5 DEF Garble
    <3> QED BY <1>1, <2>2, <2>3, <3>1 DEF Filled, Good
  <2> QED BY <2>4, <2>5
<1>5. DOMAIN w = DOMAIN v
  BY DEF Garble
<1> HIDE DEF w
<1>6. Orderly(Tail(work), at[c.src], ready, at) /\ Filled(w, Tail(work), ready, pic)
  BY <1>1, <1>2, <1>4, OrderlyTail DEF Filled
<1>7. Carries(w, next, at, pic)
  BY <1>1, <1>2, <1>5, <1>6 DEF Carries
<1> QED BY <1>7 DEF w

\* Events, and what waits for them, change nothing.
LEMMA OtherCarries ==
  ASSUME NEW v, NEW w, NEW c, NEW next, NEW at, NEW pic, Changes(v, w, {}),
         Further(c, next), Head(c.work).do # "launch", Carries(v, c, at, pic)
  PROVE  Carries(w, next, at, pic)
<1> DEFINE work == c.work
<1>1. PICK ready :
        /\ at[c.dst] \subseteq ready /\ ready \subseteq Of(Names(c), DOMAIN v)
        /\ Orderly(work, at[c.src], ready, at) /\ Filled(v, work, ready, pic)
  BY DEF Carries
<1>2. /\ work \in Seq(GoingOn \union Concluding) /\ work # <<>> /\ next.work = Tail(work)
      /\ next.src = c.src /\ next.dst = c.dst /\ Names(next) = Names(c)
  BY DEF Further, Names
<1>3. /\ Head(work) = work[1] /\ 1 \notin Launches(work)
      /\ \A i \in Launches(work) : i \in Nat /\ i >= 1
  BY <1>2, WorkTail, StepsTail DEF Launches
<1>4. ASSUME NEW p \in ready PROVE Good(w, p, pic) \/ Covered(Tail(work), 0, p)
  <2>1. w[p] = v[p]
    BY <1>1 DEF Of, Changes
  <2>2. Covered(work, 0, p) => Covered(work, 0 + 1, p)
    BY <1>3 DEF Covered
  <2>3. Covered(work, 0 + 1, p) => Covered(Tail(work), 0, p)
    BY <1>2, CoveredTail
  <2> QED BY <1>1, <2>1, <2>2, <2>3 DEF Filled, Good
<1>5. DOMAIN w = DOMAIN v
  BY DEF Changes
<1>6. Orderly(Tail(work), at[c.src], ready, at) /\ Filled(w, Tail(work), ready, pic)
  BY <1>1, <1>2, <1>4, OrderlyTail DEF Filled
<1> QED BY <1>1, <1>2, <1>5, <1>6 DEF Carries

\* A call that has nothing left to do has filled its destination.
LEMMA CarriedOut ==
  ASSUME NEW v, NEW c, NEW at, NEW pic, c.work = <<>>, Carries(v, c, at, pic)
  PROVE  Holds(v, at[c.dst], pic)
<1>1. Launches(<<>>) = {}
  BY DEF Launches
<1> QED BY <1>1 DEF Carries, Filled, Covered, Holds

-----------------------------------------------------------------------------
(***************************************************************************)
(* What the work of each task is, when it begins.                          *)
(***************************************************************************)
AllPlaces == UNION {At[o] : o \in Object \union Temporary}

LEMMA PartsOfFormats ==
  ASSUME NEW f \in SurfaceFormat
  PROVE  /\ 0 \in Components(f) /\ NumPlanes(f) \in 1 .. 3
         /\ \A i \in 1 .. NumPlanes(f) :
              /\ ComponentsOfPlane(f, i - 1) \subseteq Components(f)
              /\ 0 \in ComponentsOfPlane(f, i - 1) <=> i = 1
         /\ \A c \in Components(f) : \E i \in 1 .. NumPlanes(f) : c \in ComponentsOfPlane(f, i - 1)
<1>1. CASE f \in {"YUV420", "YUV422", "YUV444", "YUV444_10bit"}
  <2>1. NumPlanes(f) = 3 /\ NumComponents(f) = 3
    BY <1>1 DEF NumPlanes, NumComponents
  <2>2. \A i : ComponentsOfPlane(f, i) = {i}
    BY <2>1 DEF ComponentsOfPlane
  <2>3. Components(f) = 0 .. 2
    BY <2>1 DEF Components
  <2>4. \A c \in 0 .. 2 : c + 1 \in 1 .. 3 /\ c = (c + 1) - 1
    OBVIOUS
  <2> QED BY <2>1, <2>2, <2>3, <2>4
<1>2. CASE f \notin {"YUV420", "YUV422", "YUV444", "YUV444_10bit"}
  <2>1. NumPlanes(f) = 1 /\ NumComponents(f) \in 1 .. 3
    BY <1>2 DEF NumPlanes, NumComponents
  <2>2. \A i : ComponentsOfPlane(f, i) = Components(f)
    BY <2>1 DEF ComponentsOfPlane
  <2>3. 0 \in Components(f)
    BY <2>1 DEF Components
  <2> QED BY <2>1, <2>2, <2>3
<1> QED BY <1>1, <1>2

LEMMA WhereThings ==
  ASSUME scenario \in Scenario
  PROVE  /\ DOMAIN At = Object \union Temporary
         /\ \A o \in Object \union Temporary :
              /\ At[o] = Places(o) /\ At[o] \subseteq AllPlaces /\ <<o, 0>> \in At[o]
              /\ \A p \in At[o] : p[1] = o /\ p \in Place
         /\ \A s \in Surface : At[s] = {s} \X Components(kind[s].format)
         /\ \A a \in HostArray : At[a] = {a} \X (0 .. NumPlanes(kind[a].format) - 1)
         /\ \A t \in {"src_yuv420", "dst_yuv420"} : At[t] = {t} \X (0 .. 2)
         /\ At["scratch"] = {"scratch"} \X {0}
<1>1. \A o \in Object : kind[o].format \in SurfaceFormat
  BY ScenarioTypes
<1>2. /\ \A s \in Surface : s \in Object /\ s \notin HostArray /\ s \notin Temporary
      /\ \A a \in HostArray : a \in Object /\ a \notin Surface /\ a \notin Temporary
      /\ \A t \in Temporary : t \notin Surface /\ t \notin HostArray
  BY SurfaceTasksAssumption, NamesAssumption DEF Object
<1>3. \A s \in Surface : Parts(s) = Components(kind[s].format)
  BY <1>2 DEF Parts, Temporary
<1>4. \A a \in HostArray : Parts(a) = 0 .. NumPlanes(kind[a].format) - 1
  BY <1>2 DEF Parts, Temporary
<1>5. /\ Parts("scratch") = {0}
      /\ \A t \in {"src_yuv420", "dst_yuv420"} : Parts(t) = 0 .. 2
  <2>1. Components("YUV420") = 0 .. 2
    BY DEF Components, NumComponents
  <2> QED BY <1>2, <2>1 DEF Parts, Temporary
<1>6. \A o \in Object \union Temporary : 0 \in Parts(o)
  <2>1. \A f \in SurfaceFormat : 0 \in Components(f) /\ 0 \in 0 .. NumPlanes(f) - 1
    BY PartsOfFormats
  <2>2. \A s \in Surface : 0 \in Parts(s)
    BY <1>1, <1>2, <1>3, <2>1
  <2>3. \A a \in HostArray : 0 \in Parts(a)
    BY <1>1, <1>2, <1>4, <2>1
  <2>4. \A t \in Temporary : 0 \in Parts(t)
    BY <1>5 DEF Temporary
  <2> QED BY <2>2, <2>3, <2>4 DEF Object
<1>7. \A o \in Object \union Temporary : At[o] = Places(o)
  BY DEF At
<1>8. \A o \in Object \union Temporary : \A p \in At[o] : p[1] = o /\ p \in Place
  BY <1>7, PartsAreFew DEF Places
<1>9. \A o \in Object \union Temporary : <<o, 0>> \in At[o]
  BY <1>6, <1>7 DEF Places
<1>10. \A o \in Object \union Temporary : At[o] \subseteq AllPlaces
  BY DEF AllPlaces
<1>11. DOMAIN At = Object \union Temporary
  BY DEF At
<1>12. \A s \in Surface : At[s] = {s} \X Components(kind[s].format)
  BY <1>2, <1>3, <1>7 DEF Places
<1>13. \A a \in HostArray : At[a] = {a} \X (0 .. NumPlanes(kind[a].format) - 1)
  BY <1>2, <1>4, <1>7 DEF Places
<1>14. /\ \A t \in {"src_yuv420", "dst_yuv420"} : At[t] = {t} \X (0 .. 2)
       /\ At["scratch"] = {"scratch"} \X {0}
  BY <1>5, <1>7 DEF Places, Temporary
<1> QED BY <1>7, <1>8, <1>9, <1>10, <1>11, <1>12, <1>13, <1>14

LEMMA PlanesOfSurfaces ==
  ASSUME scenario \in Scenario, NEW s \in Surface
  PROVE  LET n == NumPlanes(kind[s].format)
         IN /\ n \in 1 .. 3
            /\ \A i \in 1 .. n : /\ PlanePlaces(s, i - 1) \subseteq At[s]
                                 /\ HasFirst(PlanePlaces(s, i - 1)) <=> i = 1
            /\ \A p \in At[s] : \E i \in 1 .. n : p \in PlanePlaces(s, i - 1)
<1> DEFINE f == kind[s].format
           n == NumPlanes(f)
<1>1. f \in SurfaceFormat /\ At[s] = {s} \X Components(f)
  BY ScenarioTypes, WhereThings DEF Object
<1>2. /\ 0 \in Components(f) /\ n \in 1 .. 3
      /\ \A i \in 1 .. n : /\ ComponentsOfPlane(f, i - 1) \subseteq Components(f)
                           /\ 0 \in ComponentsOfPlane(f, i - 1) <=> i = 1
      /\ \A c \in Components(f) : \E i \in 1 .. n : c \in ComponentsOfPlane(f, i - 1)
  BY <1>1, PartsOfFormats
<1>3. \A i : PlanePlaces(s, i) = {s} \X ComponentsOfPlane(f, i)
  BY DEF PlanePlaces
<1>h. \A C : HasFirst({s} \X C) <=> 0 \in C
  <2> TAKE C
  <2>1. ASSUME 0 \in C PROVE HasFirst({s} \X C)
    <3>1. <<s, 0>> \in {s} \X C /\ <<s, 0>>[2] = 0
      BY <2>1
    <3> QED BY <3>1 DEF HasFirst
  <2>2. ASSUME HasFirst({s} \X C) PROVE 0 \in C
    BY <2>2 DEF HasFirst
  <2> QED BY <2>1, <2>2
<1> HIDE DEF f, n
<1>4. ASSUME NEW i \in 1 .. n
      PROVE  PlanePlaces(s, i - 1) \subseteq At[s] /\ (HasFirst(PlanePlaces(s, i - 1)) <=> i = 1)
  BY <1>1, <1>2, <1>3, <1>h
<1>5. ASSUME NEW p \in At[s] PROVE \E i \in 1 .. n : p \in PlanePlaces(s, i - 1)
  <2>1. p = <<s, p[2]>> /\ p[2] \in Components(f)
    BY <1>1
  <2>2. PICK i \in 1 .. n : p[2] \in ComponentsOfPlane(f, i - 1)
    BY <1>2, <2>1
  <2>3. <<s, p[2]>> \in {s} \X ComponentsOfPlane(f, i - 1)
    BY <2>2
  <2> QED BY <1>3, <2>1, <2>3
<1> QED BY <1>2, <1>4, <1>5 DEF n, f

-----------------------------------------------------------------------------
\* Steps that do nothing but what is planned, and do not refuse.
Sober(names, all) ==
  {x \in GoingOn \union Concluding :
     /\ x.do = "launch" => x.reads \subseteq all /\ \A p \in x.writes : p[1] \in names
     /\ x.do = "make" => x.temp \in names
     /\ x.do = "conclude" => x.info # "SUCCESS" /\ ~Refused(x.info)}

\* The work fills the destination with the picture of the source.
Promising(work, source, destination, names, all, at) ==
  \E ready :
    /\ destination \subseteq ready /\ ready \subseteq Of(names, all)
    /\ Orderly(work, source, ready, at) /\ \A p \in ready : Covered(work, 0, p)

LEMMA SoberPlanned ==
  ASSUME NEW names, NEW all, NEW work \in Seq(Sober(names, all))
  PROVE  /\ Planned(work, names, all)
         /\ work \in Seq(GoingOn \union Concluding)
<1>1. \A i \in DOMAIN work : work[i] \in Sober(names, all)
  OBVIOUS
<1>2. Planned(work, names, all)
  BY <1>1 DEF Planned, Sober, Launches, Makes, Concludes
<1>3. Sober(names, all) \subseteq GoingOn \union Concluding
  BY DEF Sober
<1>4. work \in Seq(GoingOn \union Concluding)
  <2> HIDE DEF Sober
  <2> QED BY <1>3
<1> QED BY <1>2, <1>4

LEMMA SoberSteps ==
  ASSUME NEW names, NEW all
  PROVE  /\ RecordEvent \in Sober(names, all) /\ WaitForEvent \in Sober(names, all)
         /\ \A t \in Temporary, size \in Nat \ {0} : t \in names => Make(t, size) \in Sober(names, all)
         /\ \A info \in Info : info # "SUCCESS" /\ ~Refused(info) => Conclude(info) \in Sober(names, all)
         /\ \A reads, writes \in SUBSET Place :
              reads \subseteq all /\ (\A p \in writes : p[1] \in names)
                => Launch(reads, writes) \in Sober(names, all)
<1>1. RecordEvent \in Sober(names, all) /\ WaitForEvent \in Sober(names, all)
  BY DEF Sober, RecordEvent, WaitForEvent, GoingOn
<1>2. \A t \in Temporary, size \in Nat \ {0} : t \in names => Make(t, size) \in Sober(names, all)
  <2>1. \A t \in Temporary, size \in Nat \ {0} :
          /\ Make(t, size) \in GoingOn
          /\ Make(t, size).do = "make" /\ Make(t, size).temp = t
    BY DEF Make, GoingOn
  <2> QED BY <2>1 DEF Sober
<1>3. \A info \in Info : info # "SUCCESS" /\ ~Refused(info) => Conclude(info) \in Sober(names, all)
  <2>1. \A info \in Info : /\ Conclude(info) \in Concluding
                           /\ Conclude(info).do = "conclude" /\ Conclude(info).info = info
    BY DEF Conclude, Concluding
  <2> QED BY <2>1 DEF Sober
<1>4. ASSUME NEW reads \in SUBSET Place, NEW writes \in SUBSET Place,
             reads \subseteq all, \A p \in writes : p[1] \in names
      PROVE  Launch(reads, writes) \in Sober(names, all)
  <2>1. /\ Launch(reads, writes) \in GoingOn /\ Launch(reads, writes).do = "launch"
        /\ Launch(reads, writes).reads = reads /\ Launch(reads, writes).writes = writes
    BY LaunchGoesOn DEF Launch
  <2> QED BY <1>4, <2>1 DEF Sober
<1> QED BY <1>1, <1>2, <1>3, <1>4

\* A refusal is all there is, or another failure.
LEMMA ConcludedAtOnce ==
  ASSUME NEW info \in Info, info # "SUCCESS", NEW names, NEW all
  PROVE  /\ Planned(<<Conclude(info)>>, names, all)
         /\ Concludes(<<Conclude(info)>>) = {1}
         /\ \A i \in Concludes(<<Conclude(info)>>) : <<Conclude(info)>>[i].info = info
<1> DEFINE work == <<Conclude(info)>>
<1>1. /\ DOMAIN work = {1} /\ Len(work) = 1 /\ work[1].do = "conclude" /\ work[1].info = info
  BY DEF Conclude
<1> HIDE DEF work
<1>2. Concludes(work) = {1} /\ Launches(work) = {} /\ Makes(work) = {}
  BY <1>1 DEF Concludes, Launches, Makes
<1>3. Planned(work, names, all)
  BY <1>1, <1>2 DEF Planned
<1> QED BY <1>1, <1>2, <1>3 DEF work

\* Work that goes straight from the source to the destination.
Straight(x, source, destination) ==
  /\ x.reads \subseteq source /\ x.writes \subseteq destination
  /\ HasFirst(x.writes) => HasFirst(x.reads)

LEMMA StraightPromising ==
  ASSUME NEW work, NEW source, NEW destination, NEW names, NEW all, NEW at,
         Makes(work) = {},
         \A i \in Launches(work) : i \in Nat /\ i > 0 /\ Straight(work[i], source, destination),
         \A p \in destination : \E i \in Launches(work) : p \in work[i].writes,
         source \intersect destination = {}, destination \subseteq Of(names, all)
  PROVE  Promising(work, source, destination, names, all, at)
<1>1. ASSUME NEW i \in Launches(work)
      PROVE  /\ work[i].reads \subseteq source \union destination
             /\ HasFirst(work[i].writes) => HasFirst(work[i].reads)
             /\ \A k \in Launches(work) : k >= i => work[k].writes \intersect work[i].reads = {}
  BY DEF Straight
<1>2. Orderly(work, source, destination, at)
  BY <1>1 DEF Orderly
<1>3. \A p \in destination : Covered(work, 0, p)
  BY DEF Covered
<1> QED BY <1>2, <1>3 DEF Promising

LEMMA PromisingMake ==
  ASSUME NEW work \in Seq(GoingOn \union Concluding), NEW source, NEW destination,
         NEW names, NEW all, NEW at, Promising(work, source, destination, names, all, at),
         NEW t \in Temporary, NEW size \in Nat \ {0}
  PROVE  Promising(<<Make(t, size)>> \o work, source, destination, names, all, at)
<1> DEFINE more == <<Make(t, size)>> \o work
           n == Len(work)
<1>1. PICK ready :
        /\ destination \subseteq ready /\ ready \subseteq Of(names, all)
        /\ Orderly(work, source, ready, at) /\ \A p \in ready : Covered(work, 0, p)
  BY DEF Promising
<1>2. Make(t, size) \in GoingOn \union Concluding /\ Make(t, size).do = "make"
  BY DEF Make, GoingOn
<1>3. <<Make(t, size)>> \in Seq(GoingOn \union Concluding) /\ Len(<<Make(t, size)>>) = 1
  BY <1>2
<1>4. /\ n \in Nat /\ DOMAIN work = 1 .. n /\ DOMAIN more = 1 .. n + 1
      /\ more[1] = Make(t, size) /\ \A i \in 1 .. n : more[i + 1] = work[i]
  <2>1. Len(more) = n + 1 /\ more \in Seq(GoingOn \union Concluding) /\ n \in Nat
    BY <1>3, ConcatProperties, LenProperties
  <2>2. DOMAIN work = 1 .. n /\ DOMAIN more = 1 .. n + 1
    BY <2>1, LenProperties
  <2>3. more[1] = Make(t, size) /\ \A i \in 1 .. n : more[i + 1] = work[i]
    <3>1. \A i \in 1 .. 1 + n : more[i] = IF i <= 1 THEN <<Make(t, size)>>[i] ELSE work[i - 1]
      BY <1>3, <2>1, ConcatProperties
    <3>2. more[1] = Make(t, size)
      BY <2>1, <3>1
    <3>3. ASSUME NEW i \in 1 .. n PROVE more[i + 1] = work[i]
      <4>1. i + 1 \in 1 .. 1 + n /\ ~(i + 1 <= 1) /\ (i + 1) - 1 = i
        BY <2>1
      <4> QED BY <3>1, <4>1
    <3> QED BY <3>2, <3>3
  <2> QED BY <2>1, <2>2, <2>3
<1> HIDE DEF more, n
<1>5. \A i \in 1 .. n + 1 : i = 1 \/ (i > 1 /\ i - 1 \in 1 .. n /\ more[i] = work[i - 1])
  BY <1>4
<1>6. 1 \notin Launches(more) /\ \A i \in Launches(more) : i - 1 \in Launches(work) /\ more[i] = work[i - 1] /\ i \in Nat
  BY <1>2, <1>4, <1>5 DEF Launches
<1>7. \A i \in Makes(more) : i = 1 \/ (i - 1 \in Makes(work) /\ more[i] = work[i - 1] /\ i \in Nat)
  BY <1>4, <1>5 DEF Makes
<1>8. ASSUME NEW k \in Nat, NEW p, Covered(work, k, p) PROVE Covered(more, k + 1, p)
  <2>1. PICK i \in Launches(work) : i > k /\ p \in work[i].writes
    BY <1>8 DEF Covered
  <2>2. i + 1 \in Launches(more) /\ more[i + 1] = work[i] /\ i + 1 > k + 1
    BY <1>4, <2>1 DEF Launches
  <2> QED BY <2>1, <2>2 DEF Covered
<1>9. \A p \in ready : Covered(more, 1, p)
  BY <1>1, <1>8
<1>10. \A p : Covered(more, 1, p) => Covered(more, 0, p)
  BY <1>6 DEF Covered
<1>11. ASSUME NEW i \in Launches(more)
       PROVE  /\ more[i].reads \subseteq source \union ready
              /\ HasFirst(more[i].writes) => HasFirst(more[i].reads)
              /\ \A k \in Launches(more) : k >= i => more[k].writes \intersect more[i].reads = {}
  <2>1. i - 1 \in Launches(work) /\ more[i] = work[i - 1] /\ i \in Nat
    BY <1>6
  <2>2. /\ work[i - 1].reads \subseteq source \union ready
        /\ HasFirst(work[i - 1].writes) => HasFirst(work[i - 1].reads)
        /\ \A k \in Launches(work) : k >= i - 1 => work[k].writes \intersect work[i - 1].reads = {}
    BY <1>1, <2>1 DEF Orderly
  <2>3. ASSUME NEW k \in Launches(more), k >= i PROVE more[k].writes \intersect more[i].reads = {}
    <3>1. k - 1 \in Launches(work) /\ more[k] = work[k - 1] /\ k - 1 >= i - 1
      BY <1>6, <2>1, <2>3
    <3> QED BY <2>1, <2>2, <3>1
  <2> QED BY <2>1, <2>2, <2>3
<1>12. ASSUME NEW i \in Makes(more), NEW p \in at[more[i].temp] \intersect ready
       PROVE  Covered(more, i, p)
  <2>1. CASE i = 1
    BY <1>9, <2>1
  <2>2. CASE i # 1
    <3>1. i - 1 \in Makes(work) /\ more[i] = work[i - 1] /\ i \in Nat
      BY <1>7, <2>2
    <3>2. Covered(work, i - 1, p)
      BY <1>1, <1>12, <3>1 DEF Orderly
    <3>3. i - 1 \in Nat /\ (i - 1) + 1 = i
      BY <1>4, <3>1 DEF Makes
    <3>4. Covered(more, (i - 1) + 1, p)
      BY <1>8, <3>2, <3>3
    <3> QED BY <3>3, <3>4
  <2> QED BY <2>1, <2>2
<1>13. Orderly(more, source, ready, at)
  BY <1>11, <1>12 DEF Orderly
<1>14. \A p \in ready : Covered(more, 0, p)
  BY <1>9, <1>10
<1>15. Promising(more, source, destination, names, all, at)
  BY <1>1, <1>13, <1>14 DEF Promising
<1> QED BY <1>15 DEF more

LEMMA PromisingMade ==
  ASSUME NEW work \in Seq(GoingOn \union Concluding), NEW source, NEW destination,
         NEW names, NEW all, NEW at, Promising(work, source, destination, names, all, at),
         NEW t \in Temporary, NEW size \in Nat \ {0}
  PROVE  Promising(MakeIfNeeded(t, size) \o work, source, destination, names, all, at)
<1>1. <<>> \o work = work
  BY ConcatEmptySeq
<1> QED BY <1>1, PromisingMake DEF MakeIfNeeded

-----------------------------------------------------------------------------
WellMade(work, s, d, names, packed) ==
  /\ Planned(work, names, AllPlaces)
  /\ Concludes(work) = {} /\ ~packed => Promising(work, At[s], At[d], names, AllPlaces, At)

LEMMA RefusalMade ==
  ASSUME NEW info \in Info, info # "SUCCESS", NEW s, NEW d, NEW names, NEW packed
  PROVE  WellMade(<<Conclude(info)>>, s, d, names, packed)
BY ConcludedAtOnce DEF WellMade

\* Two objects have no place in common.
LEMMA Apart ==
  ASSUME scenario \in Scenario, NEW s \in Object, NEW d \in Object, s # d, NEW names, d \in names
  PROVE  At[s] \intersect At[d] = {} /\ At[d] \subseteq Of(names, AllPlaces)
<1>1. /\ At[s] \subseteq AllPlaces /\ At[d] \subseteq AllPlaces
      /\ \A p \in At[s] : p[1] = s
      /\ \A p \in At[d] : p[1] = d
  BY WhereThings
<1> QED BY <1>1 DEF Of

\* One launch for each plane, or in one go.
InTurns(work, n, from, to, source, destination) ==
  /\ work = [i \in 1 .. n |-> work[i]]
  /\ \A i \in 1 .. n : /\ work[i] = Launch(from[i], to[i])
                       /\ from[i] \subseteq source /\ to[i] \subseteq destination
                       /\ HasFirst(to[i]) => HasFirst(from[i])
  /\ \A p \in destination : \E i \in 1 .. n : p \in to[i]

LEMMA PlaneByPlane ==
  ASSUME scenario \in Scenario, NEW s \in Object, NEW d \in Object, s # d, NEW names, d \in names,
         NEW n \in 1 .. 3, NEW work, NEW from, NEW to, InTurns(work, n, from, to, At[s], At[d])
  PROVE  WellMade(work, s, d, names, FALSE)
<1>0. /\ work = [i \in 1 .. n |-> work[i]]
      /\ \A i \in 1 .. n : /\ work[i] = Launch(from[i], to[i])
                           /\ from[i] \subseteq At[s] /\ to[i] \subseteq At[d]
                           /\ HasFirst(to[i]) => HasFirst(from[i])
      /\ \A p \in At[d] : \E i \in 1 .. n : p \in to[i]
  BY DEF InTurns
<1>1. /\ At[s] \intersect At[d] = {} /\ At[d] \subseteq Of(names, AllPlaces)
      /\ At[s] \subseteq AllPlaces
      /\ \A p \in At[s] : p \in Place
      /\ \A p \in At[d] : p \in Place /\ p[1] \in names
  <2>1. /\ At[s] \subseteq AllPlaces /\ \A p \in At[s] : p \in Place
        /\ \A p \in At[d] : p \in Place /\ p[1] = d
    BY WhereThings
  <2> QED BY <2>1, Apart
<1>2. \A i \in 1 .. n : work[i].do = "launch" /\ work[i].reads = from[i] /\ work[i].writes = to[i]
  BY <1>0 DEF Launch
<1>3. DOMAIN work = 1 .. n
  BY <1>0
<1>4. Launches(work) = 1 .. n /\ Makes(work) = {}
  BY <1>2, <1>3 DEF Launches, Makes
<1>5. ASSUME NEW i \in 1 .. n PROVE work[i] \in Sober(names, AllPlaces)
  <2>1. from[i] \subseteq At[s] /\ to[i] \subseteq At[d] /\ work[i] = Launch(from[i], to[i])
    BY <1>0
  <2>2. /\ from[i] \in SUBSET Place /\ to[i] \in SUBSET Place
        /\ from[i] \subseteq AllPlaces /\ \A p \in to[i] : p[1] \in names
    BY <1>1, <2>1
  <2> QED BY <2>1, <2>2, SoberSteps
<1>6. work \in Seq(Sober(names, AllPlaces))
  <2> HIDE DEF Sober
  <2> QED BY <1>0, <1>5
<1>7. Planned(work, names, AllPlaces)
  BY <1>6, SoberPlanned
<1>8. \A i \in Launches(work) : i \in Nat /\ i > 0 /\ Straight(work[i], At[s], At[d])
  BY <1>0, <1>2, <1>4 DEF Straight
<1>9. \A p \in At[d] : \E i \in Launches(work) : p \in work[i].writes
  BY <1>0, <1>2, <1>4
<1>10. Promising(work, At[s], At[d], names, AllPlaces, At)
  BY <1>1, <1>4, <1>8, <1>9, StraightPromising
<1> QED BY <1>7, <1>10 DEF WellMade

LEMMA OneByOne ==
  ASSUME scenario \in Scenario, NEW array \in HostArray, NEW s \in Surface, kind[array] = kind[s]
  PROVE  LET n == NumPlanes(kind[s].format)
         IN /\ \A i \in 1 .. n : {<<array, i - 1>>} \subseteq At[array] /\ (HasFirst({<<array, i - 1>>}) <=> i = 1)
            /\ \A p \in At[array] : \E i \in 1 .. n : p \in {<<array, i - 1>>}
<1> DEFINE n == NumPlanes(kind[s].format)
<1>1. n \in 1 .. 3
  BY PlanesOfSurfaces
<1>2. At[array] = {array} \X (0 .. n - 1)
  BY WhereThings
<1> HIDE DEF n
<1>3. ASSUME NEW i \in 1 .. n
      PROVE  {<<array, i - 1>>} \subseteq At[array] /\ (HasFirst({<<array, i - 1>>}) <=> i = 1)
  <2>1. i - 1 \in 0 .. n - 1 /\ (i - 1 = 0 <=> i = 1)
    BY <1>1
  <2>2. HasFirst({<<array, i - 1>>}) <=> i - 1 = 0
    BY DEF HasFirst
  <2> QED BY <1>2, <2>1, <2>2
<1>4. ASSUME NEW p \in At[array] PROVE \E i \in 1 .. n : p \in {<<array, i - 1>>}
  <2>1. p = <<array, p[2]>> /\ p[2] \in 0 .. n - 1
    BY <1>2
  <2>2. p[2] + 1 \in 1 .. n /\ (p[2] + 1) - 1 = p[2]
    BY <1>1, <2>1
  <2> QED BY <2>1, <2>2
<1> QED BY <1>3, <1>4 DEF n

LEMMA UploadMade ==
  ASSUME scenario \in Scenario, NEW array \in HostArray, NEW s \in Surface, NEW names, s \in names,
         kind[array] = kind[s] \/ HostMemSize(array) # HostMemSize(s)
  PROVE  WellMade(Upload(array, s), array, s, names, FALSE)
<1> DEFINE n == NumPlanes(kind[s].format)
           from == [i \in 1 .. n |-> {<<array, i - 1>>}]
           to == [i \in 1 .. n |-> PlanePlaces(s, i - 1)]
           work == [i \in 1 .. n |-> Launch(from[i], to[i])]
<1>1. CASE HostMemSize(array) # HostMemSize(s)
  <2>1. Upload(array, s) = <<Conclude("SRC_DST_SIZE_MISMATCH")>>
    BY <1>1 DEF Upload
  <2> QED BY <2>1, RefusalMade DEF Info
<1>2. CASE ~(HostMemSize(array) # HostMemSize(s))
  <2>1. Upload(array, s) = work
    BY <1>2 DEF Upload
  <2>2. kind[array] = kind[s] /\ array \in Object /\ s \in Object /\ array # s
    BY <1>2, SurfaceTasksAssumption DEF Object
  <2>3. /\ n \in 1 .. 3
        /\ \A i \in 1 .. n : PlanePlaces(s, i - 1) \subseteq At[s] /\ (HasFirst(PlanePlaces(s, i - 1)) <=> i = 1)
        /\ \A p \in At[s] : \E i \in 1 .. n : p \in PlanePlaces(s, i - 1)
    BY PlanesOfSurfaces
  <2>4. \A i \in 1 .. n : {<<array, i - 1>>} \subseteq At[array] /\ (HasFirst({<<array, i - 1>>}) <=> i = 1)
    BY <2>2, OneByOne
  <2>5. \A i \in 1 .. n : from[i] = {<<array, i - 1>>} /\ to[i] = PlanePlaces(s, i - 1) /\ work[i] = Launch(from[i], to[i])
    OBVIOUS
  <2>6. work = [i \in 1 .. n |-> work[i]]
    OBVIOUS
  <2> HIDE DEF work, from, to, n
  <2>7. ASSUME NEW i \in 1 .. n
        PROVE  from[i] \subseteq At[array] /\ to[i] \subseteq At[s] /\ (HasFirst(to[i]) => HasFirst(from[i]))
    <3>1. from[i] \subseteq At[array] /\ (HasFirst(from[i]) <=> i = 1)
      BY <2>4, <2>5
    <3>2. to[i] \subseteq At[s] /\ (HasFirst(to[i]) <=> i = 1)
      BY <2>3, <2>5
    <3> QED BY <3>1, <3>2
  <2>10. \A p \in At[s] : \E i \in 1 .. n : p \in to[i]
    BY <2>3, <2>5
  <2>11. InTurns(work, n, from, to, At[array], At[s])
    BY <2>5, <2>6, <2>7, <2>10 DEF InTurns
  <2>8. WellMade(work, array, s, names, FALSE)
    BY <2>2, <2>3, <2>11, PlaneByPlane
  <2> QED BY <2>1, <2>8
<1> QED BY <1>1, <1>2

LEMMA DownloadMade ==
  ASSUME scenario \in Scenario, NEW array \in HostArray, NEW s \in Surface, NEW names, array \in names,
         kind[array] = kind[s] \/ HostMemSize(array) # HostMemSize(s)
  PROVE  /\ WellMade(Download(s, array), s, array, names, FALSE)
         /\ \A i \in Concludes(Download(s, array)) : Download(s, array)[i].info # "EXCEPTION"
<1> DEFINE n == NumPlanes(kind[s].format)
           to == [i \in 1 .. n |-> {<<array, i - 1>>}]
           from == [i \in 1 .. n |-> PlanePlaces(s, i - 1)]
           work == [i \in 1 .. n |-> Launch(from[i], to[i])]
<1>1. CASE HostMemSize(array) # HostMemSize(s)
  <2>1. Download(s, array) = <<Conclude("SRC_DST_SIZE_MISMATCH")>>
    BY <1>1 DEF Download
  <2>2. "SRC_DST_SIZE_MISMATCH" \in Info
    BY DEF Info
  <2>3. WellMade(Download(s, array), s, array, names, FALSE)
    BY <2>1, <2>2, RefusalMade
  <2>4. \A i \in Concludes(Download(s, array)) : Download(s, array)[i].info = "SRC_DST_SIZE_MISMATCH"
    BY <2>1, <2>2, ConcludedAtOnce
  <2> QED BY <2>3, <2>4
<1>2. CASE ~(HostMemSize(array) # HostMemSize(s))
  <2>1. Download(s, array) = work
    BY <1>2 DEF Download
  <2>2. kind[array] = kind[s] /\ array \in Object /\ s \in Object /\ array # s
    BY <1>2, SurfaceTasksAssumption DEF Object
  <2>3. /\ n \in 1 .. 3
        /\ \A i \in 1 .. n : PlanePlaces(s, i - 1) \subseteq At[s] /\ (HasFirst(PlanePlaces(s, i - 1)) <=> i = 1)
    BY PlanesOfSurfaces
  <2>4. /\ \A i \in 1 .. n : {<<array, i - 1>>} \subseteq At[array] /\ (HasFirst({<<array, i - 1>>}) <=> i = 1)
        /\ \A p \in At[array] : \E i \in 1 .. n : p \in {<<array, i - 1>>}
    BY <2>2, OneByOne
  <2>5. \A i \in 1 .. n : to[i] = {<<array, i - 1>>} /\ from[i] = PlanePlaces(s, i - 1) /\ work[i] = Launch(from[i], to[i])
    OBVIOUS
  <2>6. work = [i \in 1 .. n |-> work[i]]
    OBVIOUS
  <2>9. DOMAIN work = 1 .. n
    OBVIOUS
  <2> HIDE DEF work, from, to, n
  <2>7. ASSUME NEW i \in 1 .. n
        PROVE  from[i] \subseteq At[s] /\ to[i] \subseteq At[array] /\ (HasFirst(to[i]) => HasFirst(from[i]))
    <3>1. to[i] \subseteq At[array] /\ (HasFirst(to[i]) <=> i = 1)
      BY <2>4, <2>5
    <3>2. from[i] \subseteq At[s] /\ (HasFirst(from[i]) <=> i = 1)
      BY <2>3, <2>5
    <3> QED BY <3>1, <3>2
  <2>12. \A p \in At[array] : \E i \in 1 .. n : p \in to[i]
    BY <2>4, <2>5
  <2>11. InTurns(work, n, from, to, At[s], At[array])
    BY <2>5, <2>6, <2>7, <2>12 DEF InTurns
  <2>8. WellMade(work, s, array, names, FALSE)
    BY <2>2, <2>3, <2>11, PlaneByPlane
  <2>10. Concludes(work) = {}
    BY <2>5, <2>9 DEF Concludes, Launch
  <2> QED BY <2>1, <2>8, <2>10
<1> QED BY <1>1, <1>2

-----------------------------------------------------------------------------
\* What the calls of NPP read and write.
LEMMA NppCallsFit ==
  ASSUME NEW r \in Conversions, NEW cc
  PROVE  LET npp == NppCalls(r, cc)
         IN /\ \E n \in 1 .. 3 : npp = [i \in 1 .. n |-> npp[i]]
            /\ \A i \in DOMAIN npp : npp[i].reads \subseteq Components(r.src) /\ npp[i].writes \subseteq Components(r.dst)
            /\ ~(r = rgb_yuv444 /\ cc[2] = "MPEG") =>
                 /\ \A i \in DOMAIN npp : 0 \in npp[i].writes => 0 \in npp[i].reads
                 /\ \A c \in Components(r.dst) : \E i \in DOMAIN npp : c \in npp[i].writes
<1> DEFINE npp == NppCalls(r, cc)
<1>1. /\ y_yuv444.src = "Y" /\ y_yuv444.dst = "YUV444" /\ nv12_y.src = "NV12" /\ nv12_y.dst = "Y"
      /\ rgb_yuv444.src = "RGB" /\ rgb_yuv444.dst = "YUV444"
  BY DEF y_yuv444, nv12_y, rgb_yuv444, Row
<1>2. /\ Components("Y") = 0 .. 0 /\ Components("RGB") = 0 .. 0
      /\ Components("YUV444") = 0 .. 2 /\ Components("NV12") = 0 .. 1
  BY DEF Components, NumComponents
<1>3. \A x : DOMAIN <<x>> = 1 .. 1 /\ <<x>> = [i \in 1 .. 1 |-> <<x>>[i]] /\ <<x>>[1] = x
  OBVIOUS
<1>4. CASE r = y_yuv444
  <2>1. npp = << [reads |-> {}, writes |-> {1}], [reads |-> {}, writes |-> {2}],
                 [reads |-> {0}, writes |-> {0}] >>
    BY <1>1, <1>4 DEF NppCalls
  <2>2. npp = [i \in 1 .. 3 |-> npp[i]] /\ DOMAIN npp = 1 .. 3
    BY <2>1
  <2>3. /\ npp[1].reads = {} /\ npp[1].writes = {1} /\ npp[2].reads = {} /\ npp[2].writes = {2}
        /\ npp[3].reads = {0} /\ npp[3].writes = {0}
    BY <2>1
  <2> HIDE DEF npp
  <2>4. \A i \in DOMAIN npp : i = 1 \/ i = 2 \/ i = 3
    BY <2>2
  <2>5. \A i \in DOMAIN npp : npp[i].reads \subseteq 0 .. 0 /\ npp[i].writes \subseteq 0 .. 2
                              /\ (0 \in npp[i].writes => 0 \in npp[i].reads)
    BY <2>3, <2>4
  <2>6. \A c \in 0 .. 2 : \E i \in DOMAIN npp : c \in npp[i].writes
    <3>1. \A c \in 0 .. 2 : c = 0 \/ c = 1 \/ c = 2
      OBVIOUS
    <3> QED BY <2>2, <2>3, <3>1
  <2>7. 3 \in 1 .. 3
    OBVIOUS
  <2>8. Components(r.src) = 0 .. 0 /\ Components(r.dst) = 0 .. 2
    BY <1>1, <1>2, <1>4
  <2> QED BY <2>2, <2>5, <2>6, <2>7, <2>8 DEF npp
<1>5. CASE r = nv12_y
  <2>1. npp = << [reads |-> {0}, writes |-> {0}] >>
    BY <1>1, <1>5 DEF NppCalls
  <2>2. /\ npp = [i \in 1 .. 1 |-> npp[i]] /\ DOMAIN npp = 1 .. 1
        /\ npp[1].reads = {0} /\ npp[1].writes = {0}
    BY <1>3, <2>1
  <2>3. Components(r.src) = 0 .. 1 /\ Components(r.dst) = 0 .. 0
    BY <1>1, <1>2, <1>5
  <2> HIDE DEF npp
  <2> QED BY <2>2, <2>3 DEF npp
<1>6. CASE r = rgb_yuv444 /\ cc[2] = "MPEG"
  <2>1. npp = << [reads |-> {0}, writes |-> {0}] >>
    BY <1>1, <1>6 DEF NppCalls
  <2>2. /\ npp = [i \in 1 .. 1 |-> npp[i]] /\ DOMAIN npp = 1 .. 1
        /\ npp[1].reads = {0} /\ npp[1].writes = {0}
    BY <1>3, <2>1
  <2>3. Components(r.src) = 0 .. 0 /\ Components(r.dst) = 0 .. 2
    BY <1>1, <1>2, <1>6
  <2> HIDE DEF npp
  <2> QED BY <1>6, <2>2, <2>3 DEF npp
<1>7. CASE r # y_yuv444 /\ r # nv12_y /\ ~(r = rgb_yuv444 /\ cc[2] = "MPEG")
  <2>1. npp = << [reads |-> Components(r.src), writes |-> Components(r.dst)] >>
    BY <1>7 DEF NppCalls
  <2>2. /\ npp = [i \in 1 .. 1 |-> npp[i]] /\ DOMAIN npp = 1 .. 1
        /\ npp[1].reads = Components(r.src) /\ npp[1].writes = Components(r.dst)
    BY <1>3, <2>1
  <2>3. 0 \in Components(r.src)
    BY DefaultColors, PartsOfFormats
  <2> HIDE DEF npp
  <2> QED BY <2>2, <2>3 DEF npp
<1> QED BY <1>4, <1>5, <1>6, <1>7

-----------------------------------------------------------------------------
LEMMA NppWork ==
  ASSUME scenario \in Scenario, NEW s \in Surface, NEW d \in Surface, s # d, NEW cc,
         NEW names, d \in names, Validate(row, kind[s], kind[d])
  PROVE  LET npp == NppCalls(row, cc)
             work == [i \in DOMAIN npp |-> Launch({s} \X npp[i].reads, {d} \X npp[i].writes)]
         IN /\ work \in Seq(Sober(names, AllPlaces))
            /\ WellMade(work, s, d, names, row = rgb_yuv444 /\ cc[2] = "MPEG")
<1> DEFINE npp == NppCalls(row, cc)
           from == [i \in DOMAIN npp |-> {s} \X npp[i].reads]
           to == [i \in DOMAIN npp |-> {d} \X npp[i].writes]
           work == [i \in DOMAIN npp |-> Launch(from[i], to[i])]
           packed == row = rgb_yuv444 /\ cc[2] = "MPEG"
<1>1. row \in Conversions /\ s \in Object /\ d \in Object
  BY ScenarioTypes DEF Object
<1>2. At[s] = {s} \X Components(row.src) /\ At[d] = {d} \X Components(row.dst)
  BY WhereThings DEF Validate
<1>3. /\ \E n \in 1 .. 3 : npp = [i \in 1 .. n |-> npp[i]]
      /\ \A i \in DOMAIN npp : npp[i].reads \subseteq Components(row.src) /\ npp[i].writes \subseteq Components(row.dst)
      /\ ~packed => /\ \A i \in DOMAIN npp : 0 \in npp[i].writes => 0 \in npp[i].reads
                    /\ \A c \in Components(row.dst) : \E i \in DOMAIN npp : c \in npp[i].writes
  BY <1>1, NppCallsFit
<1>4. PICK n \in 1 .. 3 : DOMAIN npp = 1 .. n
  BY <1>3
<1>5. /\ \A i \in 1 .. n : /\ from[i] = {s} \X npp[i].reads /\ to[i] = {d} \X npp[i].writes
                           /\ work[i] = Launch(from[i], to[i])
      /\ work = [i \in 1 .. n |-> work[i]]
  BY <1>4
<1>w. work = [i \in DOMAIN npp |-> Launch({s} \X npp[i].reads, {d} \X npp[i].writes)]
  BY <1>4, <1>5
<1> HIDE DEF npp, from, to, work, packed
<1>6. \A i \in 1 .. n : from[i] \subseteq At[s] /\ to[i] \subseteq At[d]
  BY <1>2, <1>3, <1>4, <1>5
<1>7. work \in Seq(Sober(names, AllPlaces))
  <2>1. ASSUME NEW i \in 1 .. n PROVE work[i] \in Sober(names, AllPlaces)
    <3>1. /\ At[s] \subseteq AllPlaces /\ \A p \in At[s] : p \in Place
          /\ \A p \in At[d] : p \in Place /\ p[1] = d
      BY <1>1, WhereThings
    <3>2. /\ from[i] \in SUBSET Place /\ to[i] \in SUBSET Place
          /\ from[i] \subseteq AllPlaces /\ \A p \in to[i] : p[1] \in names
      BY <1>6, <3>1
    <3> QED BY <1>5, <3>2, SoberSteps
  <2> HIDE DEF Sober
  <2> QED BY <1>5, <2>1
<1>8. ASSUME ~packed PROVE InTurns(work, n, from, to, At[s], At[d])
  <2>1. \A S, x : HasFirst({x} \X S) <=> 0 \in S
    <3> TAKE S, x
    <3>1. ASSUME 0 \in S PROVE HasFirst({x} \X S)
      <4>1. <<x, 0>> \in {x} \X S /\ <<x, 0>>[2] = 0
        BY <3>1
      <4> QED BY <4>1 DEF HasFirst
    <3>2. ASSUME HasFirst({x} \X S) PROVE 0 \in S
      BY <3>2 DEF HasFirst
    <3> QED BY <3>1, <3>2
  <2>2. ASSUME NEW i \in 1 .. n PROVE HasFirst(to[i]) => HasFirst(from[i])
    <3>3. /\ HasFirst({d} \X npp[i].writes) <=> 0 \in npp[i].writes
          /\ HasFirst({s} \X npp[i].reads) <=> 0 \in npp[i].reads
      BY <2>1
    <3>4. to[i] = {d} \X npp[i].writes /\ from[i] = {s} \X npp[i].reads
      BY <1>5
    <3>1. /\ HasFirst(to[i]) <=> 0 \in npp[i].writes
          /\ HasFirst(from[i]) <=> 0 \in npp[i].reads
      BY <3>3, <3>4, Zenon
    <3>2. 0 \in npp[i].writes => 0 \in npp[i].reads
      BY <1>3, <1>4, <1>8
    <3> QED BY <3>1, <3>2
  <2>3. ASSUME NEW p \in At[d] PROVE \E i \in 1 .. n : p \in to[i]
    <3>1. p = <<d, p[2]>> /\ p[2] \in Components(row.dst)
      BY <1>2
    <3>2. PICK i \in 1 .. n : p[2] \in npp[i].writes
      BY <1>3, <1>4, <1>8, <3>1
    <3>3. <<d, p[2]>> \in {d} \X npp[i].writes
      BY <3>2
    <3> QED BY <1>5, <3>1, <3>3
  <2> QED BY <1>5, <1>6, <2>2, <2>3 DEF InTurns
<1>9. WellMade(work, s, d, names, packed)
  <2>1. CASE packed
    BY <1>7, <2>1, SoberPlanned DEF WellMade
  <2>2. CASE ~packed
    BY <1>1, <1>8, <2>2, PlaneByPlane DEF WellMade
  <2> QED BY <2>1, <2>2
<1>10. work \in Seq(Sober(names, AllPlaces)) /\ WellMade(work, s, d, names, packed)
  BY <1>7, <1>9
<1> QED BY <1>w, <1>10 DEF npp, packed

\* How rows are validated, and the one for which Execute may not return.
LEMMA RowKinds ==
  ASSUME NEW r \in Conversions
  PROVE  /\ r.validate \in {"first", "afterColors", "ignored"}
         /\ r.noReturn # {} => r.src = "NV12" /\ r.dst = "BGR"
<1>1. CASE r \in {nv12_yuv420, yuv420_nv12, nv12_rgb, rgb8_deinterleave, rgb8_interleave, y_yuv444,
                yuv420_rgb, rgb_yuv420, rgb_yuv444, rgb_bgr, bgr_rgb, yuv420_bgr}
  BY <1>1 DEF nv12_yuv420, yuv420_nv12, nv12_rgb, rgb8_deinterleave, rgb8_interleave, y_yuv444, Row,
              yuv420_rgb, rgb_yuv420, rgb_yuv444, rgb_bgr, bgr_rgb, yuv420_bgr
<1>2. CASE r \in {p16_nv12("P10"), p16_nv12("P12")}
  BY <1>2 DEF p16_nv12, Row
<1>3. CASE r \in {nv12_y, rbg8_rgb32f, rbg8_y, rgb32f_deinterleave}
  BY <1>3 DEF nv12_y, rbg8_rgb32f, rbg8_y, rgb32f_deinterleave, Row
<1>4. CASE r \in {yuv444_bgr, bgr_yuv444, yuv444_rgb}
  BY <1>4 DEF yuv444_bgr, bgr_yuv444, yuv444_rgb, Row
<1>5. CASE r = nv12_bgr
  BY <1>5 DEF nv12_bgr, Row
<1>6. CASE r = rgb_planar_yuv444
  BY <1>6 DEF rgb_planar_yuv444, Row
<1> QED BY <1>1, <1>2, <1>3, <1>4, <1>5, <1>6 DEF Conversions

\* What is known of a row when Execute goes on.
LEMMA GoesOn ==
  ASSUME NEW r \in Conversions, NEW src, NEW dst, NEW cc, Answer(r, src, dst, cc) = "NONE",
         r.validate = "ignored" => Validate(r, src, dst)
  PROVE  Validate(r, src, dst)
<1>1. r.validate \in {"first", "afterColors", "ignored"}
  BY RowKinds
<1>2. CASE r.validate = "first"
  BY <1>2 DEF Answer
<1>3. CASE r.validate = "afterColors"
  <2>1. SUFFICES ASSUME ~Validate(r, src, dst) PROVE FALSE
    OBVIOUS
  <2>2. Unsupported(r, cc)
    BY <1>3, <2>1 DEF Answer
  <2>3. Answer(r, src, dst, cc) = ColorAnswer(r, cc)
    BY <1>3, <2>2 DEF Answer
  <2> QED BY <2>2, <2>3 DEF Unsupported
<1> QED BY <1>1, <1>2, <1>3

LEMMA AnswerInfo ==
  ASSUME NEW r, NEW src, NEW dst, NEW cc, Answer(r, src, dst, cc) # "NONE"
  PROVE  Answer(r, src, dst, cc) \in Info /\ Answer(r, src, dst, cc) # "SUCCESS"
<1>1. ColorAnswer(r, cc) \in {"NONE", "FAIL", "EXCEPTION", "UNSUPPORTED_FMT_CONV_PARAMS"}
  BY DEF ColorAnswer
<1>2. Answer(r, src, dst, cc) \in {"INVALID_INPUT", ColorAnswer(r, cc)}
  BY DEF Answer
<1> QED BY <1>1, <1>2 DEF Info

\* Through one temporary surface.
LEMMA ThroughScratch ==
  ASSUME scenario \in Scenario, NEW s \in Surface, NEW d \in Surface, s # d,
         NEW names, d \in names, "scratch" \in names
  PROVE  LET core == <<Launch(Places(s), Places("scratch")), Launch(Places("scratch"), Places(d))>>
         IN /\ core \in Seq(Sober(names, AllPlaces))
            /\ Promising(core, At[s], At[d], names, AllPlaces, At)
<1> DEFINE core == <<Launch(Places(s), Places("scratch")), Launch(Places("scratch"), Places(d))>>
           mid == At["scratch"]
           ready == mid \union At[d]
<1>1. /\ s \in Object /\ d \in Object /\ "scratch" \in Temporary
      /\ "scratch" # s /\ "scratch" # d
  BY NamesAssumption DEF Object, Temporary
<1>2. /\ Places(s) = At[s] /\ Places(d) = At[d] /\ Places("scratch") = mid
      /\ At[s] \subseteq AllPlaces /\ At[d] \subseteq AllPlaces /\ mid \subseteq AllPlaces
      /\ \A p \in At[s] : p[1] = s /\ p \in Place
      /\ \A p \in At[d] : p[1] = d /\ p \in Place
      /\ \A p \in mid : p[1] = "scratch" /\ p \in Place
      /\ <<s, 0>> \in At[s] /\ <<"scratch", 0>> \in mid
  BY <1>1, WhereThings
<1>3. /\ DOMAIN core = 1 .. 2
      /\ core[1].do = "launch" /\ core[1].reads = At[s] /\ core[1].writes = mid
      /\ core[2].do = "launch" /\ core[2].reads = mid /\ core[2].writes = At[d]
      /\ core[1] = Launch(At[s], mid) /\ core[2] = Launch(mid, At[d]) /\ core = <<core[1], core[2]>>
  BY <1>2 DEF Launch
<1>4. HasFirst(At[s]) /\ HasFirst(mid)
  <2>1. <<s, 0>>[2] = 0 /\ <<"scratch", 0>>[2] = 0
    OBVIOUS
  <2> QED BY <1>2, <2>1 DEF HasFirst
<1>5. /\ At[s] \intersect mid = {} /\ At[s] \intersect At[d] = {} /\ mid \intersect At[d] = {}
      /\ ready \subseteq Of(names, AllPlaces)
  BY <1>1, <1>2 DEF Of
<1> HIDE DEF core, mid
<1>6. Launches(core) = {1, 2} /\ Makes(core) = {}
  BY <1>3 DEF Launches, Makes
<1>7. Orderly(core, At[s], ready, At)
  <2>1. ASSUME NEW i \in Launches(core)
        PROVE  /\ core[i].reads \subseteq At[s] \union ready
               /\ HasFirst(core[i].writes) => HasFirst(core[i].reads)
               /\ \A k \in Launches(core) : k >= i => core[k].writes \intersect core[i].reads = {}
    <3>1. CASE i = 1
      BY <1>3, <1>4, <1>5, <1>6, <3>1
    <3>2. CASE i = 2
      BY <1>3, <1>4, <1>5, <1>6, <3>2
    <3> QED BY <1>6, <3>1, <3>2
  <2> QED BY <1>6, <2>1 DEF Orderly
<1>8. \A p \in ready : Covered(core, 0, p)
  BY <1>3, <1>6 DEF Covered
<1>9. Promising(core, At[s], At[d], names, AllPlaces, At)
  BY <1>5, <1>7, <1>8 DEF Promising
<1>10. core[1] \in Sober(names, AllPlaces) /\ core[2] \in Sober(names, AllPlaces)
  <2>1. /\ At[s] \in SUBSET Place /\ mid \in SUBSET Place /\ At[d] \in SUBSET Place
        /\ \A p \in mid : p[1] \in names
        /\ \A p \in At[d] : p[1] \in names
    BY <1>2
  <2> QED BY <1>2, <1>3, <2>1, SoberSteps
<1>11. core \in Seq(Sober(names, AllPlaces))
  BY <1>3, <1>10, StepSequences
<1> QED BY <1>9, <1>11 DEF core

LEMMA Joined ==
  ASSUME NEW a, NEW b, NEW c, NEW d, NEW e
  PROVE  /\ <<a>> \o <<b, c>> = <<a, b, c>>
         /\ <<a>> \o <<b, c, d>> \o <<e>> = <<a, b, c, d, e>>
<1> DEFINE S == {a, b, c, d, e}
<1>1. /\ <<a>> \in Seq(S) /\ <<b, c>> \in Seq(S) /\ <<b, c, d>> \in Seq(S) /\ <<e>> \in Seq(S)
      /\ <<a, b, c>> \in Seq(S) /\ <<a, b, c, d>> \in Seq(S) /\ <<a, b, c, d, e>> \in Seq(S)
  OBVIOUS
<1> HIDE DEF S
<1>2. <<a>> \o <<b, c>> = <<a, b, c>>
  <2>1. /\ <<a>> \o <<b, c>> \in Seq(S) /\ Len(<<a>> \o <<b, c>>) = 3
        /\ \A i \in 1 .. 3 : (<<a>> \o <<b, c>>)[i] = IF i <= 1 THEN <<a>>[i] ELSE <<b, c>>[i - 1]
    BY <1>1, ConcatProperties
  <2>2. \A i \in 1 .. 3 : (<<a>> \o <<b, c>>)[i] = <<a, b, c>>[i]
    BY <2>1
  <2> QED BY <1>1, <2>1, <2>2, SeqEqual
<1>3. <<a>> \o <<b, c, d>> = <<a, b, c, d>>
  <2>1. /\ <<a>> \o <<b, c, d>> \in Seq(S) /\ Len(<<a>> \o <<b, c, d>>) = 4
        /\ \A i \in 1 .. 4 : (<<a>> \o <<b, c, d>>)[i] = IF i <= 1 THEN <<a>>[i] ELSE <<b, c, d>>[i - 1]
    BY <1>1, ConcatProperties
  <2>2. \A i \in 1 .. 4 : (<<a>> \o <<b, c, d>>)[i] = <<a, b, c, d>>[i]
    BY <2>1
  <2> QED BY <1>1, <2>1, <2>2, SeqEqual
<1>4. <<a, b, c, d>> \o <<e>> = <<a, b, c, d, e>>
  <2>1. /\ <<a, b, c, d>> \o <<e>> \in Seq(S) /\ Len(<<a, b, c, d>> \o <<e>>) = 5
        /\ \A i \in 1 .. 5 : (<<a, b, c, d>> \o <<e>>)[i] =
                                 IF i <= 4 THEN <<a, b, c, d>>[i] ELSE <<e>>[i - 4]
    BY <1>1, ConcatProperties
  <2>2. \A i \in 1 .. 5 : (<<a, b, c, d>> \o <<e>>)[i] = <<a, b, c, d, e>>[i]
    BY <2>1
  <2> QED BY <1>1, <2>1, <2>2, SeqEqual
<1> QED BY <1>2, <1>3, <1>4

LEMMA ConvertMade ==
  ASSUME scenario \in Scenario, NEW s \in Surface, NEW d \in Surface, s # d, NEW cc \in AnyColors,
         NEW names, d \in names, "scratch" \in names,
         row.validate = "ignored" => Validate(row, kind[s], kind[d])
  PROVE  WellMade(Convert(s, d, cc), s, d, names, row = rgb_yuv444 /\ cc[2] = "MPEG")
<1> DEFINE npp == NppCalls(row, cc)
           nppCalls == [i \in DOMAIN npp |-> Launch({s} \X npp[i].reads, {d} \X npp[i].writes)]
           answer == Answer(row, kind[s], kind[d], cc)
           core == <<Launch(Places(s), Places("scratch")), Launch(Places("scratch"), Places(d))>>
           make == MakeIfNeeded("scratch", kind[s].size)
           packed == row = rgb_yuv444 /\ cc[2] = "MPEG"
           all == AllPlaces
<1> SUFFICES WellMade(Convert(s, d, cc), s, d, names, packed)
  OBVIOUS
<1>0. Convert(s, d, cc) =
        IF answer # "NONE" THEN <<Conclude(answer)>>
        ELSE CASE row.src \in {"P10", "P12"} -> make \o core
               [] row = nv12_y -> nppCalls \o Synchronize
               [] cc \in row.noReturn -> nppCalls \o <<Conclude("UNDEFINED")>>
               [] OTHER -> nppCalls
  BY DEF Convert
<1>1. row \in Conversions /\ s \in Object /\ d \in Object /\ kind[s].size \in Nat \ {0} /\ "scratch" \in Temporary
  BY ScenarioTypes DEF Object, Temporary
<1>2. CASE answer # "NONE"
  <2>1. answer \in Info /\ answer # "SUCCESS"
    BY <1>2, AnswerInfo
  <2> HIDE DEF answer, core, make, nppCalls, packed
  <2> QED BY <1>0, <1>2, <2>1, RefusalMade
<1>3. CASE answer = "NONE"
  <2>v. Validate(row, kind[s], kind[d])
    BY <1>1, <1>3, GoesOn
  <2>n. nppCalls \in Seq(Sober(names, all)) /\ WellMade(nppCalls, s, d, names, packed)
    BY <2>v, NppWork
  <2>c. core \in Seq(Sober(names, all)) /\ Promising(core, At[s], At[d], names, all, At)
    BY ThroughScratch
  <2>s. \A a, b \in Seq(Sober(names, all)) : a \o b \in Seq(Sober(names, all))
    BY StepSequences
  <2>1. WellMade(make \o core, s, d, names, packed)
    <3>1. make \in Seq(Sober(names, all))
      <4>1. Make("scratch", kind[s].size) \in Sober(names, all)
        BY <1>1, SoberSteps
      <4>2. <<Make("scratch", kind[s].size)>> \in Seq(Sober(names, all)) /\ <<>> \in Seq(Sober(names, all))
        BY <4>1, StepSequences
      <4> QED BY <4>2, Zenon DEF MakeIfNeeded
    <3> HIDE DEF make, core, packed
    <3>2. make \o core \in Seq(Sober(names, all))
      BY <2>c, <2>s, <3>1
    <3>3. Planned(make \o core, names, all)
      BY <3>2, SoberPlanned
    <3>4. core \in Seq(GoingOn \union Concluding)
      BY <2>c, SoberPlanned
    <3>5. Promising(make \o core, At[s], At[d], names, all, At)
      BY <1>1, <2>c, <3>4, PromisingMade DEF make
    <3> QED BY <3>3, <3>5 DEF WellMade
  <2>2. ASSUME row = nv12_y PROVE WellMade(nppCalls \o Synchronize, s, d, names, packed)
    <3> DEFINE launch == Launch({s} \X {0}, {d} \X {0})
               work == <<launch, RecordEvent, WaitForEvent>>
    <3>1. nv12_y.src = "NV12" /\ nv12_y.dst = "Y" /\ y_yuv444.src = "Y" /\ rgb_yuv444.src = "RGB"
      BY DEF nv12_y, y_yuv444, rgb_yuv444, Row
    <3>2. npp = << [reads |-> {0}, writes |-> {0}] >>
      BY <2>2, <3>1 DEF NppCalls
    <3>3. nppCalls = <<launch>>
      <4>1. DOMAIN npp = {1} /\ npp[1].reads = {0} /\ npp[1].writes = {0}
        BY <3>2
      <4>2. nppCalls = [i \in {1} |-> launch]
        <5> HIDE DEF npp
        <5> QED BY <4>1
      <4>3. <<launch>> = [i \in {1} |-> launch]
        <5> HIDE DEF launch
        <5> QED OBVIOUS
      <4> QED BY <4>2, <4>3
    <3>4. nppCalls \o Synchronize = work
      <4> HIDE DEF launch, nppCalls
      <4>1. <<launch>> \o <<RecordEvent, WaitForEvent>> = <<launch, RecordEvent, WaitForEvent>>
        BY Joined
      <4> QED BY <3>3, <4>1 DEF Synchronize
    <3>5. work \in Seq(Sober(names, all))
      <4>1. <<launch>> \in Seq(Sober(names, all))
        BY <2>n, <3>3
      <4>2. Synchronize \in Seq(Sober(names, all))
        BY SoberSteps, StepSequences DEF Synchronize
      <4> HIDE DEF launch
      <4> QED BY <2>s, <3>3, <3>4, <4>1, <4>2
    <3>6. At[s] = {s} \X (0 .. 1) /\ At[d] = {d} \X (0 .. 0)
      <4>1. Components("NV12") = 0 .. 1 /\ Components("Y") = 0 .. 0
        BY DEF Components, NumComponents
      <4>2. kind[s].format = "NV12" /\ kind[d].format = "Y"
        BY <2>2, <2>v, <3>1 DEF Validate
      <4> QED BY <4>1, <4>2, WhereThings
    <3>7. /\ DOMAIN work = 1 .. 3 /\ work[1].do = "launch" /\ work[2].do = "record" /\ work[3].do = "wait"
          /\ work[1].reads = {s} \X {0} /\ work[1].writes = {d} \X {0}
      BY DEF Launch, RecordEvent, WaitForEvent
    <3> HIDE DEF work
    <3>8. Launches(work) = {1} /\ Makes(work) = {}
      BY <3>7 DEF Launches, Makes
    <3>9. Straight(work[1], At[s], At[d])
      <4>1. <<s, 0>> \in {s} \X {0} /\ <<s, 0>>[2] = 0
        OBVIOUS
      <4> QED BY <3>6, <3>7, <4>1 DEF Straight, HasFirst
    <3>10. \A p \in At[d] : p \in work[1].writes
      BY <3>6, <3>7
    <3>11. Promising(work, At[s], At[d], names, all, At)
      <4>1. At[s] \intersect At[d] = {} /\ At[d] \subseteq Of(names, all)
        BY <1>1, Apart
      <4> QED BY <3>8, <3>9, <3>10, <4>1, StraightPromising
    <3>12. Planned(work, names, all)
      BY <3>5, SoberPlanned
    <3> QED BY <3>4, <3>11, <3>12 DEF WellMade
  <2>3. WellMade(nppCalls \o <<Conclude("UNDEFINED")>>, s, d, names, packed)
    <3> DEFINE end == <<Conclude("UNDEFINED")>>
               work == nppCalls \o end
    <3> HIDE DEF nppCalls, packed
    <3>1. Conclude("UNDEFINED") \in Sober(names, all) /\ Conclude("UNDEFINED").do = "conclude"
      <4>1. "UNDEFINED" \in Info /\ ~Refused("UNDEFINED")
        BY DEF Info, Refused
      <4> QED BY <4>1, SoberSteps DEF Conclude
    <3>2. end \in Seq(Sober(names, all)) /\ Len(end) = 1
      BY <3>1, StepSequences
    <3>3. work \in Seq(Sober(names, all)) /\ Len(work) = Len(nppCalls) + 1 /\ Len(nppCalls) \in Nat
      BY <2>n, <3>2, ConcatProperties, LenProperties
    <3>4. work[Len(nppCalls) + 1] = Conclude("UNDEFINED")
      <4>1. Len(nppCalls) + 1 \in 1 .. Len(nppCalls) + Len(end) /\ ~(Len(nppCalls) + 1 <= Len(nppCalls))
            /\ (Len(nppCalls) + 1) - Len(nppCalls) = 1
        BY <3>2, <3>3
      <4>2. work[Len(nppCalls) + 1] = end[(Len(nppCalls) + 1) - Len(nppCalls)]
        BY <2>n, <3>2, <4>1, ConcatProperties
      <4> QED BY <4>1, <4>2
    <3>5. Len(nppCalls) + 1 \in Concludes(work)
      <4>1. DOMAIN work = 1 .. Len(work)
        BY <3>3, LenProperties
      <4>2. Len(nppCalls) + 1 \in DOMAIN work
        BY <3>3, <4>1
      <4> QED BY <3>1, <3>4, <4>2 DEF Concludes
    <3>6. Planned(work, names, all)
      BY <3>3, SoberPlanned
    <3> QED BY <3>5, <3>6 DEF WellMade
  <2> HIDE DEF answer, core, make, nppCalls, packed
  <2>r. row.noReturn # {} => row.src = "NV12" /\ row.dst = "BGR"
    BY <1>1, RowKinds
  <2>y. nv12_y.src = "NV12" /\ nv12_y.dst = "Y"
    BY DEF nv12_y, Row
  <2>4. CASE row.src \in {"P10", "P12"}
    <3>1. Convert(s, d, cc) = make \o core
      BY <1>0, <1>3, <2>4, <2>r, <2>y
    <3> QED BY <2>1, <3>1
  <2>5. CASE row = nv12_y
    <3>1. Convert(s, d, cc) = nppCalls \o Synchronize
      BY <1>0, <1>3, <2>5, <2>r, <2>y
    <3> QED BY <2>2, <2>5, <3>1
  <2>6. CASE cc \in row.noReturn
    <3>1. Convert(s, d, cc) = nppCalls \o <<Conclude("UNDEFINED")>>
      BY <1>0, <1>3, <2>6, <2>r, <2>y
    <3> QED BY <2>3, <3>1
  <2>7. CASE row.src \notin {"P10", "P12"} /\ row # nv12_y /\ cc \notin row.noReturn
    <3>1. Convert(s, d, cc) = nppCalls
      BY <1>0, <1>3, <2>7
    <3> QED BY <2>n, <3>1
  <2> QED BY <2>4, <2>5, <2>6, <2>7
<1> HIDE DEF answer
<1> QED BY <1>2, <1>3

-----------------------------------------------------------------------------
LEMMA FiveInSeq ==
  ASSUME NEW S, NEW a \in S, NEW b \in S, NEW c \in S, NEW d \in S, NEW e \in S
  PROVE  <<a, b, c, d, e>> \in Seq(S)
OBVIOUS

\* NV12 through two temporary surfaces, the second filled by component.
LEMMA ThroughYuv420 ==
  ASSUME scenario \in Scenario, NEW s \in Surface, NEW d \in Surface, s # d,
         NEW names, d \in names, "src_yuv420" \in names, "dst_yuv420" \in names
  PROVE  LET plane(i) == Launch({<<"src_yuv420", i>>}, {<<"dst_yuv420", i>>})
             core == <<Launch(Places(s), Places("src_yuv420")), plane(0), plane(1), plane(2),
                       Launch(Places("dst_yuv420"), Places(d))>>
         IN /\ core \in Seq(Sober(names, AllPlaces))
            /\ \A i \in 1 .. 5 : core[i] \in Sober(names, AllPlaces)
            /\ Promising(core, At[s], At[d], names, AllPlaces, At)
<1> DEFINE plane(i) == Launch({<<"src_yuv420", i>>}, {<<"dst_yuv420", i>>})
           core == <<Launch(Places(s), Places("src_yuv420")), plane(0), plane(1), plane(2),
                     Launch(Places("dst_yuv420"), Places(d))>>
           a == At["src_yuv420"]
           b == At["dst_yuv420"]
           ready == a \union b \union At[d]
           source == At[s]
           destination == At[d]
<1>1. /\ s \in Object /\ d \in Object /\ "src_yuv420" \in Temporary /\ "dst_yuv420" \in Temporary
      /\ "src_yuv420" \notin {s, d} /\ "dst_yuv420" \notin {s, d}
  BY NamesAssumption DEF Object, Temporary
<1>2. /\ Places(s) = source /\ Places(d) = destination
      /\ Places("src_yuv420") = a /\ Places("dst_yuv420") = b
      /\ source \subseteq AllPlaces /\ destination \subseteq AllPlaces /\ a \subseteq AllPlaces /\ b \subseteq AllPlaces
      /\ \A p \in source : p[1] = s /\ p \in Place
      /\ \A p \in destination : p[1] = d /\ p \in Place
      /\ <<s, 0>> \in source
  BY <1>1, WhereThings
<1>3. /\ a = {"src_yuv420"} \X (0 .. 2) /\ b = {"dst_yuv420"} \X (0 .. 2)
      /\ \A p \in a : p[1] = "src_yuv420" /\ p \in Place
      /\ \A p \in b : p[1] = "dst_yuv420" /\ p \in Place
  BY <1>1, WhereThings
<1>4. /\ DOMAIN core = 1 .. 5
      /\ core[1] = Launch(source, a) /\ core[5] = Launch(b, destination)
      /\ \A i \in 2 .. 4 : core[i] = plane(i - 2)
      /\ core = <<core[1], core[2], core[3], core[4], core[5]>>
  <2>1. /\ core[1] = Launch(Places(s), Places("src_yuv420"))
        /\ core[2] = plane(0) /\ core[3] = plane(1) /\ core[4] = plane(2)
        /\ core[5] = Launch(Places("dst_yuv420"), Places(d)) /\ DOMAIN core = 1 .. 5
    OBVIOUS
  <2>2. \A i \in 2 .. 4 : (i = 2 /\ i - 2 = 0) \/ (i = 3 /\ i - 2 = 1) \/ (i = 4 /\ i - 2 = 2)
    OBVIOUS
  <2>3. core = <<core[1], core[2], core[3], core[4], core[5]>>
    OBVIOUS
  <2> HIDE DEF core
  <2>4. \A i \in 2 .. 4 : core[i] = plane(i - 2)
    <3>1. 2 - 2 = 0 /\ 3 - 2 = 1 /\ 4 - 2 = 2
      OBVIOUS
    <3>2. core[2] = plane(2 - 2) /\ core[3] = plane(3 - 2) /\ core[4] = plane(4 - 2)
      BY <2>1, <3>1, Zenon
    <3> QED BY <2>2, <3>2
  <2> QED BY <1>2, <2>1, <2>3, <2>4
<1>5. \A reads, writes : /\ Launch(reads, writes).do = "launch"
                         /\ Launch(reads, writes).reads = reads /\ Launch(reads, writes).writes = writes
  BY DEF Launch
<1>6. /\ core[1].do = "launch" /\ core[1].reads = source /\ core[1].writes = a
      /\ core[5].do = "launch" /\ core[5].reads = b /\ core[5].writes = destination
      /\ \A i \in 2 .. 4 : /\ core[i].do = "launch" /\ core[i].reads = {<<"src_yuv420", i - 2>>}
                           /\ core[i].writes = {<<"dst_yuv420", i - 2>>}
  <2> HIDE DEF core
  <2> QED BY <1>4, <1>5
<1> HIDE DEF core, a, b, source, destination
<1>7. /\ HasFirst(source) /\ HasFirst(b)
      /\ \A i \in 0 .. 2 : HasFirst({<<"dst_yuv420", i>>}) => HasFirst({<<"src_yuv420", i>>})
  <2>1. <<s, 0>>[2] = 0 /\ <<"dst_yuv420", 0>>[2] = 0 /\ <<"dst_yuv420", 0>> \in b
    BY <1>3
  <2>2. \A i : /\ HasFirst({<<"dst_yuv420", i>>}) <=> i = 0
               /\ HasFirst({<<"src_yuv420", i>>}) <=> i = 0
    BY DEF HasFirst
  <2> QED BY <1>2, <2>1, <2>2 DEF HasFirst
<1>8. /\ \A i \in 0 .. 2 : {<<"src_yuv420", i>>} \subseteq a /\ {<<"dst_yuv420", i>>} \subseteq b
      /\ \A p \in b : \E i \in 0 .. 2 : p \in {<<"dst_yuv420", i>>}
      /\ source \intersect (a \union b \union destination) = {}
      /\ a \intersect (b \union destination) = {} /\ b \intersect destination = {}
  <2>1. \A i \in 0 .. 2 : {<<"src_yuv420", i>>} \subseteq a /\ {<<"dst_yuv420", i>>} \subseteq b
    BY <1>3
  <2>2. \A p \in b : p = <<"dst_yuv420", p[2]>> /\ p[2] \in 0 .. 2
    BY <1>3
  <2>3. /\ source \intersect (a \union b \union destination) = {}
        /\ a \intersect (b \union destination) = {} /\ b \intersect destination = {}
    BY <1>1, <1>2, <1>3
  <2> QED BY <2>1, <2>2, <2>3
<1>9. \A i \in 1 .. 5 : core[i].do = "launch"
  <2>1. \A i \in 1 .. 5 : i = 1 \/ i \in 2 .. 4 \/ i = 5
    OBVIOUS
  <2> QED BY <1>6, <2>1
<1>10. Launches(core) = 1 .. 5 /\ Makes(core) = {}
  BY <1>4, <1>9 DEF Launches, Makes
<1>11. ASSUME NEW i \in 1 .. 5
       PROVE  /\ core[i].reads \subseteq source \union ready
              /\ HasFirst(core[i].writes) => HasFirst(core[i].reads)
              /\ \A k \in 1 .. 5 : k >= i => core[k].writes \intersect core[i].reads = {}
  <2>1. CASE i = 1
    <3>1. ASSUME NEW k \in 1 .. 5 PROVE core[k].writes \subseteq a \union b \union destination
      <4>1. CASE k = 1
        BY <1>6, <4>1
      <4>2. CASE k = 5
        BY <1>6, <4>2
      <4>3. CASE k \in 2 .. 4
        <5>1. k - 2 \in 0 .. 2 /\ core[k].writes = {<<"dst_yuv420", k - 2>>}
          BY <1>6, <4>3
        <5> QED BY <1>8, <5>1
      <4> QED BY <4>1, <4>2, <4>3
    <3> QED BY <1>6, <1>7, <1>8, <2>1, <3>1
  <2>2. CASE i \in 2 .. 4
    <3>1. i - 2 \in 0 .. 2 /\ core[i].reads = {<<"src_yuv420", i - 2>>} /\ core[i].writes = {<<"dst_yuv420", i - 2>>}
      BY <1>6, <2>2
    <3>2. core[i].reads \subseteq a /\ (HasFirst(core[i].writes) => HasFirst(core[i].reads))
      BY <1>7, <1>8, <3>1
    <3>3. ASSUME NEW k \in 1 .. 5, k >= i PROVE core[k].writes \subseteq b \union destination
      <4>1. CASE k = 5
        BY <1>6, <4>1
      <4>2. CASE k \in 2 .. 4
        <5>1. k - 2 \in 0 .. 2 /\ core[k].writes = {<<"dst_yuv420", k - 2>>}
          BY <1>6, <4>2
        <5> QED BY <1>8, <5>1
      <4> QED BY <2>2, <3>3, <4>1, <4>2
    <3> QED BY <1>8, <3>2, <3>3
  <2>3. CASE i = 5
    <3>1. \A k \in 1 .. 5 : k >= i => k = 5
      BY <2>3
    <3> QED BY <1>6, <1>7, <1>8, <2>3, <3>1
  <2> QED BY <2>1, <2>2, <2>3
<1>12. Orderly(core, source, ready, At)
  <2> HIDE DEF ready
  <2> QED BY <1>10, <1>11 DEF Orderly
<1>13. ASSUME NEW p \in ready PROVE Covered(core, 0, p)
  <2>1. CASE p \in a
    BY <1>6, <1>10, <2>1 DEF Covered
  <2>2. CASE p \in destination
    BY <1>6, <1>10, <2>2 DEF Covered, destination
  <2>3. CASE p \in b
    <3>1. PICK i \in 0 .. 2 : p \in {<<"dst_yuv420", i>>}
      BY <1>8, <2>3
    <3>2. i + 2 \in 2 .. 4 /\ (i + 2) - 2 = i /\ i + 2 \in 1 .. 5 /\ i + 2 > 0
      OBVIOUS
    <3>3. core[i + 2].writes = {<<"dst_yuv420", i>>}
      BY <1>6, <3>2
    <3> QED BY <1>10, <3>1, <3>2, <3>3 DEF Covered
  <2> QED BY <2>1, <2>2, <2>3 DEF destination
<1>14. ready \subseteq Of(names, AllPlaces)
  BY <1>2, <1>3 DEF Of, destination
<1>15. Promising(core, source, destination, names, AllPlaces, At)
  <2>1. destination \subseteq ready
    BY DEF destination
  <2> HIDE DEF ready
  <2> QED BY <1>12, <1>13, <1>14, <2>1 DEF Promising
<1>16. \A i \in 1 .. 5 : core[i] \in Sober(names, AllPlaces)
  <2>1. /\ source \in SUBSET Place /\ a \in SUBSET Place /\ b \in SUBSET Place /\ destination \in SUBSET Place
        /\ \A p \in a : p[1] \in names
        /\ \A p \in b : p[1] \in names
        /\ \A p \in destination : p[1] \in names
    BY <1>2, <1>3
  <2>2. core[1] \in Sober(names, AllPlaces) /\ core[5] \in Sober(names, AllPlaces)
    BY <1>2, <1>4, <2>1, SoberSteps
  <2>3. ASSUME NEW i \in 2 .. 4 PROVE core[i] \in Sober(names, AllPlaces)
    <3>1. i - 2 \in 0 .. 2 /\ core[i] = Launch({<<"src_yuv420", i - 2>>}, {<<"dst_yuv420", i - 2>>})
      <4>1. i - 2 \in 0 .. 2
        OBVIOUS
      <4> QED BY <1>4, <4>1, Zenon
    <3>2. {<<"src_yuv420", i - 2>>} \subseteq a /\ {<<"dst_yuv420", i - 2>>} \subseteq b
      BY <1>8, <3>1
    <3>3. /\ {<<"src_yuv420", i - 2>>} \in SUBSET Place /\ {<<"dst_yuv420", i - 2>>} \in SUBSET Place
          /\ {<<"src_yuv420", i - 2>>} \subseteq AllPlaces
          /\ \A p \in {<<"dst_yuv420", i - 2>>} : p[1] \in names
      BY <1>2, <2>1, <3>2
    <3> QED BY <3>1, <3>3, SoberSteps
  <2>4. \A i \in 1 .. 5 : i = 1 \/ i \in 2 .. 4 \/ i = 5
    OBVIOUS
  <2> QED BY <2>2, <2>3, <2>4
<1>17. core \in Seq(Sober(names, AllPlaces))
  <2>1. /\ core[1] \in Sober(names, AllPlaces) /\ core[2] \in Sober(names, AllPlaces)
        /\ core[3] \in Sober(names, AllPlaces) /\ core[4] \in Sober(names, AllPlaces)
        /\ core[5] \in Sober(names, AllPlaces)
    BY <1>16
  <2> DEFINE S == Sober(names, AllPlaces)
  <2>2. /\ core[1] \in S /\ core[2] \in S /\ core[3] \in S /\ core[4] \in S /\ core[5] \in S
    BY <2>1
  <2> HIDE DEF S
  <2>3. <<core[1], core[2], core[3], core[4], core[5]>> \in Seq(S)
    BY <2>2, FiveInSeq
  <2> QED BY <1>4, <2>3 DEF S
<1>18. /\ core \in Seq(Sober(names, AllPlaces)) /\ \A i \in 1 .. 5 : core[i] \in Sober(names, AllPlaces)
       /\ Promising(core, At[s], At[d], names, AllPlaces, At)
  BY <1>15, <1>16, <1>17 DEF source, destination
<1> QED BY <1>18 DEF core

LEMMA ResizeMade ==
  ASSUME scenario \in Scenario, NEW s \in Surface, NEW d \in Surface, s # d,
         NEW names, d \in names, "src_yuv420" \in names, "dst_yuv420" \in names
  PROVE  WellMade(Resize(s, d), s, d, names, FALSE)
<1> DEFINE plane(i) == Launch({<<"src_yuv420", i>>}, {<<"dst_yuv420", i>>})
           fits(t, o) == SizeThen(t, kind[o].size) = kind[o].size /\ kind[o].format = "NV12"
           make == MakeIfNeeded("src_yuv420", kind[s].size)
           make2 == MakeIfNeeded("dst_yuv420", kind[d].size)
           in == IF fits("src_yuv420", s) THEN <<Launch(Places(s), Places("src_yuv420"))>>
                 ELSE <<Conclude("FAIL")>>
           out == IF fits("dst_yuv420", d) THEN <<Launch(Places("dst_yuv420"), Places(d))>>
                  ELSE <<Conclude("FAIL")>>
           mid == <<plane(0), plane(1), plane(2)>>
           core == <<Launch(Places(s), Places("src_yuv420")), plane(0), plane(1), plane(2),
                     Launch(Places("dst_yuv420"), Places(d))>>
           n == NumPlanes(kind[d].format)
           from == [i \in 1 .. n |-> PlanePlaces(s, i - 1)]
           to == [i \in 1 .. n |-> PlanePlaces(d, i - 1)]
           planes == [i \in 1 .. n |-> Launch(from[i], to[i])]
           all == AllPlaces
<1>0. /\ kind[s].size \in Nat \ {0} /\ kind[d].size \in Nat \ {0}
      /\ s \in Object /\ d \in Object /\ "src_yuv420" \in Temporary /\ "dst_yuv420" \in Temporary
  BY ScenarioTypes DEF Object, Temporary
<1>1. Resize(s, d) = CASE kind[s].format = "NV12" -> make \o make2 \o in \o mid \o out
         [] kind[s].format \notin {"NV12", kind[d].format} -> <<Conclude("INVALID_INPUT")>>
         [] OTHER -> planes
  BY DEF Resize, ResizeSemiPlanar
<1>2. CASE kind[s].format \notin {"NV12", kind[d].format}
  <2>1. Resize(s, d) = <<Conclude("INVALID_INPUT")>>
    BY <1>1, <1>2
  <2> QED BY <2>1, RefusalMade DEF Info
<1>3. CASE kind[s].format # "NV12" /\ kind[s].format = kind[d].format
  <2>1. Resize(s, d) = planes
    BY <1>1, <1>3
  <2>2. /\ n \in 1 .. 3
        /\ \A i \in 1 .. n : PlanePlaces(s, i - 1) \subseteq At[s] /\ (HasFirst(PlanePlaces(s, i - 1)) <=> i = 1)
        /\ \A i \in 1 .. n : PlanePlaces(d, i - 1) \subseteq At[d] /\ (HasFirst(PlanePlaces(d, i - 1)) <=> i = 1)
        /\ \A p \in At[d] : \E i \in 1 .. n : p \in PlanePlaces(d, i - 1)
    BY <1>3, PlanesOfSurfaces
  <2>3. \A i \in 1 .. n : /\ from[i] = PlanePlaces(s, i - 1) /\ to[i] = PlanePlaces(d, i - 1)
                          /\ planes[i] = Launch(from[i], to[i])
    OBVIOUS
  <2>4. planes = [i \in 1 .. n |-> planes[i]]
    OBVIOUS
  <2> HIDE DEF planes, from, to, n
  <2>5. ASSUME NEW i \in 1 .. n
        PROVE  from[i] \subseteq At[s] /\ to[i] \subseteq At[d] /\ (HasFirst(to[i]) => HasFirst(from[i]))
    <3>1. from[i] \subseteq At[s] /\ (HasFirst(from[i]) <=> i = 1)
      BY <2>2, <2>3
    <3>2. to[i] \subseteq At[d] /\ (HasFirst(to[i]) <=> i = 1)
      BY <2>2, <2>3
    <3> QED BY <3>1, <3>2
  <2>6. \A p \in At[d] : \E i \in 1 .. n : p \in to[i]
    BY <2>2, <2>3
  <2>7. InTurns(planes, n, from, to, At[s], At[d])
    BY <2>3, <2>4, <2>5, <2>6 DEF InTurns
  <2>8. WellMade(planes, s, d, names, FALSE)
    BY <1>0, <2>2, <2>7, PlaneByPlane
  <2> QED BY <2>1, <2>8
<1>4. CASE kind[s].format = "NV12"
  <2>1. Resize(s, d) = make \o make2 \o in \o mid \o out
    BY <1>1, <1>4
  <2>2. in = <<Launch(Places(s), Places("src_yuv420"))>>
    BY <1>4, Zenon DEF SizeThen, NeedsMake
  <2>c. /\ core \in Seq(Sober(names, all)) /\ \A i \in 1 .. 5 : core[i] \in Sober(names, all)
        /\ Promising(core, At[s], At[d], names, all, At)
    BY ThroughYuv420
  <2>s. \A a, b \in Seq(Sober(names, all)) : a \o b \in Seq(Sober(names, all))
    BY StepSequences
  <2>3. make \in Seq(Sober(names, all)) /\ make2 \in Seq(Sober(names, all))
    <3>1. Make("src_yuv420", kind[s].size) \in Sober(names, all) /\ Make("dst_yuv420", kind[d].size) \in Sober(names, all)
      BY <1>0, SoberSteps
    <3>2. /\ <<Make("src_yuv420", kind[s].size)>> \in Seq(Sober(names, all)) /\ <<>> \in Seq(Sober(names, all))
          /\ <<Make("dst_yuv420", kind[d].size)>> \in Seq(Sober(names, all))
      BY <3>1, StepSequences
    <3> QED BY <3>2, Zenon DEF MakeIfNeeded
  <2>4. CASE kind[d].format = "NV12"
    <3>1. out = <<Launch(Places("dst_yuv420"), Places(d))>>
      BY <2>4, Zenon DEF SizeThen, NeedsMake
    <3>2. in \o mid \o out = core
      <4>1. /\ in = <<core[1]>> /\ mid = <<core[2], core[3], core[4]>> /\ out = <<core[5]>>
            /\ core = <<core[1], core[2], core[3], core[4], core[5]>>
        BY <2>2, <3>1
      <4> HIDE DEF in, mid, out, core
      <4> QED BY <4>1, Joined
    <3>3. /\ in \in Seq(Sober(names, all)) /\ mid \in Seq(Sober(names, all)) /\ out \in Seq(Sober(names, all))
      <4>3. /\ core[1] \in Sober(names, all) /\ core[2] \in Sober(names, all) /\ core[3] \in Sober(names, all)
            /\ core[4] \in Sober(names, all) /\ core[5] \in Sober(names, all)
        <5> HIDE DEF core
        <5> QED BY <2>c
      <4>4. /\ in = <<core[1]>> /\ mid = <<core[2], core[3], core[4]>> /\ out = <<core[5]>>
        BY <2>2, <3>1
      <4> HIDE DEF core, in, mid, out
      <4> QED BY <4>3, <4>4, StepSequences
    <3>4. make \o make2 \o in \o mid \o out = make \o (make2 \o core)
      <4> HIDE DEF make, make2, in, mid, out, core
      <4> DEFINE S == Sober(names, all)
      <4>1. make \in Seq(S) /\ make2 \in Seq(S) /\ in \in Seq(S) /\ mid \in Seq(S) /\ out \in Seq(S)
        BY <2>3, <3>3
      <4> HIDE DEF S, make, make2, in, mid, out, core
      <4>2. make \o make2 \o in \o mid \o out = make \o (make2 \o (in \o mid \o out))
        BY <4>1, SMTT(60)
      <4> QED BY <3>2, <4>2
    <3> HIDE DEF make, make2, in, mid, out, core
    <3>5. /\ make2 \o core \in Seq(Sober(names, all))
          /\ make \o (make2 \o core) \in Seq(Sober(names, all))
      BY <2>c, <2>s, <2>3
    <3>6. core \in Seq(GoingOn \union Concluding) /\ make2 \o core \in Seq(GoingOn \union Concluding)
      BY <2>c, <3>5, SoberPlanned
    <3>7. Promising(make2 \o core, At[s], At[d], names, all, At)
      BY <1>0, <2>c, <3>6, PromisingMade DEF make2
    <3>8. Promising(make \o (make2 \o core), At[s], At[d], names, all, At)
      BY <1>0, <3>6, <3>7, PromisingMade DEF make
    <3>9. Planned(make \o (make2 \o core), names, all)
      BY <3>5, SoberPlanned
    <3> QED BY <2>1, <3>4, <3>8, <3>9 DEF WellMade
  <2>5. CASE kind[d].format # "NV12"
    <3>1. out = <<Conclude("FAIL")>>
      BY <2>5
    <3>2. Conclude("FAIL") \in Sober(names, all) /\ Conclude("FAIL").do = "conclude"
      <4>1. "FAIL" \in Info /\ ~Refused("FAIL")
        BY DEF Info, Refused
      <4> QED BY <4>1, SoberSteps DEF Conclude
    <3>3. /\ in \in Seq(Sober(names, all)) /\ mid \in Seq(Sober(names, all)) /\ out \in Seq(Sober(names, all))
      <4>3. /\ core[1] \in Sober(names, all) /\ core[2] \in Sober(names, all) /\ core[3] \in Sober(names, all)
            /\ core[4] \in Sober(names, all)
        <5> HIDE DEF core
        <5> QED BY <2>c
      <4>4. in = <<core[1]>> /\ mid = <<core[2], core[3], core[4]>>
        BY <2>2
      <4> HIDE DEF core, in, mid, out
      <4> QED BY <3>1, <3>2, <4>3, <4>4, StepSequences
    <3> DEFINE before == make \o make2 \o in \o mid
               work == before \o out
    <3> HIDE DEF make, make2, in, mid, out, core
    <3>4. before \in Seq(Sober(names, all)) /\ work \in Seq(Sober(names, all))
      BY <2>s, <2>3, <3>3
    <3> HIDE DEF before
    <3>5. Len(before) \in Nat /\ Len(out) = 1 /\ out[1] = Conclude("FAIL") /\ Len(work) = Len(before) + 1
      BY <3>1, <3>3, <3>4, ConcatProperties, LenProperties
    <3>6. work[Len(before) + 1] = Conclude("FAIL")
      <4>1. Len(before) + 1 \in 1 .. Len(before) + Len(out) /\ ~(Len(before) + 1 <= Len(before))
            /\ (Len(before) + 1) - Len(before) = 1
        BY <3>5
      <4>2. work[Len(before) + 1] = out[(Len(before) + 1) - Len(before)]
        BY <3>3, <3>4, <4>1, ConcatProperties
      <4> QED BY <3>5, <4>1, <4>2
    <3>7. Len(before) + 1 \in Concludes(work)
      <4>1. DOMAIN work = 1 .. Len(work)
        BY <3>4, LenProperties
      <4>2. Len(before) + 1 \in DOMAIN work
        BY <3>5, <4>1
      <4> QED BY <3>2, <3>6, <4>2 DEF Concludes
    <3>8. Planned(work, names, all)
      BY <3>4, SoberPlanned
    <3>9. WellMade(work, s, d, names, FALSE)
      BY <3>7, <3>8 DEF WellMade
    <3> QED BY <2>1, <3>9 DEF before
  <2> QED BY <2>4, <2>5
<1> QED BY <1>2, <1>3, <1>4

-----------------------------------------------------------------------------
(***************************************************************************)
(* The calls as they are made.                                             *)
(***************************************************************************)
Packed(r, c) == c.task = "converter" /\ r = rgb_yuv444 /\ c.cc[2] = "MPEG"

\* What a call is when it begins.
Begun(c) ==
  /\ c.src \in Object /\ c.dst \in Object /\ c.src # c.dst
  /\ Exclusive(c.task, c.src, c.dst)
  /\ WellMade(c.work, c.src, c.dst, Names(c), Packed(row, c))
  /\ c.info = "SUCCESS"
  /\ c.dst \in HostArray =>
       /\ c.task = "downloader" /\ c.mode = "blocking"
       /\ \A i \in Concludes(c.work) : c.work[i].info # "EXCEPTION"

LEMMA BegunCall ==
  ASSUME CallTypes, NEW t \in Thread, NEW task, NEW s, NEW d, NEW cc, NEW mode, NEW early,
         NEW work, NEW closing, Begin(t, task, s, d, cc, mode, early, work, closing)
  PROVE  \E c : /\ call'[t] = c /\ c.task = task /\ c.src = s /\ c.dst = d /\ c.cc = cc
                /\ c.mode = mode /\ c.work = work /\ c.info = "SUCCESS"
                /\ Exclusive(c.task, c.src, c.dst) /\ UNCHANGED <<content, shown>>
BY DEF Begin, CallTypes

LEMMA BegunWell ==
  ASSUME CallTypes, NEW t \in Thread, BeginAny(t)
  PROVE  (\E c : call'[t] = c /\ Begun(c)) /\ UNCHANGED <<content, shown>>
<1>s. /\ scenario \in Scenario
      /\ \A x \in Surface : x \in Object /\ x \notin HostArray
      /\ \A x \in HostArray : x \in Object /\ x \notin Surface
      /\ scenario.colors \subseteq AnyColors
  BY ScenarioTypes, SurfaceTasksAssumption DEF CallTypes, Object
<1>1. ASSUME NEW array \in HostArray, NEW s \in Surface, BeginUpload(t, array, s)
      PROVE  (\E c : call'[t] = c /\ Begun(c)) /\ UNCHANGED <<content, shown>>
  <2>1. PICK c : /\ call'[t] = c /\ c.task = "uploader" /\ c.src = array /\ c.dst = s
                 /\ c.work = Upload(array, s) /\ c.info = "SUCCESS"
                 /\ Exclusive(c.task, c.src, c.dst) /\ UNCHANGED <<content, shown>>
    <3>1. Begin(t, "uploader", array, s, row.default, "blocking", FALSE, Upload(array, s), Synchronize)
      BY <1>1 DEF BeginUpload
    <3> QED BY <3>1 DEF Begin, CallTypes
  <2>2. WellMade(c.work, c.src, c.dst, Names(c), FALSE)
    BY <1>1, <1>s, <2>1, UploadMade DEF BeginUpload, Names
  <2>3. ~Packed(row, c)
    BY <2>1 DEF Packed
  <2>4. WellMade(c.work, c.src, c.dst, Names(c), Packed(row, c))
    BY <2>2, <2>3 DEF WellMade
  <2> QED BY <1>s, <2>1, <2>4 DEF Begun
<1>2. ASSUME NEW array \in HostArray, NEW s \in Surface, BeginDownload(t, s, array)
      PROVE  (\E c : call'[t] = c /\ Begun(c)) /\ UNCHANGED <<content, shown>>
  <2>1. PICK c : /\ call'[t] = c /\ c.task = "downloader" /\ c.src = s /\ c.dst = array
                 /\ c.work = Download(s, array) /\ c.info = "SUCCESS" /\ c.mode = "blocking"
                 /\ Exclusive(c.task, c.src, c.dst) /\ UNCHANGED <<content, shown>>
    <3>1. Begin(t, "downloader", s, array, row.default, "blocking", FALSE, Download(s, array), Synchronize)
      BY <1>2 DEF BeginDownload
    <3> QED BY <3>1 DEF Begin, CallTypes
  <2>2. /\ WellMade(c.work, c.src, c.dst, Names(c), FALSE)
        /\ \A i \in Concludes(c.work) : c.work[i].info # "EXCEPTION"
    BY <1>2, <1>s, <2>1, DownloadMade DEF BeginDownload, Names
  <2>3. ~Packed(row, c)
    BY <2>1 DEF Packed
  <2>4. WellMade(c.work, c.src, c.dst, Names(c), Packed(row, c))
    BY <2>2, <2>3 DEF WellMade
  <2> QED BY <1>s, <2>1, <2>2, <2>4 DEF Begun
<1>3. ASSUME NEW s \in Surface, NEW d \in Surface, s # d, NEW mode \in Mode, BeginResize(t, s, d, mode)
      PROVE  (\E c : call'[t] = c /\ Begun(c)) /\ UNCHANGED <<content, shown>>
  <2>1. PICK c : /\ call'[t] = c /\ c.task = "resizer" /\ c.src = s /\ c.dst = d
                 /\ c.work = Resize(s, d) /\ c.info = "SUCCESS"
                 /\ Exclusive(c.task, c.src, c.dst) /\ UNCHANGED <<content, shown>>
    <3>1. Begin(t, "resizer", s, d, row.default, mode, FALSE, Resize(s, d), Closing(mode))
      BY <1>3 DEF BeginResize
    <3> QED BY <3>1 DEF Begin, CallTypes
  <2>2. d \in Names(c) /\ "src_yuv420" \in Names(c) /\ "dst_yuv420" \in Names(c)
    BY <2>1 DEF Names, TemporariesOf
  <2>3. WellMade(c.work, c.src, c.dst, Names(c), FALSE)
    BY <1>3, <1>s, <2>1, <2>2, ResizeMade
  <2>4. ~Packed(row, c)
    BY <2>1 DEF Packed
  <2>5. WellMade(c.work, c.src, c.dst, Names(c), Packed(row, c))
    BY <2>3, <2>4 DEF WellMade
  <2> QED BY <1>3, <1>s, <2>1, <2>5 DEF Begun
<1>4. ASSUME NEW s \in Surface, NEW d \in Surface, s # d, NEW mode \in Mode,
             NEW cc \in scenario.colors, NEW early \in BOOLEAN, BeginConvert(t, s, d, cc, mode, early)
      PROVE  (\E c : call'[t] = c /\ Begun(c)) /\ UNCHANGED <<content, shown>>
  <2>1. PICK c : /\ call'[t] = c /\ c.task = "converter" /\ c.src = s /\ c.dst = d /\ c.cc = cc
                 /\ c.work = Convert(s, d, cc) /\ c.info = "SUCCESS"
                 /\ Exclusive(c.task, c.src, c.dst) /\ UNCHANGED <<content, shown>>
    BY <1>4, BegunCall DEF BeginConvert
  <2>2. d \in Names(c) /\ "scratch" \in Names(c) /\ cc \in AnyColors
    BY <1>s, <2>1 DEF Names, TemporariesOf
  <2>3. row.validate = "ignored" => Validate(row, kind[s], kind[d])
    BY <1>4 DEF BeginConvert
  <2>4. WellMade(Convert(s, d, cc), s, d, Names(c), row = rgb_yuv444 /\ cc[2] = "MPEG")
    BY <1>4, <1>s, <2>2, <2>3, ConvertMade
  <2>5. Packed(row, c) <=> row = rgb_yuv444 /\ cc[2] = "MPEG"
    BY <2>1 DEF Packed
  <2>6. WellMade(c.work, c.src, c.dst, Names(c), Packed(row, c))
    BY <2>1, <2>4, <2>5 DEF WellMade
  <2> QED BY <1>4, <1>s, <2>1, <2>6 DEF Begun
<1> QED BY <1>1, <1>2, <1>3, <1>4 DEF BeginAny

-----------------------------------------------------------------------------
(***************************************************************************)
(* The invariant: what calls write and read, and what will be in the       *)
(* places.                                                                 *)
(***************************************************************************)
Shaped(c, all) ==
  /\ c.src \in Object /\ c.dst \in Object /\ c.src # c.dst
  /\ Planned(c.work, Names(c), all)
  /\ c.info # "SUCCESS" => c.work = <<>>
  /\ c.dst \in HostArray =>
       /\ c.task = "downloader" /\ c.mode = "blocking" /\ c.info # "EXCEPTION"
       /\ \A i \in Concludes(c.work) : c.work[i].info # "EXCEPTION"

\* Calls in progress write objects of their own, and no two are of one task.
Separate ==
  \A t, u \in Running :
    t # u => call[t].task # call[u].task /\ call[t].dst \notin {call[u].src, call[u].dst}

\* What is going to be written to a host array is of a call in progress.
HostWritten ==
  \A i \in DOMAIN pending : \A p \in pending[i].writes :
    p[1] \in HostArray => \E t \in Running : call[t].id = pending[i].call /\ call[t].dst = p[1]

PlanInv ==
  /\ DOMAIN content = AllPlaces /\ DOMAIN shown = Object
  /\ \A t \in Running : Shaped(call[t], AllPlaces)
  /\ Separate /\ HostWritten
  /\ \A i \in DOMAIN pending : pending[i].reads \subseteq AllPlaces

\* A call that refuses, or is about to, leaves its destination as it was; one
\* that goes on makes it what its source shows.
Untouched(c) == Refused(c.info) \/ \E i \in Concludes(c.work) : Refused(c.work[i].info)
Underway(v, c, r, at, pics) ==
  /\ Untouched(c) /\ pics[c.dst] # Unknown => Holds(v, at[c.dst], pics[c.dst])
  /\ c.info = "SUCCESS" /\ Concludes(c.work) = {} /\ ~Packed(r, c) /\ pics[c.src] # Unknown
       => Carries(v, c, at, pics[c.src])
Resting(v, written, at, pics) ==
  \A o \in Object \ written : pics[o] # Unknown => Holds(v, at[o], pics[o])

Written == {call[t].dst : t \in Running}
Pictures(v) ==
  /\ Resting(v, Written, At, shown)
  /\ \A t \in Running : Underway(v, call[t], row, At, shown)

ViewInv == \E v, b : Foretold(v, pending, content, b) /\ Pictures(b)

-----------------------------------------------------------------------------
LEMMA SameScene ==
  ASSUME UNCHANGED scenario
  PROVE  At' = At /\ row' = row /\ kind' = kind /\ AllPlaces' = AllPlaces /\ NoCall' = NoCall
<1>1. kind' = kind /\ row' = row
  BY DEF kind, row
<1>2. At' = At
  BY <1>1 DEF At, Places, Parts
<1> QED BY <1>1, <1>2 DEF AllPlaces, NoCall

\* A call goes a step further, or is through with its work.
Like(c, next) ==
  next.src = c.src /\ next.dst = c.dst /\ next.task = c.task /\ next.cc = c.cc /\ next.mode = c.mode

LEMMA StepsFurther ==
  ASSUME CallTypes, CallsNumbered, NEW t \in Thread, Steps(t) # <<>>, StepDone(t), UNCHANGED scenario
  PROVE  /\ t \in Running /\ Running' = Running /\ \A u \in Thread : u # t => call'[u] = call[u]
         /\ Like(call[t], call'[t]) /\ call'[t].id = call[t].id /\ call'[t].info = call[t].info
         /\ InWork(t) => Further(call[t], call'[t])
         /\ ~InWork(t) => call'[t].work = call[t].work
<1>1. /\ \A u \in Thread : Constant(u) /\ (u # t => call'[u] = call[u])
      /\ call'[t].info = call[t].info
      /\ InWork(t) => call'[t].work = Tail(call[t].work)
      /\ ~InWork(t) => call'[t].work = call[t].work
  BY StepDoneCall
<1>2. t \in Running
  BY StepsAreOfRunning
<1>3. Like(call[t], call'[t]) /\ call'[t].id = call[t].id
  BY <1>1 DEF Constant, Like
<1>4. InWork(t) => Further(call[t], call'[t])
  BY <1>1, CallType DEF Constant, Further, InWork
<1>5. NoCall' = NoCall /\ NoCall.id = 0
  BY SameScene, NoCallType DEF CallTypes
<1>6. call[t].id # 0
  BY <1>2, RunningNumbers
<1>7. \A u \in Thread : u \in Running' <=> u \in Running
  BY <1>1, <1>2, <1>3, <1>5, <1>6 DEF Running
<1>8. Running' = Running
  BY <1>7 DEF Running
<1> QED BY <1>1, <1>2, <1>3, <1>4, <1>8

LEMMA StepsEnd ==
  ASSUME CallTypes, CallsNumbered, NEW t \in Thread, Steps(t) # <<>>, UNCHANGED scenario,
         NEW info \in Info, NEW failed \in BOOLEAN, WorkEnds(t, info, failed)
  PROVE  /\ t \in Running /\ Running' = Running /\ \A u \in Thread : u # t => call'[u] = call[u]
         /\ Like(call[t], call'[t]) /\ call'[t].id = call[t].id
         /\ call'[t].info = info /\ call'[t].work = <<>>
<1>1. /\ \A u \in Thread : Constant(u) /\ (u # t => call'[u] = call[u])
      /\ call'[t].info = info /\ call'[t].work = <<>>
  BY WorkEndsCall
<1>2. t \in Running
  BY StepsAreOfRunning
<1>3. Like(call[t], call'[t]) /\ call'[t].id = call[t].id
  BY <1>1 DEF Constant, Like
<1>5. NoCall' = NoCall /\ NoCall.id = 0
  BY SameScene, NoCallType DEF CallTypes
<1>6. call[t].id # 0
  BY <1>2, RunningNumbers
<1>7. \A u \in Thread : u \in Running' <=> u \in Running
  BY <1>1, <1>2, <1>3, <1>5, <1>6 DEF Running
<1>8. Running' = Running
  BY <1>7 DEF Running
<1> QED BY <1>1, <1>2, <1>3, <1>8

-----------------------------------------------------------------------------
LEMMA NamesApart ==
  ASSUME NEW c, NEW d, c.task # d.task, c.dst # d.dst, c.dst \in Object, d.dst \in Object
  PROVE  Names(c) \intersect Names(d) = {}
<1>1. TemporariesOf(c.task) \subseteq Temporary /\ TemporariesOf(d.task) \subseteq Temporary
  BY DEF TemporariesOf, Temporary
<1>2. TemporariesOf(c.task) \intersect TemporariesOf(d.task) = {}
  BY DEF TemporariesOf
<1> QED BY <1>1, <1>2, NamesAssumption DEF Names

LEMMA ShapedFurther ==
  ASSUME NEW c, NEW next, NEW all, Shaped(c, all), Like(c, next), next.info = c.info,
         Further(c, next) \/ next.work = c.work
  PROVE  Shaped(next, all)
<1>1. Names(next) = Names(c)
  BY DEF Like, Names
<1>2. CASE Further(c, next)
  <2>1. /\ c.work \in Seq(GoingOn \union Concluding) /\ c.work # <<>> /\ next.work = Tail(c.work)
    BY <1>2 DEF Further
  <2>2. Planned(next.work, Names(next), all)
    BY <1>1, <2>1, PlannedTail DEF Shaped
  <2>3. c.info = "SUCCESS"
    BY <2>1 DEF Shaped
  <2>4. \A i \in Concludes(next.work) : i + 1 \in Concludes(c.work) /\ next.work[i].info = c.work[i + 1].info
    BY <2>1, StepsTail, WorkTail DEF Concludes
  <2>5. next.dst \in HostArray => \A i \in Concludes(next.work) : next.work[i].info # "EXCEPTION"
    BY <2>4 DEF Shaped, Like
  <2> QED BY <2>2, <2>3, <2>5 DEF Shaped, Like
<1>3. CASE next.work = c.work
  BY <1>1, <1>3 DEF Shaped, Like
<1> QED BY <1>2, <1>3

LEMMA ShapedEnd ==
  ASSUME NEW c, NEW next, NEW all, Shaped(c, all), Like(c, next), next.work = <<>>,
         c.dst \in HostArray => next.info # "EXCEPTION"
  PROVE  Shaped(next, all)
<1>1. Launches(<<>>) = {} /\ Makes(<<>>) = {} /\ Concludes(<<>>) = {}
  BY DEF Launches, Makes, Concludes
<1>2. Planned(<<>>, Names(next), all)
  BY <1>1 DEF Planned
<1> QED BY <1>1, <1>2 DEF Shaped, Like

LEMMA ShapedBegun ==
  ASSUME NEW c, Begun(c)
  PROVE  Shaped(c, AllPlaces)
BY DEF Begun, Shaped, WellMade

\* A step of a call that leaves the others alone.
LEMMA CallsStaySeparate ==
  ASSUME PlanInv, NEW t \in Running, Running' = Running, UNCHANGED scenario,
         \A u \in Thread : u # t => call'[u] = call[u],
         Like(call[t], call'[t]), Shaped(call'[t], AllPlaces)
  PROVE  (\A u \in Running : Shaped(call[u], AllPlaces))' /\ Separate'
<1>1. Running \subseteq Thread
  BY DEF Running
<1>2. AllPlaces' = AllPlaces
  BY SameScene
<1>3. \A u \in Running : Shaped(call'[u], AllPlaces)
  BY <1>1 DEF PlanInv
<1>4. (\A u \in Running : Shaped(call[u], AllPlaces))'
  <2>1. \A c, all : Shaped(c, all)' <=> Shaped(c, all)
    BY DEF Shaped, Planned
  <2> QED BY <1>2, <1>3
<1>5. \A u \in Running : /\ call'[u].task = call[u].task /\ call'[u].dst = call[u].dst
                         /\ call'[u].src = call[u].src
  BY <1>1 DEF Like
<1>6. Separate'
  BY <1>5 DEF Separate, PlanInv
<1> QED BY <1>4, <1>6

LEMMA HostWrittenMore ==
  ASSUME CallTypes, PlanInv, NEW t \in Running, Running' = Running,
         \A u \in Running : call'[u].id = call[u].id /\ call'[u].dst = call[u].dst,
         NEW entry \in Entry, entry.call = call[t].id, pending' = Append(pending, entry),
         \A p \in entry.writes : p[1] \in HostArray => p[1] = call[t].dst,
         entry.reads \subseteq AllPlaces
  PROVE  HostWritten' /\ \A i \in DOMAIN pending' : pending'[i].reads \subseteq AllPlaces
<1>1. pending \in Seq(Entry)
  BY DEF CallTypes
<1>2. \A i \in DOMAIN pending' : pending'[i] = entry \/ \E j \in DOMAIN pending : pending'[i] = pending[j]
  BY <1>1, QueueContents
<1>3. ASSUME NEW i \in DOMAIN pending', NEW p \in pending'[i].writes, p[1] \in HostArray
      PROVE  \E u \in Running' : call'[u].id = pending'[i].call /\ call'[u].dst = p[1]
  <2>1. CASE pending'[i] = entry
    BY <1>3, <2>1
  <2>2. ASSUME NEW j \in DOMAIN pending, pending'[i] = pending[j]
        PROVE  \E u \in Running' : call'[u].id = pending'[i].call /\ call'[u].dst = p[1]
    <3>1. PICK u \in Running : call[u].id = pending[j].call /\ call[u].dst = p[1]
      BY <1>3, <2>2 DEF PlanInv, HostWritten
    <3> QED BY <2>2, <3>1
  <2> QED BY <1>2, <2>1, <2>2
<1>4. ASSUME NEW i \in DOMAIN pending' PROVE pending'[i].reads \subseteq AllPlaces
  BY <1>2 DEF PlanInv
<1> QED BY <1>3, <1>4 DEF HostWritten

LEMMA HostWrittenSame ==
  ASSUME PlanInv, Running \subseteq Running',
         \A u \in Running : call'[u].id = call[u].id /\ call'[u].dst = call[u].dst,
         \A i \in DOMAIN pending' : \/ pending'[i].writes = {} /\ pending'[i].reads = {}
                                    \/ \E j \in DOMAIN pending : pending'[i] = pending[j]
  PROVE  HostWritten' /\ \A i \in DOMAIN pending' : pending'[i].reads \subseteq AllPlaces
<1>1. ASSUME NEW i \in DOMAIN pending', NEW p \in pending'[i].writes, p[1] \in HostArray
      PROVE  \E u \in Running' : call'[u].id = pending'[i].call /\ call'[u].dst = p[1]
  <2>1. PICK j \in DOMAIN pending : pending'[i] = pending[j]
    BY <1>1
  <2>2. PICK u \in Running : call[u].id = pending[j].call /\ call[u].dst = p[1]
    BY <1>1, <2>1 DEF PlanInv, HostWritten
  <2> QED BY <2>1, <2>2
<1>2. ASSUME NEW i \in DOMAIN pending' PROVE pending'[i].reads \subseteq AllPlaces
  BY DEF PlanInv
<1> QED BY <1>1, <1>2 DEF HostWritten

-----------------------------------------------------------------------------
\* What the invariant says is in parts: the places, the calls, the queue.
LEMMA PlanParts ==
  ASSUME UNCHANGED scenario,
         DOMAIN content' = AllPlaces, DOMAIN shown' = Object,
         (\A t \in Running : Shaped(call[t], AllPlaces))', Separate', HostWritten',
         \A i \in DOMAIN pending' : pending'[i].reads \subseteq AllPlaces
  PROVE  PlanInv'
<1>1. AllPlaces' = AllPlaces
  BY SameScene
<1> QED BY <1>1 DEF PlanInv

\* Steps of a call that enqueue something, or nothing, and go on.
LEMMA PlanGoesOn ==
  ASSUME CallTypes, CallsNumbered, PlanInv, NEW t \in Thread, Steps(t) # <<>>, StepDone(t),
         UNCHANGED <<scenario, shown>>, DOMAIN content' = DOMAIN content,
         \/ UNCHANGED pending
         \/ \E entry \in Entry :
              /\ entry.call = call[t].id /\ pending' = Append(pending, entry)
              /\ \A p \in entry.writes : p[1] \in HostArray => p[1] = call[t].dst
              /\ entry.reads \subseteq AllPlaces
  PROVE  PlanInv'
<1>1. /\ t \in Running /\ Running' = Running /\ \A u \in Thread : u # t => call'[u] = call[u]
      /\ Like(call[t], call'[t]) /\ call'[t].id = call[t].id /\ call'[t].info = call[t].info
      /\ InWork(t) => Further(call[t], call'[t])
      /\ ~InWork(t) => call'[t].work = call[t].work
  BY StepsFurther
<1>2. Shaped(call'[t], AllPlaces)
  BY <1>1, ShapedFurther DEF PlanInv
<1>3. (\A u \in Running : Shaped(call[u], AllPlaces))' /\ Separate'
  BY <1>1, <1>2, CallsStaySeparate
<1>4. \A u \in Running : call'[u].id = call[u].id /\ call'[u].dst = call[u].dst
  BY <1>1 DEF Running, Like
<1>5. HostWritten' /\ \A i \in DOMAIN pending' : pending'[i].reads \subseteq AllPlaces
  <2>1. CASE UNCHANGED pending
    BY <1>1, <1>4, <2>1, HostWrittenSame
  <2>2. ASSUME NEW entry \in Entry, entry.call = call[t].id, pending' = Append(pending, entry),
               \A p \in entry.writes : p[1] \in HostArray => p[1] = call[t].dst,
               entry.reads \subseteq AllPlaces
        PROVE  HostWritten' /\ \A i \in DOMAIN pending' : pending'[i].reads \subseteq AllPlaces
    BY <1>1, <1>4, <2>2, HostWrittenMore
  <2> QED BY <2>1, <2>2
<1>6. DOMAIN content' = AllPlaces /\ DOMAIN shown' = Object
  BY DEF PlanInv
<1> QED BY <1>3, <1>5, <1>6, PlanParts

\* Steps that end the work of a call.
LEMMA PlanEnds ==
  ASSUME CallTypes, CallsNumbered, PlanInv, NEW t \in Thread, Steps(t) # <<>>,
         NEW info \in Info, NEW failed \in BOOLEAN, WorkEnds(t, info, failed),
         UNCHANGED <<scenario, shown, pending, content>>,
         call[t].dst \in HostArray => info # "EXCEPTION"
  PROVE  PlanInv'
<1>1. /\ t \in Running /\ Running' = Running /\ \A u \in Thread : u # t => call'[u] = call[u]
      /\ Like(call[t], call'[t]) /\ call'[t].id = call[t].id
      /\ call'[t].info = info /\ call'[t].work = <<>>
  BY StepsEnd
<1>2. Shaped(call'[t], AllPlaces)
  BY <1>1, ShapedEnd DEF PlanInv
<1>3. (\A u \in Running : Shaped(call[u], AllPlaces))' /\ Separate'
  BY <1>1, <1>2, CallsStaySeparate
<1>4. \A u \in Running : call'[u].id = call[u].id /\ call'[u].dst = call[u].dst
  BY <1>1 DEF Running, Like
<1>5. HostWritten' /\ \A i \in DOMAIN pending' : pending'[i].reads \subseteq AllPlaces
  BY <1>1, <1>4, HostWrittenSame
<1>6. DOMAIN content' = AllPlaces /\ DOMAIN shown' = Object
  BY DEF PlanInv
<1> QED BY <1>3, <1>5, <1>6, PlanParts

\* The step that is next is the first of the work.
LEMMA NextStep ==
  ASSUME CallTypes, NEW t \in Thread, InWork(t)
  PROVE  /\ Steps(t) # <<>> /\ Head(Steps(t)) = call[t].work[1] /\ 1 \in DOMAIN call[t].work
         /\ Head(Steps(t)) = Head(call[t].work) /\ call[t].work # <<>>
         /\ call[t].work \in Seq(GoingOn \union Concluding)
<1>1. call[t].work # <<>> /\ call[t].work \in Seq(GoingOn \union Concluding)
  BY CallType DEF InWork
<1>2. Head(call[t].work) = call[t].work[1] /\ 1 \in DOMAIN call[t].work
  BY <1>1, WorkTail
<1> QED BY <1>1, <1>2, StepsOf

LEMMA PlanLaunch ==
  ASSUME CallTypes, CallsNumbered, PlanInv, NEW t \in Thread, LaunchSucceeds(t)
  PROVE  PlanInv'
<1> DEFINE entry == Work(call[t].id, Head(Steps(t)).reads, Head(Steps(t)).writes)
<1>1. /\ AtStep(t, "launch") /\ StepDone(t) /\ pending' = Append(pending, entry)
      /\ UNCHANGED <<scenario, shown, content>>
  BY DEF LaunchSucceeds, Enqueue
<1>2. /\ InWork(t) /\ Steps(t) # <<>>
      /\ Head(Steps(t)).reads \in SUBSET Place /\ Head(Steps(t)).writes \in SUBSET Place
  BY <1>1, WorkSteps
<1>3. /\ entry \in Entry /\ entry.call = call[t].id
      /\ entry.reads = Head(Steps(t)).reads /\ entry.writes = Head(Steps(t)).writes
  BY <1>2, CallType, EntryTypes DEF Work
<1>4. t \in Running
  BY <1>2, StepsAreOfRunning
<1>5. 1 \in Launches(call[t].work) /\ Head(Steps(t)) = call[t].work[1]
  BY <1>1, <1>2, NextStep DEF Launches, AtStep
<1>6. Shaped(call[t], AllPlaces)
  BY <1>4 DEF PlanInv
<1>7. /\ Head(Steps(t)).reads \subseteq AllPlaces
      /\ \A p \in Head(Steps(t)).writes : p[1] \in Names(call[t])
  BY <1>5, <1>6 DEF Shaped, Planned
<1>8. \A n \in Names(call[t]) : n \in HostArray => n = call[t].dst
  BY NamesAssumption DEF Names, TemporariesOf, Temporary, Object
<1>9. /\ \A p \in entry.writes : p[1] \in HostArray => p[1] = call[t].dst
      /\ entry.reads \subseteq AllPlaces
  BY <1>3, <1>7, <1>8
<1> HIDE DEF entry
<1> QED BY <1>1, <1>2, <1>3, <1>9, PlanGoesOn

LEMMA PlanMake ==
  ASSUME CallTypes, CallsNumbered, PlanInv, NEW t \in Thread, MakeSucceeds(t)
  PROVE  PlanInv'
<1>1. /\ Steps(t) # <<>> /\ StepDone(t) /\ UNCHANGED <<scenario, shown, pending>>
      /\ DOMAIN content' = DOMAIN content
  BY DEF MakeSucceeds, AtStep
<1> QED BY <1>1, PlanGoesOn

LEMMA PlanRecord ==
  ASSUME CallTypes, CallsNumbered, PlanInv, NEW t \in Thread, Record(t)
  PROVE  PlanInv'
<1> DEFINE entry == Event(call[t].id)
<1>1. /\ Steps(t) # <<>> /\ StepDone(t) /\ UNCHANGED <<scenario, shown, content>>
      /\ pending' = Append(pending, entry)
  BY DEF Record, Enqueue, AtStep
<1>2. /\ entry \in Entry /\ entry.call = call[t].id /\ entry.writes = {} /\ entry.reads = {}
  BY CallType, EntryTypes DEF Event
<1> HIDE DEF entry
<1> QED BY <1>1, <1>2, PlanGoesOn

LEMMA PlanWait ==
  ASSUME CallTypes, CallsNumbered, PlanInv, NEW t \in Thread, Wait(t)
  PROVE  PlanInv'
<1>1. Steps(t) # <<>> /\ StepDone(t) /\ UNCHANGED <<scenario, shown, content, pending>>
  BY DEF Wait, AtStep, streamVars
<1> QED BY <1>1, PlanGoesOn

\* No step that a download takes throws.
LEMMA PlanStops ==
  ASSUME CallTypes, CallsNumbered, PlanInv, NEW t \in Thread,
         TaskFails(t) \/ StepThrows(t) \/ ConcludeWork(t)
  PROVE  PlanInv'
<1>1. CASE TaskFails(t)
  <2>1. /\ Steps(t) # <<>> /\ WorkEnds(t, FailureInfo(t), TRUE)
        /\ UNCHANGED <<scenario, shown, pending, content>>
    BY <1>1 DEF TaskFails, AtStep, streamVars
  <2>2. FailureInfo(t) \in Info /\ FailureInfo(t) # "EXCEPTION"
    BY DEF FailureInfo, Info
  <2>3. \E failed \in BOOLEAN : WorkEnds(t, FailureInfo(t), failed)
    BY <2>1
  <2> QED BY <2>1, <2>2, <2>3, PlanEnds
<1>2. CASE StepThrows(t)
  <2>1. /\ Steps(t) # <<>> /\ WorkEnds(t, "EXCEPTION", TRUE)
        /\ UNCHANGED <<scenario, shown, pending, content>>
        /\ AtStep(t, "make") \/ call[t].task \in {"converter", "resizer"}
    BY <1>2 DEF StepThrows, AtStep, streamVars
  <2>2. t \in Running
    BY <2>1, StepsAreOfRunning
  <2>3. Shaped(call[t], AllPlaces)
    BY <2>2 DEF PlanInv
  <2>4. ASSUME call[t].dst \in HostArray PROVE FALSE
    <3>1. call[t].task = "downloader" /\ Names(call[t]) = {call[t].dst}
      BY <2>3, <2>4 DEF Shaped, Names, TemporariesOf
    <3>2. AtStep(t, "make")
      BY <2>1, <3>1
    <3>3. InWork(t) /\ Head(Steps(t)) = call[t].work[1] /\ 1 \in Makes(call[t].work)
      BY <3>2, WorkSteps, NextStep DEF Makes, AtStep
    <3>4. call[t].work[1].temp = call[t].dst
      BY <2>3, <3>1, <3>3 DEF Shaped, Planned
    <3>5. call[t].work[1] \in GoingOn \union Concluding /\ call[t].work[1].do = "make"
      BY <3>2, <3>3, StepsOf DEF AtStep
    <3>6. call[t].work[1].temp \in Temporary
      BY <3>5 DEF GoingOn, Concluding, RecordEvent, WaitForEvent
    <3> QED BY <2>4, <3>4, <3>6, NamesAssumption DEF Object
  <2>5. "EXCEPTION" \in Info /\ \E failed \in BOOLEAN : WorkEnds(t, "EXCEPTION", failed)
    BY <2>1 DEF Info
  <2> QED BY <2>1, <2>4, <2>5, PlanEnds
<1>3. CASE ConcludeWork(t)
  <2>1. /\ AtStep(t, "conclude") /\ WorkEnds(t, Head(Steps(t)).info, FALSE)
        /\ UNCHANGED <<scenario, shown, pending, content>>
    BY <1>3 DEF ConcludeWork, streamVars
  <2>2. InWork(t) /\ Head(Steps(t)).info \in Info
    BY <2>1, WorkSteps
  <2>3. Steps(t) # <<>> /\ 1 \in Concludes(call[t].work) /\ Head(Steps(t)) = call[t].work[1]
    BY <2>1, <2>2, NextStep DEF Concludes, AtStep
  <2>4. t \in Running
    BY <2>3, StepsAreOfRunning
  <2>5. call[t].dst \in HostArray => Head(Steps(t)).info # "EXCEPTION"
    BY <2>3, <2>4 DEF PlanInv, Shaped
  <2>6. \E failed \in BOOLEAN : WorkEnds(t, Head(Steps(t)).info, failed)
    BY <2>1
  <2> QED BY <2>1, <2>2, <2>3, <2>5, <2>6, PlanEnds
<1> QED BY <1>1, <1>2, <1>3

LEMMA PlanReturn ==
  ASSUME CallTypes, CallsNumbered, CallsClosed, PlanInv, NEW t \in Thread, Return(t)
  PROVE  PlanInv'
<1>1. /\ t \in Running /\ call[t].work = <<>> /\ call[t].closing = <<>>
      /\ Running' = Running \ {t} /\ \A u \in Thread \ {t} : call'[u] = call[u]
      /\ UNCHANGED <<pending, scenario, calls>>
  BY CallReturned
<1>2. UNCHANGED content /\ DOMAIN shown' = DOMAIN shown
  BY DEF Return, streamVars
<1>3. AllPlaces' = AllPlaces
  BY <1>1, SameScene
<1>4. \A u \in Running' : u \in Running /\ u # t /\ call'[u] = call[u]
  BY <1>1 DEF Running
<1>5. (\A u \in Running : Shaped(call[u], AllPlaces))' /\ Separate'
  <2>1. \A u \in Running' : Shaped(call'[u], AllPlaces)
    BY <1>4 DEF PlanInv
  <2>2. (\A u \in Running : Shaped(call[u], AllPlaces))'
    BY <1>3, <2>1
  <2>3. Separate'
    BY <1>4 DEF Separate, PlanInv
  <2> QED BY <2>2, <2>3
<1>6. ASSUME NEW i \in DOMAIN pending, NEW p \in pending[i].writes, p[1] \in HostArray
      PROVE  \E u \in Running' : call'[u].id = pending[i].call /\ call'[u].dst = p[1]
  <2>1. PICK u \in Running : call[u].id = pending[i].call /\ call[u].dst = p[1]
    BY <1>6 DEF PlanInv, HostWritten
  <2>2. u # t
    <3>1. SUFFICES ASSUME u = t PROVE FALSE
      OBVIOUS
    <3>2. call[t].mode = "blocking" /\ call[t].info # "EXCEPTION"
      BY <1>6, <2>1, <3>1 DEF PlanInv, Shaped
    <3>3. ClosedBlocking(call[t], pending)
      BY <1>1, <3>2 DEF CallsClosed
    <3>4. <<>> # <<WaitForEvent>> /\ <<>> # Synchronize
      BY DEF Synchronize
    <3>5. Absent(pending, call[t].id)
      BY <1>1, <3>2, <3>3, <3>4 DEF ClosedBlocking
    <3> QED BY <2>1, <3>1, <3>5 DEF Absent
  <2>3. u \in Thread
    BY DEF Running
  <2> QED BY <1>1, <2>1, <2>2, <2>3
<1>7. HostWritten'
  BY <1>1, <1>6 DEF HostWritten
<1> QED BY <1>1, <1>2, <1>3, <1>5, <1>7 DEF PlanInv

LEMMA PlanBegins ==
  ASSUME CallTypes, CallsNumbered, PlanInv, NEW t \in Thread, BeginAny(t)
  PROVE  PlanInv'
<1>1. PICK c : call'[t] = c /\ Begun(c)
  BY BegunWell
<1>2. PICK next \in Call :
           /\ t \notin Running /\ calls' = calls + 1 /\ call' = [call EXCEPT ![t] = next]
           /\ next.id = calls + 1
           /\ UNCHANGED pending \/ pending' = Append(pending, Event(calls + 1))
           /\ UNCHANGED <<scenario, left>>
  BY Beginning
<1>3. /\ call' \in [Thread -> Call] /\ Running' = Running \union {t}
      /\ \A u \in Thread \ {t} : call'[u] = call[u]
  BY <1>2, CallBegun
<1>4. UNCHANGED <<content, shown>> /\ AllPlaces' = AllPlaces
  BY <1>2, BegunWell, SameScene
<1>5. \A u \in Running : u # t /\ call'[u] = call[u]
  BY <1>2, <1>3 DEF Running
<1>6. \A u \in Running' : Shaped(call'[u], AllPlaces)
  BY <1>1, <1>3, <1>5, ShapedBegun DEF PlanInv
<1>7. (\A u \in Running : Shaped(call[u], AllPlaces))'
  BY <1>4, <1>6
<1>8. \A u \in Running : /\ call[u].task # c.task /\ c.dst \notin {call[u].src, call[u].dst}
                         /\ c.src # call[u].dst
  BY <1>1 DEF Begun, Exclusive
<1>9. Separate'
  <2> SUFFICES ASSUME NEW u \in Running', NEW v \in Running', u # v
               PROVE  call'[u].task # call'[v].task /\ call'[u].dst \notin {call'[v].src, call'[v].dst}
    BY DEF Separate
  <2>1. CASE u = t
    BY <1>1, <1>3, <1>5, <1>8, <2>1
  <2>2. CASE v = t
    BY <1>1, <1>3, <1>5, <1>8, <2>2
  <2>3. CASE u # t /\ v # t
    BY <1>3, <1>5, <2>3 DEF PlanInv, Separate
  <2> QED BY <2>1, <2>2, <2>3
<1>10. HostWritten' /\ \A i \in DOMAIN pending' : pending'[i].reads \subseteq AllPlaces
  <2>1. calls + 1 \in Nat /\ pending \in Seq(Entry)
    BY DEF CallTypes
  <2>2. /\ Event(calls + 1) \in Entry /\ Event(calls + 1).writes = {} /\ Event(calls + 1).reads = {}
    BY <2>1, EntryTypes DEF Event
  <2>3. \A i \in DOMAIN pending' : pending'[i] = Event(calls + 1) \/ \E j \in DOMAIN pending : pending'[i] = pending[j]
    BY <1>2, <2>1, <2>2, QueueContents
  <2>4. \A i \in DOMAIN pending' : \/ pending'[i].writes = {} /\ pending'[i].reads = {}
                                   \/ \E j \in DOMAIN pending : pending'[i] = pending[j]
    BY <2>2, <2>3
  <2> QED BY <1>3, <1>5, <2>4, HostWrittenSame
<1> QED BY <1>2, <1>4, <1>7, <1>9, <1>10, PlanParts DEF PlanInv

LEMMA PlanPerform ==
  ASSUME CallTypes, PlanInv, GpuPerforms
  PROVE  PlanInv'
<1>1. /\ pending # <<>> /\ pending' = Tail(pending) /\ DOMAIN content' = DOMAIN content
      /\ UNCHANGED <<scenario, call, shown>>
  BY DEF GpuPerforms, Perform
<1>2. Running' = Running /\ AllPlaces' = AllPlaces
  BY <1>1, SameScene DEF Running
<1>3. \A i \in DOMAIN pending' : \E j \in DOMAIN pending : pending'[i] = pending[j]
  BY <1>1, QueueShrinks DEF CallTypes
<1>4. HostWritten' /\ \A i \in DOMAIN pending' : pending'[i].reads \subseteq AllPlaces
  BY <1>1, <1>2, <1>3, HostWrittenSame
<1>5. (\A u \in Running : Shaped(call[u], AllPlaces))' /\ Separate'
  BY <1>1, <1>2 DEF PlanInv, Separate
<1> QED BY <1>1, <1>4, <1>5, PlanParts DEF PlanInv

LEMMA PlanStep ==
  ASSUME CallTypes, CallsNumbered, CallsClosed, PlanInv, [Next]_vars
  PROVE  PlanInv'
<1>1. CASE UNCHANGED vars
  <2>1. UNCHANGED <<scenario, call, shown, pending, content>>
    BY <1>1 DEF vars, streamVars
  <2>2. Running' = Running /\ AllPlaces' = AllPlaces
    BY <2>1, SameScene DEF Running
  <2> QED BY <2>1, <2>2 DEF PlanInv, Separate, HostWritten
<1>2. ASSUME NEW t \in Thread, CallStep(t) PROVE PlanInv'
  BY <1>2, PlanLaunch, PlanMake, PlanRecord, PlanWait, PlanStops, PlanReturn DEF CallStep
<1> QED BY <1>1, <1>2, PlanPerform, PlanBegins DEF Next

LEMMA PlanInit == Init => PlanInv
<1> SUFFICES ASSUME Init PROVE PlanInv
  OBVIOUS
<1>1. Running = {}
  BY DEF Init, Running
<1>2. DOMAIN pending = {}
  BY DEF Init
<1>3. AllPlaces = UNION {Places(o) : o \in Object \union Temporary}
  BY DEF AllPlaces, At
<1>4. DOMAIN content = AllPlaces /\ DOMAIN shown = Object
  BY <1>3 DEF Init
<1> QED BY <1>1, <1>2, <1>4 DEF PlanInv, Separate, HostWritten

-----------------------------------------------------------------------------
\* What other calls do is not seen by a call.
LEMMA UnderwayElsewhere ==
  ASSUME NEW v, NEW w, NEW names, Changes(v, w, names), NEW c, NEW r, NEW at, NEW pics,
         names \intersect Names(c) = {}, at[c.dst] \subseteq DOMAIN v,
         \A p \in at[c.dst] : p[1] = c.dst,
         Underway(v, c, r, at, pics)
  PROVE  Underway(w, c, r, at, pics)
<1>1. \A p \in at[c.dst] : p[1] \notin names
  BY DEF Names
<1>2. \A pic : Holds(v, at[c.dst], pic) => Holds(w, at[c.dst], pic)
  BY <1>1, HoldsElsewhere
<1>3. \A pic : Carries(v, c, at, pic) => Carries(w, c, at, pic)
  BY CarriesElsewhere
<1> QED BY <1>2, <1>3 DEF Underway

\* Nothing in it but its work and its answer decides what a call makes.
LEMMA UnderwayLike ==
  ASSUME NEW v, NEW c, NEW next, NEW r, NEW at, NEW pics, Like(c, next),
         next.work = c.work, next.info = c.info, Underway(v, c, r, at, pics)
  PROVE  Underway(v, next, r, at, pics)
<1>1. /\ Names(next) = Names(c) /\ (Packed(r, next) <=> Packed(r, c))
      /\ (Untouched(next) <=> Untouched(c))
  BY DEF Like, Names, Packed, Untouched
<1>2. \A pic : Carries(v, next, at, pic) <=> Carries(v, c, at, pic)
  BY <1>1 DEF Carries, Like
<1> QED BY <1>1, <1>2 DEF Underway, Like

LEMMA UnderwayFurther ==
  ASSUME NEW v, NEW w, NEW c, NEW next, NEW r, NEW at, NEW pics, NEW all, Shaped(c, all),
         Like(c, next), next.info = c.info, Further(c, next), Head(c.work).do # "conclude",
         pics[c.src] # Unknown /\ Carries(v, c, at, pics[c.src]) => Carries(w, next, at, pics[c.src]),
         Underway(v, c, r, at, pics)
  PROVE  Underway(w, next, r, at, pics)
<1>1. c.work \in Seq(GoingOn \union Concluding) /\ c.work # <<>> /\ next.work = Tail(c.work)
  BY DEF Further
<1>2. c.info = "SUCCESS" /\ ~Refused(c.info)
  BY <1>1 DEF Shaped, Refused
<1>3. ASSUME NEW i \in Concludes(next.work) PROVE ~Refused(next.work[i].info)
  <2>1. /\ i + 1 \in Concludes(c.work) /\ next.work[i] = c.work[i + 1]
        /\ i \in Nat /\ i >= 1 /\ i <= Len(c.work) - 1 /\ Len(c.work) \in Nat
    BY <1>1, StepsTail, WorkTail DEF Concludes
  <2>2. Refused(c.work[i + 1].info) => Len(c.work) = 1
    BY <2>1 DEF Shaped, Planned
  <2> QED BY <2>1, <2>2
<1>4. ~Untouched(next)
  BY <1>2, <1>3 DEF Untouched
<1>5. Concludes(next.work) = {} => Concludes(c.work) = {}
  <2> SUFFICES ASSUME NEW i \in Concludes(c.work) PROVE \E k : k \in Concludes(next.work)
    OBVIOUS
  <2>1. i # 1
    BY <1>1, WorkTail DEF Concludes
  <2>2. i - 1 \in DOMAIN next.work /\ next.work[i - 1] = c.work[i]
    BY <1>1, <2>1, StepsTail
  <2>3. i - 1 \in Concludes(next.work)
    BY <2>2 DEF Concludes
  <2> QED BY <2>3
<1>6. Packed(r, next) <=> Packed(r, c)
  BY DEF Like, Packed
<1> QED BY <1>4, <1>5, <1>6 DEF Underway, Like

\* A call that is through with its work has left things as they were, if it
\* refused; if it failed, it promised nothing.
LEMMA UnderwayEnd ==
  ASSUME NEW v, NEW c, NEW next, NEW r, NEW at, NEW pics, Like(c, next),
         next.info # "SUCCESS", next.work = <<>>, Refused(next.info) => Untouched(c),
         Underway(v, c, r, at, pics)
  PROVE  Underway(v, next, r, at, pics)
<1>1. Concludes(<<>>) = {}
  BY DEF Concludes
<1> QED BY <1>1 DEF Underway, Untouched, Like

-----------------------------------------------------------------------------
\* The places as far as the invariant needs them.
LEMMA PlacesKnown ==
  ASSUME CallTypes, PlanInv, NEW v, NEW b, Foretold(v, pending, content, b)
  PROVE  /\ DOMAIN b = AllPlaces
         /\ \A o \in Object : /\ At[o] \subseteq DOMAIN b /\ o \notin Temporary
                              /\ \A p \in At[o] : p[1] = o
         /\ \A t \in Running : Shaped(call[t], AllPlaces)
<1>1. Len(pending) \in Nat
  BY LenProperties DEF CallTypes
<1>2. Len(pending) \in 0 .. Len(pending)
  BY <1>1
<1>3. b = v[Len(pending)] /\ DOMAIN v[Len(pending)] = DOMAIN content
  BY <1>2 DEF Foretold
<1>4. DOMAIN b = AllPlaces
  BY <1>3 DEF PlanInv
<1>5. \A o \in Object : At[o] \subseteq AllPlaces /\ \A p \in At[o] : p[1] = o
  BY WhereThings DEF CallTypes
<1> QED BY <1>4, <1>5, NamesAssumption DEF PlanInv

\* A step of a call that changes places of its own.
LEMMA PicturesKept ==
  ASSUME PlanInv, NEW t \in Running, Running' = Running, UNCHANGED <<scenario, shown>>,
         \A u \in Thread : u # t => call'[u] = call[u],
         Like(call[t], call'[t]),
         NEW b, NEW w, DOMAIN b = AllPlaces,
         \A o \in Object : /\ At[o] \subseteq DOMAIN b /\ o \notin Temporary
                           /\ \A p \in At[o] : p[1] = o,
         Changes(b, w, Names(call[t])), Pictures(b),
         Underway(w, call'[t], row, At, shown)
  PROVE  Pictures(w)'
<1> DEFINE names == Names(call[t])
<1>1. At' = At /\ row' = row /\ shown' = shown
  BY SameScene
<1>2. \A u \in Running : u \in Thread /\ call[u].dst \in Object
  BY DEF Running, PlanInv, Shaped
<1>3. Written' = Written
  BY <1>2 DEF Written, Like
<1>4. \A o \in Object \ Written : o \notin names
  <2>1. call[t].dst \in Written
    BY DEF Written
  <2>2. TemporariesOf(call[t].task) \subseteq Temporary
    BY DEF TemporariesOf, Temporary
  <2> QED BY <2>1, <2>2, NamesAssumption DEF Names
<1>5. ASSUME NEW o \in Object \ Written, shown[o] # Unknown PROVE Holds(w, At[o], shown[o])
  <2>1. Holds(b, At[o], shown[o])
    BY <1>5 DEF Pictures, Resting
  <2>2. At[o] \subseteq DOMAIN b /\ \A p \in At[o] : p[1] \notin names
    BY <1>4
  <2> HIDE DEF names
  <2> QED BY <2>1, <2>2, HoldsElsewhere DEF names
<1>6. Resting(w, Written, At, shown)
  BY <1>5 DEF Resting
<1>7. ASSUME NEW u \in Running, u # t PROVE Underway(w, call[u], row, At, shown)
  <2>1. /\ call[u].task # call[t].task /\ call[u].dst # call[t].dst
        /\ call[u].dst \in Object /\ call[t].dst \in Object
    BY <1>2, <1>7 DEF PlanInv, Separate
  <2>2. names \intersect Names(call[u]) = {}
    BY <2>1, NamesApart
  <2>3. Underway(b, call[u], row, At, shown)
    BY DEF Pictures
  <2>4. At[call[u].dst] \subseteq DOMAIN b /\ \A p \in At[call[u].dst] : p[1] = call[u].dst
    BY <2>1
  <2> QED BY <2>2, <2>3, <2>4, UnderwayElsewhere
<1>8. \A u \in Running : Underway(w, call'[u], row, At, shown)
  BY <1>2, <1>7
<1>9. Resting(w, Written', At', shown') /\ \A u \in Running' : Underway(w, call'[u], row', At', shown')
  BY <1>1, <1>3, <1>6, <1>8
<1> QED BY <1>9 DEF Pictures

\* One that changes nothing.
LEMMA PicturesSame ==
  ASSUME NEW b, NEW w, DOMAIN b = AllPlaces, Changes(b, w, {}), Pictures(b),
         \A o \in Object : At[o] \subseteq DOMAIN b,
         \A t \in Running : call[t].dst \in Object /\ \A p \in At[call[t].dst] : p[1] = call[t].dst
  PROVE  Pictures(w)
<1>1. ASSUME NEW o \in Object \ Written, shown[o] # Unknown PROVE Holds(w, At[o], shown[o])
  <2>1. Holds(b, At[o], shown[o])
    BY <1>1 DEF Pictures, Resting
  <2> QED BY <2>1, HoldsElsewhere
<1>2. ASSUME NEW u \in Running PROVE Underway(w, call[u], row, At, shown)
  <2>1. Underway(b, call[u], row, At, shown)
    BY DEF Pictures
  <2>2. At[call[u].dst] \subseteq DOMAIN b /\ \A p \in At[call[u].dst] : p[1] = call[u].dst
    OBVIOUS
  <2> QED BY <2>1, <2>2, UnderwayElsewhere
<1> QED BY <1>1, <1>2 DEF Pictures, Resting

LEMMA EventChanges ==
  ASSUME NEW b, NEW id
  PROVE  Changes(b, Effect(b, Event(id)), {})
BY EffectChanges DEF Event

-----------------------------------------------------------------------------
\* A call goes on with its work, or with what closes it.
LEMMA PicturesFurther ==
  ASSUME CallTypes, CallsNumbered, PlanInv, NEW t \in Thread, Steps(t) # <<>>, StepDone(t),
         UNCHANGED <<scenario, shown>>,
         NEW v, NEW b, Foretold(v, pending, content, b), Pictures(b),
         NEW w, Changes(b, w, Names(call[t])),
         ~InWork(t) => Changes(b, w, {}),
         InWork(t) => /\ Head(call[t].work).do # "conclude"
                      /\ LET pic == shown[call[t].src]
                         IN /\ pic # Unknown /\ Carries(b, call[t], At, pic)
                            /\ Holds(b, At[call[t].src], pic) /\ Further(call[t], call'[t])
                            => Carries(w, call'[t], At, pic)
  PROVE  Pictures(w)'
<1>1. /\ t \in Running /\ Running' = Running /\ \A u \in Thread : u # t => call'[u] = call[u]
      /\ Like(call[t], call'[t]) /\ call'[t].id = call[t].id /\ call'[t].info = call[t].info
      /\ InWork(t) => Further(call[t], call'[t])
      /\ ~InWork(t) => call'[t].work = call[t].work
  BY StepsFurther
<1>2. /\ DOMAIN b = AllPlaces
      /\ \A o \in Object : /\ At[o] \subseteq DOMAIN b /\ o \notin Temporary
                           /\ \A p \in At[o] : p[1] = o
      /\ Shaped(call[t], AllPlaces)
  BY <1>1, PlacesKnown
<1>3. Underway(b, call[t], row, At, shown)
  BY <1>1 DEF Pictures
<1>4. CASE InWork(t)
  <2> DEFINE pic == shown[call[t].src]
  <2>1. call[t].src \in Object \ Written
    <3>1. call[t].src \in Object /\ call[t].src # call[t].dst
      BY <1>2 DEF Shaped
    <3>2. \A u \in Running : u # t => call[u].dst # call[t].src
      BY <1>1 DEF PlanInv, Separate
    <3> QED BY <3>1, <3>2 DEF Written
  <2>2. pic # Unknown => Holds(b, At[call[t].src], pic)
    BY <2>1 DEF Pictures, Resting
  <2>3. pic # Unknown /\ Carries(b, call[t], At, pic) => Carries(w, call'[t], At, pic)
    BY <1>1, <1>4, <2>2
  <2>4. Underway(w, call'[t], row, At, shown)
    BY <1>1, <1>2, <1>3, <1>4, <2>3, UnderwayFurther
  <2> QED BY <1>1, <1>2, <2>4, PicturesKept
<1>5. CASE ~InWork(t)
  <2>1. call[t].dst \in Object
    BY <1>2 DEF Shaped
  <2>2. Underway(w, call[t], row, At, shown)
    BY <1>2, <1>3, <1>5, <2>1, UnderwayElsewhere
  <2>3. Underway(w, call'[t], row, At, shown)
    BY <1>1, <1>5, <2>2, UnderwayLike
  <2> QED BY <1>1, <1>2, <2>3, PicturesKept
<1> QED BY <1>4, <1>5

LEMMA ViewLaunch ==
  ASSUME CallTypes, CallsNumbered, PlanInv, ViewInv, NEW t \in Thread, LaunchSucceeds(t)
  PROVE  ViewInv'
<1> DEFINE entry == Work(call[t].id, Head(Steps(t)).reads, Head(Steps(t)).writes)
<1>1. /\ AtStep(t, "launch") /\ StepDone(t) /\ pending' = Append(pending, entry)
      /\ UNCHANGED <<scenario, shown, content>>
  BY DEF LaunchSucceeds, Enqueue
<1>2. /\ InWork(t) /\ Steps(t) # <<>>
      /\ Head(Steps(t)).reads \in SUBSET Place /\ Head(Steps(t)).writes \in SUBSET Place
  BY <1>1, WorkSteps
<1>3. /\ entry \in Entry
      /\ entry.reads = Head(Steps(t)).reads /\ entry.writes = Head(Steps(t)).writes
  BY <1>2, CallType, EntryTypes DEF Work
<1>4. t \in Running /\ Shaped(call[t], AllPlaces)
  BY <1>2, StepsAreOfRunning DEF PlanInv
<1>5. /\ Head(Steps(t)) = Head(call[t].work) /\ Head(call[t].work).do = "launch"
      /\ 1 \in Launches(call[t].work) /\ Head(Steps(t)) = call[t].work[1]
  BY <1>1, <1>2, NextStep DEF Launches, AtStep
<1>6. \A p \in entry.writes : p[1] \in Names(call[t])
  BY <1>3, <1>4, <1>5 DEF Shaped, Planned
<1> HIDE DEF entry
<1>7. PICK v, b : Foretold(v, pending, content, b) /\ Pictures(b)
  BY DEF ViewInv
<1>w. PICK w : w = Effect(b, entry)
  OBVIOUS
<1>8. Changes(b, w, Names(call[t]))
  BY <1>6, <1>w, EffectChanges
<1>9. \A pic : /\ Carries(b, call[t], At, pic) /\ Holds(b, At[call[t].src], pic)
               /\ Further(call[t], call'[t])
               => Carries(w, call'[t], At, pic)
  BY <1>3, <1>5, <1>w, LaunchCarries
<1>10. \E x : Foretold(x, Append(pending, entry), content, w)
  BY <1>3, <1>7, <1>w, ForetoldMore DEF CallTypes
<1>11. Pictures(w)'
  BY <1>1, <1>2, <1>5, <1>7, <1>8, <1>9, PicturesFurther
<1>12. \E x : Foretold(x, pending', content', w)
  BY <1>1, <1>10
<1> QED BY <1>11, <1>12 DEF ViewInv

LEMMA ViewMake ==
  ASSUME CallTypes, CallsNumbered, PlanInv, ViewInv, NEW t \in Thread, MakeSucceeds(t)
  PROVE  ViewInv'
<1> DEFINE made == Head(Steps(t))
           places == Places(made.temp)
<1>1. /\ AtStep(t, "make") /\ StepDone(t) /\ UNCHANGED <<scenario, shown, pending>>
      /\ ~Touched(places) /\ content' = Garble(content, places)
  BY DEF MakeSucceeds, Garble
<1>2. InWork(t)
  BY <1>1, WorkSteps
<1>3. Steps(t) # <<>> /\ made = Head(call[t].work) /\ 1 \in Makes(call[t].work) /\ made = call[t].work[1]
  BY <1>1, <1>2, NextStep DEF Makes, AtStep
<1>4. t \in Running /\ Shaped(call[t], AllPlaces)
  BY <1>3, StepsAreOfRunning DEF PlanInv
<1>5. made.temp \in Names(call[t])
  BY <1>3, <1>4 DEF Shaped, Planned
<1>6. made.temp \in Temporary
  <2>1. made \in GoingOn \union Concluding /\ made.do = "make"
    BY <1>1, <1>2, StepsOf DEF AtStep
  <2> QED BY <2>1 DEF GoingOn, Concluding, RecordEvent, WaitForEvent
<1>7. At[made.temp] = places /\ \A p \in places : p[1] = made.temp
  <2>1. \A o \in Temporary : At[o] = Places(o) /\ \A p \in At[o] : p[1] = o
    BY WhereThings DEF CallTypes
  <2> HIDE DEF made
  <2> QED BY <1>6, <2>1
<1> HIDE DEF places
<1>8. \A p \in places : p[1] \in Names(call[t])
  BY <1>5, <1>7
<1>9. PICK v, b : Foretold(v, pending, content, b) /\ Pictures(b)
  BY DEF ViewInv
<1>w. PICK w : w = Garble(b, places)
  OBVIOUS
<1>10. Changes(b, w, Names(call[t]))
  BY <1>8, <1>w, GarbleChanges
<1>11. made.do = "make"
  BY <1>1 DEF AtStep
<1>12. \A pic : Carries(b, call[t], At, pic) /\ Further(call[t], call'[t]) => Carries(w, call'[t], At, pic)
  BY <1>3, <1>7, <1>11, <1>w, MakeCarries
<1>13. \E x : Foretold(x, pending, Garble(content, places), w)
  <2>1. \A i \in DOMAIN pending : (pending[i].reads \union pending[i].writes) \intersect places = {}
    BY <1>1 DEF Touched
  <2>2. \A i \in DOMAIN pending : pending[i].reads \subseteq DOMAIN content
    BY DEF PlanInv
  <2>3. pending \in Seq(Entry)
    BY DEF CallTypes
  <2> QED BY <1>9, <1>w, <2>1, <2>2, <2>3, ForetoldElsewhere
<1>14. Pictures(w)'
  <2>1. Head(call[t].work).do # "conclude"
    BY <1>3, <1>11
  <2> QED BY <1>1, <1>2, <1>3, <1>9, <1>10, <1>12, <2>1, PicturesFurther
<1>15. \E x : Foretold(x, pending', content', w)
  BY <1>1, <1>13
<1> QED BY <1>14, <1>15 DEF ViewInv

LEMMA ViewRecord ==
  ASSUME CallTypes, CallsNumbered, PlanInv, ViewInv, NEW t \in Thread, Record(t)
  PROVE  ViewInv'
<1> DEFINE entry == Event(call[t].id)
<1>1. /\ AtStep(t, "record") /\ StepDone(t) /\ pending' = Append(pending, entry)
      /\ UNCHANGED <<scenario, shown, content>>
  BY DEF Record, Enqueue
<1>2. entry \in Entry
  BY CallType, EntryTypes
<1>3. PICK v, b : Foretold(v, pending, content, b) /\ Pictures(b)
  BY DEF ViewInv
<1>w. PICK w : w = Effect(b, entry)
  OBVIOUS
<1>4. Changes(b, w, {})
  BY <1>w, EventChanges
<1>5. \E x : Foretold(x, Append(pending, entry), content, w)
  BY <1>2, <1>3, <1>w, ForetoldMore DEF CallTypes
<1> HIDE DEF entry
<1>6. Changes(b, w, Names(call[t]))
  BY <1>4 DEF Changes
<1>7. Steps(t) # <<>> /\ Head(Steps(t)).do = "record"
  BY <1>1 DEF AtStep
<1>8. InWork(t) => Head(call[t].work).do = "record"
  BY <1>7, NextStep
<1>9. InWork(t) => \A pic : Carries(b, call[t], At, pic) /\ Further(call[t], call'[t]) => Carries(w, call'[t], At, pic)
  BY <1>4, <1>8, OtherCarries
<1>10. Pictures(w)'
  BY <1>1, <1>3, <1>4, <1>6, <1>7, <1>8, <1>9, PicturesFurther
<1>11. \E x : Foretold(x, pending', content', w)
  BY <1>1, <1>5
<1> QED BY <1>10, <1>11 DEF ViewInv

LEMMA ViewWait ==
  ASSUME CallTypes, CallsNumbered, PlanInv, ViewInv, NEW t \in Thread, Wait(t)
  PROVE  ViewInv'
<1>1. AtStep(t, "wait") /\ StepDone(t) /\ UNCHANGED <<scenario, shown, content, pending>>
  BY DEF Wait, streamVars
<1>2. PICK v, b : Foretold(v, pending, content, b) /\ Pictures(b)
  BY DEF ViewInv
<1>3. Changes(b, b, {}) /\ Changes(b, b, Names(call[t]))
  BY DEF Changes
<1>4. Steps(t) # <<>> /\ Head(Steps(t)).do = "wait"
  BY <1>1 DEF AtStep
<1>5. InWork(t) => Head(call[t].work).do = "wait"
  BY <1>4, NextStep
<1>6. InWork(t) => \A pic : Carries(b, call[t], At, pic) /\ Further(call[t], call'[t]) => Carries(b, call'[t], At, pic)
  BY <1>3, <1>5, OtherCarries
<1>7. Pictures(b)'
  BY <1>1, <1>2, <1>3, <1>4, <1>5, <1>6, PicturesFurther
<1> QED BY <1>1, <1>2, <1>7 DEF ViewInv

LEMMA ViewEnds ==
  ASSUME CallTypes, CallsNumbered, PlanInv, ViewInv, NEW t \in Thread, Steps(t) # <<>>,
         NEW info \in Info, NEW failed \in BOOLEAN, WorkEnds(t, info, failed),
         UNCHANGED <<scenario, shown, pending, content>>,
         info # "SUCCESS", Refused(info) => Untouched(call[t])
  PROVE  ViewInv'
<1>1. /\ t \in Running /\ Running' = Running /\ \A u \in Thread : u # t => call'[u] = call[u]
      /\ Like(call[t], call'[t]) /\ call'[t].info = info /\ call'[t].work = <<>>
  BY StepsEnd
<1>2. PICK v, b : Foretold(v, pending, content, b) /\ Pictures(b)
  BY DEF ViewInv
<1>3. Underway(b, call[t], row, At, shown)
  BY <1>1, <1>2 DEF Pictures
<1>4. Underway(b, call'[t], row, At, shown)
  BY <1>1, <1>3, UnderwayEnd
<1>5. Changes(b, b, Names(call[t]))
  BY DEF Changes
<1>6. /\ DOMAIN b = AllPlaces
      /\ \A o \in Object : /\ At[o] \subseteq DOMAIN b /\ o \notin Temporary
                           /\ \A p \in At[o] : p[1] = o
  BY <1>2, PlacesKnown
<1>7. Pictures(b)'
  BY <1>1, <1>2, <1>4, <1>5, <1>6, PicturesKept
<1> QED BY <1>2, <1>7 DEF ViewInv

LEMMA ViewStops ==
  ASSUME CallTypes, CallsNumbered, PlanInv, ViewInv, NEW t \in Thread,
         TaskFails(t) \/ StepThrows(t) \/ ConcludeWork(t)
  PROVE  ViewInv'
<1>1. CASE TaskFails(t)
  <2>1. /\ Steps(t) # <<>> /\ WorkEnds(t, FailureInfo(t), TRUE)
        /\ UNCHANGED <<scenario, shown, pending, content>>
    BY <1>1 DEF TaskFails, AtStep, streamVars
  <2>2. FailureInfo(t) \in Info /\ FailureInfo(t) # "SUCCESS" /\ ~Refused(FailureInfo(t))
    BY DEF FailureInfo, Info, Refused
  <2>3. \E failed \in BOOLEAN : WorkEnds(t, FailureInfo(t), failed)
    BY <2>1
  <2> QED BY <2>1, <2>2, <2>3, ViewEnds
<1>2. CASE StepThrows(t)
  <2>1. /\ Steps(t) # <<>> /\ WorkEnds(t, "EXCEPTION", TRUE)
        /\ UNCHANGED <<scenario, shown, pending, content>>
    BY <1>2 DEF StepThrows, AtStep, streamVars
  <2>2. "EXCEPTION" \in Info /\ ~Refused("EXCEPTION") /\ \E failed \in BOOLEAN : WorkEnds(t, "EXCEPTION", failed)
    BY <2>1 DEF Info, Refused
  <2> QED BY <2>1, <2>2, ViewEnds
<1>3. CASE ConcludeWork(t)
  <2>1. /\ AtStep(t, "conclude") /\ WorkEnds(t, Head(Steps(t)).info, FALSE)
        /\ UNCHANGED <<scenario, shown, pending, content>>
    BY <1>3 DEF ConcludeWork, streamVars
  <2>2. InWork(t) /\ Head(Steps(t)).info \in Info
    BY <2>1, WorkSteps
  <2>3. Steps(t) # <<>> /\ 1 \in Concludes(call[t].work) /\ Head(Steps(t)) = call[t].work[1]
    BY <2>1, <2>2, NextStep DEF Concludes, AtStep
  <2>4. t \in Running
    BY <2>3, StepsAreOfRunning
  <2>5. Head(Steps(t)).info # "SUCCESS"
    BY <2>3, <2>4 DEF PlanInv, Shaped, Planned
  <2>6. Refused(Head(Steps(t)).info) => Untouched(call[t])
    BY <2>3 DEF Untouched
  <2>7. \E failed \in BOOLEAN : WorkEnds(t, Head(Steps(t)).info, failed)
    BY <2>1
  <2> QED BY <2>1, <2>2, <2>3, <2>5, <2>6, <2>7, ViewEnds
<1> QED BY <1>1, <1>2, <1>3

-----------------------------------------------------------------------------
LEMMA ViewPerform ==
  ASSUME CallTypes, ViewInv, GpuPerforms
  PROVE  ViewInv'
<1>1. PICK v, b : Foretold(v, pending, content, b) /\ Pictures(b)
  BY DEF ViewInv
<1>2. /\ pending # <<>> /\ pending' = Tail(pending) /\ UNCHANGED <<scenario, call, shown>>
  BY DEF GpuPerforms, Perform
<1>3. content' = Effect(content, Head(pending))
  <2>1. PictureIn(Head(pending).reads) = PictureOf(content, Head(pending).reads)
    BY DEF PictureIn, PictureOf
  <2> QED BY <2>1 DEF GpuPerforms, Perform, Effect
<1>4. \E x : Foretold(x, pending', content', b)
  BY <1>1, <1>2, <1>3, ForetoldLess DEF CallTypes
<1>5. Pictures(b)'
  <2>1. Running' = Running /\ At' = At /\ row' = row
    BY <1>2, SameScene DEF Running
  <2>2. Written' = Written
    BY <1>2, <2>1 DEF Written
  <2> QED BY <1>1, <1>2, <2>1, <2>2 DEF Pictures
<1> QED BY <1>4, <1>5 DEF ViewInv

\* A call begins, perhaps with its event, and will fill its destination.
LEMMA ViewBegins ==
  ASSUME CallTypes, CallsNumbered, PlanInv, ViewInv, NEW t \in Thread, BeginAny(t)
  PROVE  ViewInv'
<1>1. PICK c : call'[t] = c /\ Begun(c)
  BY BegunWell
<1>2. PICK next \in Call :
           /\ t \notin Running /\ calls' = calls + 1 /\ call' = [call EXCEPT ![t] = next]
           /\ next.id = calls + 1
           /\ UNCHANGED pending \/ pending' = Append(pending, Event(calls + 1))
           /\ UNCHANGED <<scenario, left>>
  BY Beginning
<1>3. /\ Running' = Running \union {t} /\ \A u \in Thread \ {t} : call'[u] = call[u]
      /\ UNCHANGED <<content, shown>>
      /\ At' = At /\ row' = row
  BY <1>2, CallBegun, BegunWell, SameScene
<1>4. \A u \in Running : u # t /\ call'[u] = call[u]
  BY <1>2, <1>3 DEF Running
<1>5. PICK v, b : Foretold(v, pending, content, b) /\ Pictures(b)
  BY DEF ViewInv
<1>6. /\ DOMAIN b = AllPlaces
      /\ \A o \in Object : /\ At[o] \subseteq DOMAIN b /\ o \notin Temporary
                           /\ \A p \in At[o] : p[1] = o
      /\ \A u \in Running : Shaped(call[u], AllPlaces)
  BY <1>5, PlacesKnown
<1>7. \E w : /\ \E x : Foretold(x, pending', content', w)
             /\ Pictures(w) /\ DOMAIN w = AllPlaces
  <2>1. CASE UNCHANGED pending
    BY <1>3, <1>5, <1>6, <2>1
  <2>2. CASE pending' = Append(pending, Event(calls + 1))
    <3>1. PICK w : w = Effect(b, Event(calls + 1))
      OBVIOUS
    <3>2. calls + 1 \in Nat /\ pending \in Seq(Entry)
      BY DEF CallTypes
    <3>3. Event(calls + 1) \in Entry
      BY <3>2, EntryTypes
    <3>4. \E x : Foretold(x, pending', content', w)
      BY <1>3, <1>5, <2>2, <3>1, <3>2, <3>3, ForetoldMore
    <3>5. Changes(b, w, {})
      BY <3>1, EventChanges
    <3>6. \A u \in Running : call[u].dst \in Object
      BY <1>6 DEF Shaped
    <3>7. Pictures(w)
      BY <1>5, <1>6, <3>5, <3>6, PicturesSame
    <3> QED BY <1>6, <3>4, <3>5, <3>7 DEF Changes
  <2> QED BY <1>2, <2>1, <2>2
<1>8. PICK w : /\ \E x : Foretold(x, pending', content', w)
               /\ Pictures(w) /\ DOMAIN w = AllPlaces
  BY <1>7
<1>9. /\ c.src \in Object /\ c.dst \in Object
      /\ WellMade(c.work, c.src, c.dst, Names(c), Packed(row, c))
  BY <1>1 DEF Begun
<1>10. c.dst \notin Written
  BY <1>1 DEF Begun, Exclusive, Written
<1>11. Underway(w, c, row, At, shown)
  <2>1. shown[c.dst] # Unknown => Holds(w, At[c.dst], shown[c.dst])
    BY <1>8, <1>9, <1>10 DEF Pictures, Resting
  <2>2. ASSUME Concludes(c.work) = {}, ~Packed(row, c), NEW pic PROVE Carries(w, c, At, pic)
    <3>1. PICK ready :
            /\ At[c.dst] \subseteq ready /\ ready \subseteq Of(Names(c), AllPlaces)
            /\ Orderly(c.work, At[c.src], ready, At) /\ \A p \in ready : Covered(c.work, 0, p)
      BY <1>9, <2>2 DEF WellMade, Promising
    <3>2. Filled(w, c.work, ready, pic)
      BY <3>1 DEF Filled
    <3> QED BY <1>8, <3>1, <3>2 DEF Carries
  <2> QED BY <2>1, <2>2 DEF Underway
<1>12. Pictures(w)'
  <2>1. Written' = Written \union {c.dst}
    BY <1>1, <1>3, <1>4 DEF Written
  <2>2. Resting(w, Written', At, shown)
    BY <1>8, <2>1 DEF Pictures, Resting
  <2>3. \A u \in Running' : Underway(w, call'[u], row, At, shown)
    BY <1>1, <1>3, <1>4, <1>8, <1>11 DEF Pictures
  <2> QED BY <1>3, <2>2, <2>3 DEF Pictures
<1> QED BY <1>8, <1>12 DEF ViewInv

\* A call that succeeded has filled its destination; one that refused left it.
LEMMA ViewReturn ==
  ASSUME CallTypes, PlanInv, ViewInv, NEW t \in Thread, Return(t)
  PROVE  ViewInv'
<1> DEFINE c == call[t]
<1>1. /\ t \in Running /\ call[t].work = <<>>
      /\ Running' = Running \ {t} /\ \A u \in Thread \ {t} : call'[u] = call[u]
      /\ UNCHANGED <<pending, scenario>>
  BY CallReturned
<1>2. UNCHANGED content
  BY DEF Return, streamVars
<1>3. At' = At /\ row' = row
  BY <1>1, SameScene
<1>4. PICK v, b : Foretold(v, pending, content, b) /\ Pictures(b)
  BY DEF ViewInv
<1>5. Shaped(call[t], AllPlaces) /\ Underway(b, call[t], row, At, shown) /\ DOMAIN shown = Object
  BY <1>1, <1>4 DEF PlanInv, Pictures
<1>6. c.src \in Object /\ c.dst \in Object /\ c.src # c.dst
  BY <1>5 DEF Shaped
<1>7. WritesPacked(t) <=> Packed(row, c)
  BY DEF WritesPacked, Packed
<1>8. shown' = [shown EXCEPT ![c.dst] = IF WritesPacked(t) THEN Unknown
                                        ELSE CASE c.info = "SUCCESS" -> shown[c.src]
                                               [] Refused(c.info) -> @
                                               [] OTHER -> Unknown]
  BY DEF Return
<1>9. /\ \A o \in Object : o # c.dst => shown'[o] = shown[o]
      /\ shown'[c.dst] = IF WritesPacked(t) THEN Unknown
                         ELSE CASE c.info = "SUCCESS" -> shown[c.src]
                                [] Refused(c.info) -> shown[c.dst]
                                [] OTHER -> Unknown
  BY <1>5, <1>6, <1>8
<1>10. ~Refused("SUCCESS")
  BY DEF Refused
<1>11. shown'[c.dst] # Unknown => Holds(b, At[c.dst], shown'[c.dst])
  <2> SUFFICES ASSUME shown'[c.dst] # Unknown PROVE Holds(b, At[c.dst], shown'[c.dst])
    OBVIOUS
  <2>1. CASE c.info = "SUCCESS"
    <3>1. shown'[c.dst] = shown[c.src] /\ ~Packed(row, c)
      BY <1>7, <1>9, <1>10, <2>1
    <3>2. Concludes(c.work) = {}
      BY <1>1 DEF Concludes
    <3>3. Carries(b, c, At, shown[c.src])
      BY <1>5, <2>1, <3>1, <3>2 DEF Underway
    <3> QED BY <1>1, <3>1, <3>3, CarriedOut
  <2>2. CASE c.info # "SUCCESS"
    <3>1. Refused(c.info) /\ shown'[c.dst] = shown[c.dst]
      BY <1>9, <2>2
    <3> QED BY <1>5, <3>1 DEF Underway, Untouched
  <2> QED BY <2>1, <2>2
<1>12. \A u \in Running' : u \in Running /\ u # t /\ call'[u] = call[u]
  BY <1>1 DEF Running
<1>13. ASSUME NEW o \in Object \ Written', shown'[o] # Unknown PROVE Holds(b, At[o], shown'[o])
  <2>1. CASE o = c.dst
    BY <1>11, <1>13, <2>1
  <2>2. CASE o # c.dst
    <3>1. o \notin Written
      <4>1. \A u \in Running \ {t} : call[u].dst # o
        BY <1>1, <1>12, <1>13 DEF Written
      <4> QED BY <2>2, <4>1 DEF Written
    <3>2. shown'[o] = shown[o]
      BY <1>9, <2>2
    <3> QED BY <1>4, <1>13, <3>1, <3>2 DEF Pictures, Resting
  <2> QED BY <2>1, <2>2
<1>14. ASSUME NEW u \in Running' PROVE Underway(b, call'[u], row, At, shown')
  <2>1. u \in Running /\ u # t /\ call'[u] = call[u]
    BY <1>12
  <2>2. c.dst # call[u].dst /\ c.dst # call[u].src /\ call[u].dst \in Object /\ call[u].src \in Object
    BY <1>1, <2>1 DEF PlanInv, Separate, Shaped
  <2>3. shown'[call[u].dst] = shown[call[u].dst] /\ shown'[call[u].src] = shown[call[u].src]
    BY <1>9, <2>2
  <2>4. Underway(b, call[u], row, At, shown)
    BY <1>4, <2>1 DEF Pictures
  <2> QED BY <2>1, <2>3, <2>4 DEF Underway
<1>15. Pictures(b)'
  <2>1. Resting(b, Written', At, shown')
    BY <1>13 DEF Resting
  <2> QED BY <1>3, <1>14, <2>1 DEF Pictures
<1> QED BY <1>1, <1>2, <1>4, <1>15 DEF ViewInv

LEMMA ViewStep ==
  ASSUME CallTypes, CallsNumbered, PlanInv, ViewInv, [Next]_vars
  PROVE  ViewInv'
<1>1. CASE UNCHANGED vars
  <2>1. UNCHANGED <<scenario, call, shown, pending, content>>
    BY <1>1 DEF vars, streamVars
  <2>2. Running' = Running /\ At' = At /\ row' = row
    BY <2>1, SameScene DEF Running
  <2> QED BY <2>1, <2>2 DEF ViewInv, Pictures, Written
<1>2. ASSUME NEW t \in Thread, CallStep(t) PROVE ViewInv'
  BY <1>2, ViewLaunch, ViewMake, ViewRecord, ViewWait, ViewStops, ViewReturn DEF CallStep
<1> QED BY <1>1, <1>2, ViewPerform, ViewBegins DEF Next

LEMMA ViewInit == Init => ViewInv
<1> SUFFICES ASSUME Init PROVE ViewInv
  OBVIOUS
<1>1. pending = <<>> /\ scenario \in Scenario /\ shown = [o \in Object |-> o]
      /\ content = [p \in UNION {Places(o) : o \in Object \union Temporary} |->
                      IF p[1] \in Object THEN p[1] ELSE Garbled]
  BY DEF Init
<1>2. \E v : Foretold(v, pending, content, content)
  BY <1>1, ForetoldEmpty
<1>3. Running = {}
  BY DEF Init, Running
<1>4. ASSUME NEW o \in Object PROVE Holds(content, At[o], o)
  <2>1. At[o] = Places(o) /\ \A p \in At[o] : p[1] = o
    BY <1>1, WhereThings
  <2>2. \A p \in At[o] : content[p] = o
    BY <1>1, <2>1
  <2> QED BY <2>2 DEF Holds, Good
<1>5. Resting(content, Written, At, shown)
  BY <1>1, <1>4 DEF Resting
<1>6. Pictures(content)
  BY <1>3, <1>5 DEF Pictures
<1> QED BY <1>2, <1>6 DEF ViewInv

-----------------------------------------------------------------------------
\* An object that holds a picture shows it.
LEMMA HeldIsShown ==
  ASSUME CallTypes, NEW o \in Object, NEW pic, Holds(content, At[o], pic)
  PROVE  PictureIn(Places(o)) = pic
<1>1. At[o] = Places(o) /\ <<o, 0>> \in At[o]
  BY WhereThings DEF CallTypes
<1>2. HasFirst(At[o])
  <2>1. <<o, 0>>[2] = 0
    OBVIOUS
  <2> QED BY <1>1, <2>1 DEF HasFirst
<1>3. PictureOf(content, At[o]) = pic
  BY <1>2, PictureHeld
<1>4. PictureIn(Places(o)) = PictureOf(content, Places(o))
  BY DEF PictureIn, PictureOf
<1> QED BY <1>1, <1>3, <1>4

LEMMA HostArraysHold ==
  ASSUME CallTypes, PlanInv, ViewInv
  PROVE  HostArraysCurrent
<1> SUFFICES ASSUME NEW a \in HostArray, shown[a] # Unknown, \A t \in Running : a # call[t].dst
             PROVE  PictureIn(Places(a)) = shown[a]
  BY DEF HostArraysCurrent
<1>1. PICK v, b : Foretold(v, pending, content, b) /\ Pictures(b)
  BY DEF ViewInv
<1>2. a \in Object \ Written
  BY DEF Written, Object
<1>3. Holds(b, At[a], shown[a])
  BY <1>1, <1>2 DEF Pictures, Resting
<1>4. At[a] \subseteq AllPlaces /\ \A p \in At[a] : p[1] = a
  BY <1>2, WhereThings DEF CallTypes
<1>5. ASSUME NEW p \in At[a] PROVE b[p] = content[p]
  <2>1. \A i \in DOMAIN pending : p \notin pending[i].writes
    BY <1>4 DEF PlanInv, HostWritten
  <2>2. Len(pending) \in Nat /\ DOMAIN pending = 1 .. Len(pending)
    BY LenProperties DEF CallTypes
  <2>3. 0 \in 0 .. Len(pending) /\ \A j \in 0 + 1 .. Len(pending) : p \notin pending[j].writes
    BY <2>1, <2>2
  <2>4. p \in DOMAIN content
    BY <1>4 DEF PlanInv
  <2> QED BY <1>1, <2>3, <2>4 DEF Foretold
<1>6. Holds(content, At[a], shown[a])
  BY <1>3, <1>5 DEF Holds, Good
<1> QED BY <1>2, <1>6, HeldIsShown

LEMMA AllAsIfAtOnce ==
  ASSUME CallTypes, PlanInv, ViewInv
  PROVE  AsIfAtOnce
<1> SUFFICES ASSUME pending = <<>>, Running = {}, NEW s \in Surface, shown[s] # Unknown
             PROVE  PictureIn(Places(s)) = shown[s]
  BY DEF AsIfAtOnce
<1>1. PICK v, b : Foretold(v, pending, content, b) /\ Pictures(b)
  BY DEF ViewInv
<1>2. b = content
  BY <1>1 DEF Foretold
<1>3. s \in Object \ Written
  BY DEF Written, Object
<1>4. Holds(content, At[s], shown[s])
  BY <1>1, <1>2, <1>3 DEF Pictures, Resting
<1> QED BY <1>3, <1>4, HeldIsShown

\* At any moment, performing what is in the queue and then what the calls in
\* progress still have to do leads to the pictures that the calls promise.
THEOREM PicturesForetold == Spec => [](PlanInv /\ ViewInv)
<1>1. Init => PlanInv /\ ViewInv
  BY PlanInit, ViewInit
<1>2. TasksInv /\ (PlanInv /\ ViewInv) /\ [Next]_vars => (PlanInv /\ ViewInv)'
  BY PlanStep, ViewStep DEF TasksInv
<1>3. Spec => []TasksInv
  BY TasksInvariant
<1> QED BY <1>1, <1>2, <1>3, PTL DEF Spec

\* A host array that no call writes shows what the calls on it say, though work
\* of other calls may be pending: PySurfaceDownloader::Run returned after the GPU
\* had filled the array.
THEOREM HostArraysAreCurrent == Spec => []HostArraysCurrent
<1>1. TasksInv /\ PlanInv /\ ViewInv => HostArraysCurrent
  BY HostArraysHold DEF TasksInv
<1> QED BY <1>1, TasksInvariant, PicturesForetold, PTL

\* Once the stream is empty and no call is in progress, each surface shows what it
\* would if every call had been performed at once when it returned, in whatever
\* order the threads enqueued their work: the temporary surfaces of the resizer
\* and of the converter, which all their calls share, do not mix pictures.
THEOREM CallsAreAsIfAtOnce == Spec => []AsIfAtOnce
<1>1. TasksInv /\ PlanInv /\ ViewInv => AsIfAtOnce
  BY AllAsIfAtOnce DEF TasksInv
<1> QED BY <1>1, TasksInvariant, PicturesForetold, PTL
=============================================================================
