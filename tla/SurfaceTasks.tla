---------------------------- MODULE SurfaceTasks ----------------------------
(***************************************************************************)
(* The tasks that move pictures on the GPU, and the Python classes around  *)
(* them: PyFrameUploader, PySurfaceConverter, PySurfaceResizer and         *)
(* PySurfaceDownloader, one object of each, called from several threads.   *)
(* They release the interpreter lock and share one stream.  A task only    *)
(* enqueues; who waits for the GPU, and when, differs from task to task.   *)
(***************************************************************************)
EXTENDS CudaStream, ConvertSurface

CONSTANTS
  Thread, Surface, HostArray,
  Scenario,     \* what a behaviour works with: the conversion, the colors asked
                \* for, the format of the resizer, the kinds of the objects, and
                \* the number of calls, which bounds the model
  MaxFailures   \* library calls that fail

ASSUME SurfaceTasksAssumption ==
  /\ MaxFailures \in Nat
  /\ Surface \intersect HostArray = {}
  /\ \A s \in Scenario :
       /\ s.row \in Conversions
       /\ s.kind \in [Surface \union HostArray -> [format : SurfaceFormat, size : Nat \ {0}]]
       /\ s.resizes \in SurfaceFormat
       /\ s.colors \subseteq AnyColors
       /\ s.maxCalls \in Nat

VARIABLES
  scenario,   \* chosen once
  temp,       \* sizes of the temporary surfaces, or NoSize
  call,       \* the call each thread is in, or NoCall
  calls,      \* calls made
  left,       \* history: calls that returned without waiting for their work
  failures,   \* library calls that failed
  shown       \* history: the picture each object should show, or Unknown

vars == <<streamVars, scenario, temp, call, calls, left, failures, shown>>

Object == Surface \union HostArray
Unknown == "unknown"
NoSize == 0

\* m_src_yuv420 and m_dst_yuv420 of the resizer, pScratch of the converter.
Temporary == {"src_yuv420", "dst_yuv420", "scratch"}

\* What clients call their objects is none of those.
ASSUME NamesAssumption == Object \intersect Temporary = {}

row == scenario.row
kind == scenario.kind
resizes == scenario.resizes
maxCalls == scenario.maxCalls

\* A host array has one part for each plane of the surface it is made for.
Parts(o) ==
  CASE o \in Surface -> Components(kind[o].format)
    [] o \in HostArray -> 0 .. NumPlanes(kind[o].format) - 1
    [] o \in {"src_yuv420", "dst_yuv420"} -> Components("YUV420")
    [] o = "scratch" -> {0}

Places(o) == {o} \X Parts(o)

------------------------------------------------------------------------------
(* The steps of a call between which other threads and the GPU may act.     *)

Launch(reads, writes) == [do |-> "launch", reads |-> reads, writes |-> writes]
Make(t, size) == [do |-> "make", temp |-> t, size |-> size]
Conclude(info) == [do |-> "conclude", info |-> info]
RecordEvent == [do |-> "record"]
WaitForEvent == [do |-> "wait"]

\* A mutant: nothing is waited for.
BugNoSync == <<>>
\* cuStreamSynchronize, or an event recorded and waited for.
Synchronize == <<RecordEvent, WaitForEvent>>

HostMemSize(o) == HostBytes(kind[o].format) * kind[o].size

\* CudaUploadFrame::Run and CudaDownloadSurface::Run: plane by plane.
PlanePlaces(s, plane) == {s} \X ComponentsOfPlane(kind[s].format, plane)

Upload(array, s) ==
  IF HostMemSize(array) # HostMemSize(s)
  THEN <<Conclude("SRC_DST_SIZE_MISMATCH")>>
  ELSE [i \in 1 .. NumPlanes(kind[s].format) |->
          Launch({<<array, i - 1>>}, PlanePlaces(s, i - 1))]

Download(s, array) ==
  IF HostMemSize(array) # HostMemSize(s)
  THEN <<Conclude("SRC_DST_SIZE_MISMATCH")>>
  ELSE [i \in 1 .. NumPlanes(kind[s].format) |->
          Launch(PlanePlaces(s, i - 1), {<<array, i - 1>>})]

\* A mutant: the temporary surface is made once and kept.
BugMadeOnce(t, size) == temp[t] = NoSize
NeedsMake(t, size) == temp[t] # size
MakeIfNeeded(t, size) == IF NeedsMake(t, size) THEN <<Make(t, size)>> ELSE <<>>
SizeThen(t, size) == IF NeedsMake(t, size) THEN size ELSE temp[t]

\* ConvertSurface::Run.  P10 and P12 go through the scratch plane.
Convert(s, d, cc) ==
  LET answer == Answer(row, kind[s], kind[d], cc)
      nppCalls == [i \in DOMAIN NppCalls(row, cc) |->
                     Launch({s} \X NppCalls(row, cc)[i].reads, {d} \X NppCalls(row, cc)[i].writes)]
  IN IF answer # "NONE" THEN <<Conclude(answer)>>
     ELSE CASE row.src \in {"P10", "P12"} ->
                 MakeIfNeeded("scratch", kind[s].size)
                   \o <<Launch(Places(s), Places("scratch")), Launch(Places("scratch"), Places(d))>>
            [] row = nv12_y -> nppCalls \o Synchronize
            [] cc \in row.noReturn -> nppCalls \o <<Conclude("UNDEFINED")>>
            [] OTHER -> nppCalls

\* ResizeSurface::Run.  NV12 is resized as YUV420, in temporary surfaces.
Resizable == {"RGB", "BGR", "YUV420", "YUV444", "RGB_PLANAR", "RGB_32F", "RGB_32F_PLANAR", "NV12"}

ResizeSemiPlanar(s, d) ==
  LET fits(t, o) == SizeThen(t, kind[o].size) = kind[o].size /\ kind[o].format = "NV12"
      plane(i) == Launch({<<"src_yuv420", i>>}, {<<"dst_yuv420", i>>})
  IN MakeIfNeeded("src_yuv420", kind[s].size)
       \o MakeIfNeeded("dst_yuv420", kind[d].size)
       \o (IF fits("src_yuv420", s) THEN <<Launch(Places(s), Places("src_yuv420"))>>
           ELSE <<Conclude("FAIL")>>)
       \o <<plane(0), plane(1), plane(2)>>
       \o (IF fits("dst_yuv420", d) THEN <<Launch(Places("dst_yuv420"), Places(d))>>
           ELSE <<Conclude("FAIL")>>)

Resize(s, d) ==
  CASE kind[s].format = "NV12" -> ResizeSemiPlanar(s, d)
    [] kind[s].format \notin {"NV12", kind[d].format} -> <<Conclude("INVALID_INPUT")>>
    [] OTHER -> [i \in 1 .. NumPlanes(kind[d].format) |->
                   Launch(PlanePlaces(s, i - 1), PlanePlaces(d, i - 1))]

------------------------------------------------------------------------------
(* Calls.  Execute runs the task and then synchronizes the stream if the    *)
(* task was made so; the Python Run waits for an event instead; RunAsync    *)
(* gives the event to its client, if the client wants one.                  *)

NoCall == [id |-> 0, task |-> "none", src |-> "none", dst |-> "none", mode |-> "blocking",
           cc |-> row.default, work |-> <<>>, closing |-> <<>>, info |-> "SUCCESS", libraryFailed |-> FALSE]

Init ==
  /\ scenario \in Scenario
  /\ temp = [t \in Temporary |-> NoSize]
  /\ pending = <<>>
  /\ content = [p \in UNION {Places(o) : o \in Object \union Temporary} |->
                  IF p[1] \in Object THEN p[1] ELSE Garbled]
  /\ call = [t \in Thread |-> NoCall]
  /\ calls = 0
  /\ left = {}
  /\ failures = 0
  /\ shown = [o \in Object |-> o]

Running == {t \in Thread : call[t] # NoCall}

\* What clients keep to: a task object is used by one thread at a time, and
\* nothing is written that another call in progress uses.
Exclusive(task, s, d) ==
  \A t \in Running :
    /\ call[t].task # task
    /\ d \notin {call[t].src, call[t].dst}
    /\ s # call[t].dst

Begin(t, task, s, d, cc, mode, early, work, closing) ==
  /\ t \notin Running
  /\ calls < maxCalls
  /\ Exclusive(task, s, d)
  /\ calls' = calls + 1
  /\ call' = [call EXCEPT ![t] =
                [id |-> calls', task |-> task, src |-> s, dst |-> d, mode |-> mode, cc |-> cc,
                 work |-> work, closing |-> closing, info |-> "SUCCESS",
                 libraryFailed |-> FALSE]]
  /\ IF early THEN Enqueue(Event(calls')) ELSE UNCHANGED pending
  /\ UNCHANGED <<content, scenario, temp, left, failures, shown>>

\* PyFrameUploader::Run, PySurfaceDownloader::Run.
BeginUpload(t, array, s) ==
  /\ kind[array] = kind[s] \/ HostMemSize(array) # HostMemSize(s)
  /\ Begin(t, "uploader", array, s, row.default, "blocking", FALSE, Upload(array, s), Synchronize)

BeginDownload(t, s, array) ==
  /\ kind[array] = kind[s] \/ HostMemSize(array) # HostMemSize(s)
  /\ Begin(t, "downloader", s, array, row.default, "blocking", FALSE, Download(s, array), Synchronize)

\* A mutant: Run makes its event and does not wait for it.
BugNoWait(mode) == IF mode = "no event" THEN <<>> ELSE <<RecordEvent>>
\* How the work and the event of a Run or RunAsync are ordered.
Closing(mode) ==
  CASE mode = "blocking" -> Synchronize
    [] mode = "event" -> <<RecordEvent>>
    [] mode = "no event" -> <<>>

Mode == {"blocking", "event", "no event"}

\* A mutant: the event is made before the work, as the converter may.
BugEventFirst(t, s, d, mode) ==
  /\ kind[s].format = resizes
  /\ resizes \in Resizable
  /\ Begin(t, "resizer", s, d, row.default, mode, mode = "event", Resize(s, d),
           IF mode = "blocking" THEN Synchronize ELSE <<>>)

\* PySurfaceResizer: the event is recorded after the work.
BeginResize(t, s, d, mode) ==
  /\ kind[s].format = resizes
  /\ resizes \in Resizable
  /\ Begin(t, "resizer", s, d, row.default, mode, FALSE, Resize(s, d), Closing(mode))

\* PySurfaceConverter: RunAsync makes the event in an argument of the call
\* that has the work as another argument, and C++ does not say which of them
\* is evaluated first.  Converters that do not validate are called with
\* surfaces of their formats.
BeginConvert(t, s, d, cc, mode, early) ==
  /\ early => mode = "event"
  /\ row.validate = "ignored" => Validate(row, kind[s], kind[d])
  /\ Begin(t, "converter", s, d, cc, mode, early, Convert(s, d, cc),
           IF early THEN <<>> ELSE Closing(mode))

InWork(t) == call[t].work # <<>>
Steps(t) == call[t].work \o call[t].closing
AtStep(t, do) == Steps(t) # <<>> /\ Head(Steps(t)).do = do

StepDone(t) ==
  call' = [call EXCEPT ![t].work = IF InWork(t) THEN Tail(@) ELSE @,
                       ![t].closing = IF InWork(t) THEN @ ELSE Tail(@)]

\* The rest of the work is skipped, what closes the call is not, except by an
\* exception.
WorkEnds(t, info, libraryFailed) ==
  call' = [call EXCEPT ![t].work = <<>>, ![t].info = info, ![t].libraryFailed = libraryFailed,
                       ![t].closing = IF info = "EXCEPTION" THEN <<>> ELSE @]

Fails == failures < MaxFailures /\ failures' = failures + 1

LaunchSucceeds(t) ==
  /\ AtStep(t, "launch")
  /\ Enqueue(Work(call[t].id, Head(Steps(t)).reads, Head(Steps(t)).writes))
  /\ StepDone(t)
  /\ UNCHANGED <<content, scenario, temp, calls, left, failures, shown>>

\* An NPP or CUDA call returns an error, or the synchronization of nv12_y does.
FailureInfo(t) ==
  IF call[t].task = "converter" /\ call[t].cc \in row.noReturn THEN "UNDEFINED" ELSE "FAIL"

TaskFails(t) ==
  /\ AtStep(t, "launch") \/ (AtStep(t, "wait") /\ InWork(t))
  /\ Fails
  /\ WorkEnds(t, FailureInfo(t), TRUE)
  /\ UNCHANGED <<streamVars, scenario, temp, calls, left, shown>>

\* A new temporary surface holds nothing.  The one it replaces is freed, for
\* which cuMemFree waits until no work uses it.
MakeSucceeds(t) ==
  LET made == Head(Steps(t))
  IN /\ AtStep(t, "make")
     /\ ~Touched(Places(made.temp))
     /\ temp' = [temp EXCEPT ![made.temp] = made.size]
     /\ content' = [p \in DOMAIN content |->
                      IF p \in Places(made.temp) THEN Garbled ELSE content[p]]
     /\ StepDone(t)
     /\ UNCHANGED <<pending, scenario, calls, left, failures, shown>>

\* There is no memory for a temporary surface, or no event.
StepThrows(t) ==
  /\ \/ AtStep(t, "make")
     \/ AtStep(t, "record") /\ ~InWork(t) /\ call[t].task \in {"converter", "resizer"}
  /\ Fails
  /\ WorkEnds(t, "EXCEPTION", TRUE)
  /\ UNCHANGED <<streamVars, scenario, temp, calls, left, shown>>

ConcludeWork(t) ==
  /\ AtStep(t, "conclude")
  /\ WorkEnds(t, Head(Steps(t)).info, FALSE)
  /\ UNCHANGED <<streamVars, scenario, temp, calls, left, failures, shown>>

Record(t) ==
  /\ AtStep(t, "record")
  /\ Enqueue(Event(call[t].id))
  /\ StepDone(t)
  /\ UNCHANGED <<content, scenario, temp, calls, left, failures, shown>>

Wait(t) ==
  /\ AtStep(t, "wait")
  /\ ~IsPending(Event(call[t].id))
  /\ StepDone(t)
  /\ UNCHANGED <<streamVars, scenario, temp, calls, left, failures, shown>>

\* Answers given before anything is enqueued.
Refused(info) == info \in {"INVALID_INPUT", "UNSUPPORTED_FMT_CONV_PARAMS", "SRC_DST_SIZE_MISMATCH"}

\* For the MPEG range rgb_yuv444 hands its three planes to a call that writes
\* packed pixels to the first.
WritesPacked(t) == call[t].task = "converter" /\ row = rgb_yuv444 /\ call[t].cc[2] = "MPEG"

Returning(t) == t \in Running /\ Steps(t) = <<>>

Return(t) ==
  LET c == call[t]
      waited == c.mode = "blocking" /\ c.info # "EXCEPTION"
      hasEvent == c.mode = "event" /\ c.info # "EXCEPTION"
  IN /\ Returning(t)
     /\ call' = [call EXCEPT ![t] = NoCall]
     /\ shown' = [shown EXCEPT ![c.dst] = IF WritesPacked(t) THEN Unknown
                                          ELSE CASE c.info = "SUCCESS" -> shown[c.src]
                                                 [] Refused(c.info) -> @
                                                 [] OTHER -> Unknown]
     /\ left' = left \union
                  (IF waited THEN {}
                   ELSE {[id |-> c.id, task |-> c.task, event |-> hasEvent]})
     /\ UNCHANGED <<streamVars, scenario, temp, calls, failures>>

GpuPerforms == Perform /\ UNCHANGED <<scenario, temp, call, calls, left, failures, shown>>

BeginAny(t) ==
  \/ \E array \in HostArray, s \in Surface : BeginUpload(t, array, s) \/ BeginDownload(t, s, array)
  \/ \E s, d \in Surface, mode \in Mode :
       /\ s # d
       /\ \/ BeginResize(t, s, d, mode)
          \/ \E cc \in scenario.colors, early \in BOOLEAN : BeginConvert(t, s, d, cc, mode, early)

CallStep(t) ==
  \/ LaunchSucceeds(t)
  \/ TaskFails(t)
  \/ MakeSucceeds(t)
  \/ StepThrows(t)
  \/ ConcludeWork(t)
  \/ Record(t)
  \/ Wait(t)
  \/ Return(t)

Next == GpuPerforms \/ \E t \in Thread : BeginAny(t) \/ CallStep(t)

Spec == Init /\ [][Next]_vars

------------------------------------------------------------------------------
(* Properties.                                                              *)

\* Whether it succeeded, failed half way or refused, a blocking call that
\* returned has nothing left on the GPU: whatever is pending is of a call in
\* progress or of one that did not promise to wait.
BlockingCallsLeaveNothing ==
  \A i \in DOMAIN pending :
    pending[i].call \in {call[t].id : t \in Running} \union {c.id : c \in left}

\* A host array that no call writes holds what the calls on it say: a download
\* has reached it before the client may look.
HostArraysCurrent ==
  \A a \in HostArray :
    (shown[a] # Unknown /\ \A t \in Running : a # call[t].dst)
      => PictureIn(Places(a)) = shown[a]

\* When everything is done, every surface shows what it would if each call had
\* been performed at once when it returned: threads that share the stream, and
\* the temporary surfaces of one object, do not mix pictures.
AsIfAtOnce ==
  pending = <<>> /\ Running = {} =>
    \A s \in Surface : shown[s] # Unknown => PictureIn(Places(s)) = shown[s]

\* Objects of the formats and sizes the task is for, colors left to VALI.
ValidRun(t) ==
  LET s == kind[call[t].src]
      d == kind[call[t].dst]
  IN CASE call[t].task = "converter" -> Validate(row, s, d) /\ call[t].cc = row.default
       [] call[t].task = "resizer" -> s.format = d.format
       [] OTHER -> s = d

\* If no library call failed, a call on objects that fit its task succeeds; so
\* do a second one after surfaces of another size, and one after a failure.
\* Two conversions never do with the colors VALI picks: NV12 to BGR leaves its
\* switch, and RGB_PLANAR to YUV444 asks one plane for three components.
Succeeds(t) ==
  Returning(t) /\ ~call[t].libraryFailed /\ ValidRun(t) => call[t].info = "SUCCESS"

ValidRunsSucceed ==
  \A t \in Thread :
    ~(call[t].task = "converter" /\ row \in {nv12_bgr, rgb_planar_yuv444}) => Succeeds(t)

\* Once the event of a RunAsync of the resizer is reached, the work of that call
\* is done: the client may read the surface after Wait.
EventCovers(c) ==
  c.event /\ ~IsPending(Event(c.id)) => \A i \in DOMAIN pending : pending[i].call # c.id

ResizerEventsCover == \A c \in left : c.task = "resizer" => EventCovers(c)

\* The same of the resizer and the converter: what the documentation of
\* CudaStreamEvent and the tests of RunAsync rely on.
EventsCover == \A c \in left : EventCovers(c)
=============================================================================
