# Verification of VALI

VALI decodes, converts and encodes video on NVIDIA GPUs: a C++ library of tasks
(`src/TC`) under Python bindings (`src/python_vali`). This directory holds TLA+
models of the parts of it that keep state across calls, the TLC runs that
model-check them, and TLAPS proofs of their most important invariants. Paths
below are relative to the repository's `src/`.

## The system

| Component | State it keeps | Operations | What is hard about it |
|---|---|---|---|
| `NvEncoder` ring (`TC/src/TaskNvencEncodeFrame.cpp`) | `m_iToSend`, `m_iGot`, mapped inputs, one bitstream per slot | submit, retrieve, flush, reconfigure, destroy | slots are reused modulo the ring; NVENC holds pictures back (B pictures, lookahead); any call may throw in the middle of a loop |
| Encoding task `NvencEncodeFrame` (same file) | `packetQueue`, `didEncode`, `didFlush` | `Run` with a surface (sync, async) or without (flush), `Reconfigure` | one call retrieves many packets but outputs one; exceptions are swallowed |
| `PyNvEncoder` | the encoder, made lazily; `encWidth`, `encHeight`, format | encode, flush one packet, flush, reconfigure, capabilities | who creates the encoder first decides its format; the flush loop |
| Decoding task `DecodeFrame`, `FfmpegDecodeFrame_Impl` (`TC/src/TaskDecodeFrame.cpp`) | `m_pkt`, `m_frame`, the flags `m_flush`, `m_resend`, `m_eof`, `m_end_decode`, `m_res_change`, side data | decode, seek | a packet the codec refuses is resent after draining; a change of resolution keeps a frame for the next call; a seek decodes up to a timestamp |
| `PyDecoder` | the task, the destination token | decode to host or surface, seek, getters | sizes the token before each call |
| `SurfacePlane` (`TC/src/SurfacePlane.cpp`) | owned pointer, weak pointer to borrowed memory, or raw DLPack pointer | constructors, copy, move, assignment, export | who frees the GPU memory |
| `Surface` and its formats (`TC/src/Surfaces.cpp`, `MemoryInterfaces.cpp`, `PySurface.cpp`) | a vector of planes | make, clone, update, delete, handles to planes, import | owners in a growing vector; updating a surface from handles to itself |
| `CudaResMgr` (`TC/src/CudaUtils.cpp`) | a context and a stream per GPU, two mutexes | `GetCtx`, `GetStream` | called from any thread; nested locks; failing CUDA calls |
| Task core (`TC/TC_CORE`) | slots for inputs and outputs | set, get, execute | only if two threads share a task |
| Surface tasks: convert, resize, upload, download (`TC/src/TaskConvertSurface.cpp`, `TaskResizeSurface.cpp`, `TaskCuda*.cpp` and their `Py*` classes) | temporary surfaces in the resizer and the P10 converter; a stream shared by all | `Run`, `RunAsync` | tasks only enqueue, and differ in who waits for the GPU; caches used by work that is still pending; early returns between planes; what each conversion accepts |
| JPEG encoder `NvJpegEncodeFrame`, `NvJpegEncodeContext`, `PyNvJpegEncoder` (`TC/src/TaskNvJpegEncode.cpp`) | nvJPEG's handle, a state and parameters per context, the context used last | make encoders and contexts, compress a list, drop either | contexts outlive encoders and work with other ones; constructors that throw; errors in the middle of a list |
| Options `NvEncoderClInterface` (`TC/src/NvCodecCliOptions.cpp`) | the dictionary; in the task `init_params` and `encodeConfig` | parse at creation, again at each `Reconfigure` | defaults, presets and names written over each other; what a refused or throwing call leaves behind |
| `TimeoutHandler` (`TC/src/Utils.cpp`) | the time of the last reset | reset, check | called by libavformat while it blocks; time before the call must not count |
| `BufferedReader` | an AVIO context, a Python object | read, seek | callbacks out of libavformat |
| Library loaders, bindings, other options | none that changes | symbol lookup, parsing | pure input and output |

**Interaction.** Python calls a `Py*` class, which fills the input slots of a task
and executes it; most bindings release the interpreter lock first, so two Python
threads may be inside the library at once. Tasks share only `CudaResMgr`. A
task's outputs are pointers to tokens that the task or its caller owns; surfaces
travel between Python objects as planes that own or borrow memory. libavformat,
libavcodec, NVENC and the CUDA driver are external and modelled by the contract
the code relies on.

## Modules

| Module | Models | Abstraction |
|---|---|---|
| `NvEncoder` | the ring with the NVENC calls around it | a picture is its number; NVENC may hold back as many pictures as the B pictures and the lookahead asked for need (`HeldBack`), until later ones or the end of the stream release them; `earlyLocks` (history) tells which calls locked one held back; each failing call takes one from a budget |
| `NvencEncodeFrame` | the task over the ring (EXTENDS `NvEncoder`) | packets are picture numbers; sizes are `small`, `large` |
| `PacketFifo` | the promise of the task: packets in order, bounded lag | abstract specification, implemented by `NvencEncodeFrame` through the mapping in `MCPyNvEncoder` |
| `PyNvEncoder` | the Python class over the task (EXTENDS `NvencEncodeFrame`); making the encoder may throw in whichever call needs it | options are a size and a format; of the caller's array only whether a call changes it |
| `NvEncoderClInterface` | the parsing of the encoder's dictionary: names, codec, preset, tuning, rate control, codec configuration, resolution | a text is the value it parses to, another text or blank; presets fill the settings from a constant table |
| `EncoderSettings` | creation and `Reconfigure` in `PyNvEncoder`, the task and the ring over it (EXTENDS the above) | the driver answers a reconfiguration by the rules of its header and may also refuse for no reason |
| `TimeoutHandler` | the interrupt callback | time passes in ticks |
| `DecodeFrame` | the decoding task and the way `PyDecoder` calls it | the file is packets 1..N with the same number of frames each, a second resolution from `ChangeAt` on; the codec is a queue that refuses packets when full, may output late, and needs a key packet to start; the source answers a read or keeps silent (EXTENDS `TimeoutHandler`) |
| `SurfacePlane` | ownership in one plane, and its special member functions | an allocation is a value; an object says what it owns, borrows or points to |
| `Surfaces` | surfaces made of planes, and Python handles to planes | formats differ in their number of planes |
| `CudaResMgr` | both getters, one action per lock, branch and CUDA call | a stream is a value; a context is retained or not |
| `ConvertSurface` | the conversions as a table of rows, the formats, the checks of arguments | a format is its components and planes; color parameters say only whether they are accepted |
| `CudaStream` | the stream and its events | an entry is work with the places it reads and writes, or an event; the GPU performs the oldest |
| `SurfaceTasks` | the four tasks and Python classes called from threads (EXTENDS the two above) | a call is a list of steps between which others act; a place holds a picture, gray, or garbage; sizes are numbers |
| `JpegEncode` | encoders and contexts, their lifetimes, `Run` | an image is its surface and what nvJPEG was told of it |
| `*_proofs` | theorems of `NvEncoder`, `NvencEncodeFrame`, `PyNvEncoder`, `DecodeFrame`, `Surfaces` with `SurfacePlane`, `SurfaceTasks`, `JpegEncode`, `CudaResMgr`, `EncoderSettings` | |
| `MC*` | constants for TLC | |

State variables have the names of the members they stand for; variables marked
*history* in the modules (what was delivered, which owners were handed memory,
how often a context was retained) exist for the properties only. One action
stands for one branch of a handler between two points at which something else
can happen: an external call that may fail, a lock, or the end of the call.
Handlers that only their own thread can disturb are one action. Operators whose
names begin with `Bug` are plausible slips in the definition that follows them;
no specification uses them, they serve to see that a property notices them.

## Runs

| Run | Bounds | Shows |
|---|---|---|
| `encoder` | the Python class on a ring of 3 slots (one B picture, a lookahead of one, no extra delay), 5 pictures, 2 failures, 2 sizes, the client goes on after errors | in-flight pictures are bounded; a bitstream is not reused before retrieval unless two retrievals in a row threw; of the calls that retrieve only a synchronous one ever locks a bitstream NVENC holds back; no packet twice or out of order; the flush of a session drains it; up to the first error the task refines `PacketFifo`; size and format reported are the encoder's; `Flush` ends |
| `encoder_settings` | 5 surface formats, creation and 2 calls to `Reconfigure`, dictionaries for every branch | every field of the configuration an option sets, but the four named under Proofs, is what the latest call that reached the driver asked for, or a preset's or the class's default, with what `cq` and a bit rate change beside their own fields; the IDR period is what the last call named, or the GOP; a configuration stops to suit the surfaces only through a preset without, or with another, format; the ring covers the latency unless a later call asked for a lookahead |
| `decode_file` | 5 packets of 2 frames, codec of 3, change at packet 4, 2 failures, GPU memory, a timeout of 2 ticks | frames in order once, never back whatever fails, END_OF_STREAM after the last, the kept frame on a change of resolution, tokens of the right size, every call returns, also from a source that never answers; a read times out only after so long a silence in this very read; the end is final |
| `decode_seek` | 5 packets, 2 key packets, 2 seeks, 1 failure, a timeout of 1 tick because the option is no number | frames stay in order around seeks that succeed and fail; a seek that succeeds returns the frame asked for; having read to the end does not make a seek fail |
| `seek_start_time`, `seek_resends` | one seek; in the second 3 packets of 2 frames, a codec of 2 | *violated*: see Divergences |
| `surfaces` | surfaces of 1, 2 and 1 planes, 2 handles, 3 allocations, 1 foreign tensor | one owner per allocation, which keeps it; surfaces own all planes or none; `Update` shows the planes given |
| `surface_tasks` | 2 threads; one scenario per conversion (23) with 3 surfaces in 2 sizes and 2 host arrays; 2 calls in the scenarios of NV12 to Y and P10 to NV12, 1 in the others; 1 failure | a blocking call leaves nothing on the GPU, failed or not; host arrays hold what was said when a call returns; all surfaces end as if every call were performed at once; valid calls succeed, again after another size or a failure; the resizer's event stands for its work |
| `event_covers_run` | one thread, one call, no failures | *violated*: see Divergences |
| `jpeg_encoder` | 2 encoders, 2 contexts, 2 formats and an unsupported one, lists of up to 2 of 3 surfaces, 2 failures | no nvJPEG state outlives its handle, in whatever order Python drops things; with SUCCESS there is an image of every surface of the list, with FAIL none, and each image is of its surface, in the format nvJPEG was told |
| `jpeg_all_or_none` | the same | *violated*: see Divergences |
| `cuda_res_mgr` | 2 threads, 2 GPUs and a bad index, 3 streams, 1 failure | locks are held where they should be; one retain, one stream per GPU; every call returns |

**Why the bounds are enough.** The pictures encoded exceed the ring by two, so
two of its three slots are reused, with pictures held back on both sides of the wrap; B pictures and the lookahead both hold pictures back, so a delay that
forgets either is too short; two failures allow two in a row. One format, which
encode and capability query know alike, lets either of them create the encoder;
the one that a query refuses changes nothing. The decoder's file is longer than the codec's queue, so
packets are refused, resent and drained before and after the change of
resolution; its two key packets lie before and after it, or apart far enough for
a seek to land on either and to decode frames it skips. Ownership concerns at
most a source, a destination and a third party, and three allocations are one
more than the handles can hold. Two threads are enough for two locks; the spare
stream would reveal one created twice. In `surface_tasks` two calls are the
first, and a second that reads what it wrote, reuses its temporary surfaces with
another size, or follows its failure; the two scenarios with more calls have a
synchronization inside the task, and the scratch plane together with the
temporary surfaces of the NV12 resizer. `maxCalls` and `MaxFailures` bound it. Settings need a creation, a call whose
settings may be refused, and one that builds on what it left. Timeouts of one
and two ticks differ from silence by one tick on either side. Two encoders let
a context change encoders and outlive one; two contexts let one be used after
the other; a list of two has an error before, after and between images. Bounded counters are `MaxFrames`,
`MaxFailures`, `MaxSeeks`, `MaxCalls` (calls to `Reconfigure`), `MaxSurfaces`
(of a list); a number of the options wraps at `Word`, smaller
than the code's 2^32 so that kilo and mega reach it; time stops to pass once a
read has timed out; `delivered` in `DecodeFrame` is cut
after one frame more than the file has. Memory is a finite set because an
allocation given back may be given again.

**Deadlock** is reported by TLC except where a session really may stop: an
encoder that was destroyed, surfaces all given up, threads that make no more
calls (surface tasks), no more calls to `Reconfigure`, encoders and contexts all
dropped (JPEG). For `CudaResMgr` the liveness property stands in for it.

**Fairness.** `RunReturns` assumes weak fairness of the steps inside a call, which
runs in its caller's thread until it returns, and of the tick of the clock while
a read waits. It does not assume that the source answers: a hung source is what
the timeout is for. `FlushTerminates` assumes the
same of the loop in `PyNvEncoder::Flush`.
`EveryCallReturns` assumes weak fairness of each thread inside a call and strong
fairness of taking a mutex, that is, a mutex released again and again is at some
time given to each thread that waits. No call is assumed to be made, and no
external call to succeed.

## Proofs

All theorems hold for every value of the constants that satisfies the named
assumptions of the module, which TLC evaluates in the runs.

- `NvEncoder_proofs` (from `EncoderAssumption`: the numbers are natural and the ring
  has a slot): type correctness, the bound on pictures in flight, that slots keep their
  pictures, that an overrun follows a failed retrieval, and that neither an
  asynchronous call nor a flush ever locks a bitstream held back
  (`AsyncLocksFinished`). It holds because `m_nOutputDelay`, one less than the
  ring, is at least what NVENC may hold back, and the loop of such calls stops that
  far behind the pictures sent, or after the end was signalled; nothing else in the
  model keeps a call from locking an unfinished bitstream. None of these is inductive by itself. The
  invariant `RingInv` adds to the type and the bound that every slot holds the
  newest picture that maps to it (`NewestInSlots`), which turns questions about
  slots into arithmetic on `m_iToSend` and `m_iGot`.
- `Surfaces_proofs`: types, one owner per allocation, owners keep what they own,
  surfaces are whole, for any surfaces, numbers of planes and handles. The
  inductive invariant `SurfInv` joins the four: a copy borrows only what has an
  owner, an assignment gives up what the target owned, and a surface is deleted
  as a whole. There is one lemma for each operation on a plane and one for
  filling a surface, plane by plane, as a simultaneous assignment. `Sound` adds that
  a plane which owns nothing holds no memory (`OnlyOwnersHold`), from which an update
  shows the planes it was given (`UpdatesShow`).
- `CudaResMgr_proofs`: types, the mutexes are held exactly in their sections,
  contexts are retained once and streams created once, for any number of
  threads and failures. `MgrInv` adds that `retained` agrees with `g_Contexts`
  and `streams` with `g_Streams` at every point, and that the thread about to
  retain or create still sees none; mutual exclusion carries that across the
  other threads' steps.
- `NvencEncodeFrame_proofs`: what is proved of the ring holds when the task drives
  it, packets keep their order, a flush drains, and the task refines
  `PacketFifo`. `CallInv` adds to `RingInv` that every slot of a picture sent holds
  some bitstream and that the pictures in flight fit the ring until one is overrun;
  from it a call's contract follows (`CallReturns`): which pictures it submits
  and retrieves, in which order, and that one that throws hands out none. With the
  contract the rest is about sequences. `OrderInv` adds that what was delivered and what
  is queued is increasing and, with what a throwing retrieval lost, is all of
  `0 .. m_iGot - 1`. `FlushInv` adds that the ring is empty from a flush to
  the next encode (`Drained`), `FifoInv` that until a failure nothing is missing
  and the lag is bounded (`Unbroken`), which is what the mapping of `PacketFifo` needs:
  a `Run` is an `Encode`, a `Flush`, the `Break` of the first error, or a stutter.
  The last part is about `PyNvEncoder`: every behaviour of the Python class is one of
  the task (`PyImplementsTask`), so that the task's theorems are its own; and the size
  and format it reports are the encoder's, because any call that may
  create the encoder does so in `eFormat` or not at all (`ReportInv`).
- `JpegEncode_proofs`: the handle of an encoder is made exactly while something
  refers to it: Python, a context, or what a constructor that threw left behind
  (`HandlesKept`). With it goes that a call works for living objects only and
  what it has done so far, and that images keep their surfaces and formats
  (`ImagesKeepTheirSurfaces`).
- `DecodeFrame_proofs`: nine theorems from one invariant, `DecInv`. Its core counts: the
  codec holds, in order, the frames of the packets sent (`Sent`) after those
  taken out (`Taken`), `m_pkt` is the packet read last, kept exactly while
  `m_flush` or `m_resend` says so, and what the caller had is what was taken out,
  but for the one kept on a change of resolution (`PacketsFlow`, `FramesFlow`). None of
  it survives a failed read or receive, after which `m_end_decode` is set; what does is
  that a kept frame never lies before the last one given (`NeverBack`). Hypotheses
  are those the code needs, each for a reason listed under Divergences:
  `FramesStayInOrder` and the theorems on seeks take a file where packets
  hold one frame and the size does not change, for calls that seek, since a refused
  packet, and a change of size, survive a seek (`PlainFile`; without seeks the
  order is proved for every file); `ChangeKeepsTheFrame` speaks of calls before the first
  seek, whose loop ignores a change; `TokensFit` also excludes `EarlySize`;
  `SeekFindsTheFrame` takes a `StartTime` of 0.
  `EndReturnsAll`, `ReadsTimeOutAfterSilence` and `EndStaysFinal` need none.
- `SurfaceTasks_proofs` (from `SurfaceTasksAssumption`, and `NamesAssumption`: no object
  has the name of a temporary surface): a blocking call leaves nothing on the stream, a resizer's
  event stands for its work, fitting calls succeed, for any threads, scenarios and
  failures. Threads share the stream, so that what a call may say of it must
  survive what others enqueue and the GPU performs: `Followed(queue, id)`, every
  entry of a call comes before an event of it, does. `TasksInv` says it of every call
  that is about to wait and of those that left an event, that calls have numbers of
  their own, that the rest of a call's work ends in its closing steps, and that a
  call on fitting objects has no refusal ahead of it. Fitting calls succeed
  because the temporary surfaces are made again whenever the size differs; what
  the table of conversions must satisfy for it is `DefaultColors`, proved row by row.
  That surfaces and arrays show the pictures they should (`CallsAreAsIfAtOnce`,
  `HostArraysAreCurrent`) depends on what the queue will have made of the memory, so the
  proof looks ahead: `Foretold` gives every place a content after each entry of the
  queue, the last of which is what the memory will hold. `ViewInv` says of that last
  content that an object no call is writing holds its picture, that a call which
  refuses leaves its destination as it was, and that one which goes on `Carries` the
  picture of its source: its remaining work fills the destination, its launches
  read the source or what is filled by then, no later launch writes what an earlier one
  read, and a temporary surface is made before the launches that fill it. Enqueueing
  a launch moves its effect from the rest of the call to the queue, performing an entry
  moves it from the queue to the memory, and neither changes where it all leads
  (`PicturesForetold`). Beside it, `PlanInv` says that a call writes only its
  destination and the temporary surfaces of its task, that calls in progress are
  of different tasks and none writes another's source or destination, and that the
  queue writes to an array only for a call still in progress, which is why it may be
  looked at when the call has returned. That each row of the table of conversions
  makes a call of the required form is proved row by row. `RGB` to `YUV444` in MPEG
  range promises no picture, in the properties as in the invariant.
- `EncoderSettings_proofs` (from `SettingsAssumption`, `ClInterfaceAssumption` and
  `TextsAssumption`: the empty text is no value, numbers and lists of numbers are
  what the options that take them hold, and a preset fills the whole
  configuration): which call's value is in force, that a misfit with the surfaces comes
  of a format, that the ring covers the latency unless a lookahead was asked for.
  A lemma per pass of the code says what it leaves in one field (`ConfigAt` joins
  them); others say which calls count after one more call (`CallsApplied`) and which
  value they ask for (`WantedNext`). `SettingsInv` then says the same thing twice
  (`Settled`): of what is pending and of all calls that reached the driver,
  of what is in force and of those up to the last one accepted. The first is
  why the second is inductive: an accepted call puts in force what refused ones
  left pending. `LatestIsInForce` and `MisfitsComeOfFormats` take calls that name
  no other codec (`OneCodec`): such a call is refused, but its codec, and a preset
  of it, stay for the next one. `RingIsCovered` needs no such hypothesis.
  `LatestIsInForce` speaks of `NamedField`: every field of the configuration an option
  sets, the bit rates `cq` clears and the mode of rate control a bit rate brings
  included. Four are not in it: the IDR period, which becomes the GOP at any call
  that does not name it and is told apart; the profile, set at creation or forced
  by 4:4:4 input; the chroma format and bit depth, which follow the pixel format and
  are the subject of `MisfitsComeOfFormats`. The size, the largest size, the frame rate,
  the codec, the preset and the tuning are parameters outside the configuration,
  where also a call that throws leaves what it has written.

**Only model-checked:** the liveness properties (`FlushTerminates`, `RunReturns`,
`EveryCallReturns`), which are out of the prover's reach.

## Divergences between the code and what it says

Shown by a run:

- A seek in a stream whose `start_time` is above zero stops too early
  (`TaskDecodeFrame.cpp:887`).
- A packet the codec refused before a seek is sent to the reopened codec after
  it, since `m_flush`, `m_resend` and `m_pkt` survive the seek
  (`TaskDecodeFrame.cpp:883`): the seek may end with a frame of that packet.
- A list with one surface of another format, or one nvJPEG fails on, returns the
  images before it with INVALID_INPUT: only FAIL clears them
  (`PyNvJpegEncoder.cpp:71`), while the comment there says "Either we compress all
  of input Surfaces or none of them", and the docstring (line 121) promises an
  empty list and FAIL.
- `PySurfaceConverter.RunAsync` makes its event in an argument of the call that
  has the conversion in another (`PySurfaceConverter.cpp:108`): where the event
  is evaluated first, waiting for it does not wait for the conversion.

Met while modelling, and kept out of the runs by the choice of constants or
described only here:

- After a flush, an encode and another flush the last pictures stay in the
  encoder: `didFlush` is never reset (`TaskNvencEncodeFrame.cpp:1188`), while
  the docstring of `Flush` promises "all remaining compressed frames"
  (`PyNvEncoder.cpp:523`).
- Without color parameters, NV12 to BGR leaves its switch and returns nothing
  (`TaskConvertSurface.cpp:133`), and RGB_PLANAR to YUV444 throws, because
  `SurfaceRGBPlanar::PixelPtr` looks for a plane per component
  (`Surfaces.cpp:581`); the docstring (`PySurfaceConverter.cpp:96`) promises
  defaults.
- Move construction of an owning plane yields one that only borrows, and the
  memory is freed (`SurfacePlane.cpp:80`); nothing in the library move-constructs
  an owner, because vectors of planes are reserved before they are filled, which
  is what a mutant of `surfaces` takes away.
- `PyFrameUploader::Run` takes the details by value (`PyFrameUploader.cpp:36`),
  so the information it returns is SUCCESS also when the upload failed; the
  constructor of `PySurfaceDownloader` for a stream takes it as a GPU's number
  (`PySurfaceDownloader.cpp:58`).
- `bgr_yuv444` does not use the result of `Validate`, and P10 to NV12 does not
  validate: the model calls them with surfaces that fit (`BeginConvert`).
- RGB to YUV444 in the MPEG range writes packed pixels to the first plane
  (`TaskConvertSurface.cpp:672`): the destination counts as unknown
  (`WritesPacked`). YUV444 to RGB_PLANAR is implemented but not selected by the
  constructor.
- The resizer compares the formats of source and destination with each other,
  not with its own (`TaskResizeSurface.cpp:41`).
- `PyNvEncoder::Flush` overwrites the array with each packet
  (`PyNvEncoder.cpp:275`), where the docstring (line 526) says they are
  squashed together.
- A synchronous encode with B pictures or lookahead locks a bitstream NVENC has
  not finished, although the docstring promises a packet (line 457).
- `MotionVectors` keeps the vectors of an earlier frame when the number did not
  change, or when the frame has none (`TaskDecodeFrame.cpp:491`), while the
  docstring promises those of the last decoded frame, or none
  (`PyDecoder.cpp:498`).
- The loop of a seek ignores a change of resolution and writes to the old token
  (`TaskDecodeFrame.cpp:888`); `decode_seek` has one resolution.
- After END_OF_STREAM was returned, `m_end_decode` stays set and every later
  seek fails.
- If the codec context takes a new size before the frame (`EarlySize`), the
  change is not noticed (`TaskDecodeFrame.cpp:598`).
- The frame kept on a change of resolution comes with the packet data and
  vectors of the frame before it.
- `FlushDrains` leaves out sessions whose encodes all threw (`didEncode` stays
  false), and a retrieval that threw followed by an encode overruns a slot:
  `OverrunNeedsFailedPull` says exactly when.
- The destructor of `CudaResMgr` takes its mutexes in the opposite order of
  `GetStream`, and releases device 0 for every GPU (`CudaUtils.cpp:207`, `:231`).
- `Clone` of a surface with some planes empty throws and loses the new surface
  (`MemoryInterfaces.cpp:415`).
- In tracking builds `AllocRegister` locks nothing (`MemoryInterfaces.cpp:65`).
- Every channel nvJPEG reads is given the pointer of the first component
  (`TaskNvJpegEncode.cpp:241`), so planar pictures are compressed with the wrong
  colors; the test measures the quality of RGB only. A context whose constructor
  throws keeps the encoder and its handle for ever (`:123`), and the `Buffer` of
  every image is never freed (`:285`). `CompressImpl` copies the bytes of an image
  (`PyNvJpegEncoder.cpp:59`) before it waits for the stream (line 79): the model
  takes the retrieval of the bitstream as done when it returns.
- Settings: the option `bf` is the distance between reference pictures, not the
  number of B pictures its text says; the examples the texts give for `ldkfs`,
  `temporalaq`, `cq`, `aq` and `constqp` are the values that count as not given;
  a bit rate with a preset P1 to P7 and no low-latency tuning leaves CONSTQP in
  force; `idrperiod` becomes the `gop` at any later reconfiguration; a P12 object
  can never create its encoder, its format has no name for the options although
  `PyNvEncoder.cpp:197` handles it; a size without `max_res` makes itself the
  largest size, which the driver refuses to change, and then refuses the later
  calls too; a call the driver refused leaves its settings to the next one.
- After a read that failed or timed out, every second call returns the last
  frame again with SUCCESS (`TaskDecodeFrame.cpp:921`). `TimeoutHandler` is not
  asked while a custom AVIO reader blocks.
- `from_cai` stores strides in the shape (`PySurface.cpp:389`).

## Not modelled

Pixel data and what NPP, nvJPEG and the codecs compute; logging, NVTX marks and
text; of the encoder's options the slices and the fields no option
reaches (VUI among them), and the decoder's dictionary, which is handed to
FFmpeg; reconfiguring to another codec, and numbers that are blank, are not among
the inputs; motion-estimation-only encoding; audio and subtitle streams (skipped
packets change nothing); a codec that cannot be reopened for a seek, after which every
call dereferences a null context; two threads inside one task, about which the classes
promise nothing; process exit. Opening a file and a seek of libavformat also block under the
timeout handler; in the model they answer at once, a read is where a source
falls silent. `BufferedReader`, `ConvertFrame`, `AllocRegister` and the slots of
the task core keep no state a property here could be about: the components of
`PROJECT.json` marked `not_modelled` say why for each.

## Plan

Every component with state of its own is modelled. What is left:

1. Abstract specifications: `DecodeFrame` as a reader of a sequence of frames
   with seeks; `CudaResMgr` as an atomic map from GPU to stream; a surface task as
   one step that changes only its destination.
2. `AllocRegister` as tracking builds have it, and `CudaResMgr`'s destructor at
   process exit.
