----------------------------- MODULE JpegEncode -----------------------------
(***************************************************************************)
(* PyNvJpegEncoder, the task NvJpegEncodeFrame it drives and the contexts  *)
(* it makes.  Python owns encoders and contexts, and drops them in any     *)
(* order.  A context holds a state of nvJPEG, made with the handle of its  *)
(* encoder, and a reference to the encoder; the handle goes with the last  *)
(* reference.  Run takes any context, also another encoder's, and          *)
(* compresses a list of surfaces one by one.  It keeps the interpreter     *)
(* lock: nothing else happens while it runs.                               *)
(***************************************************************************)
EXTENDS Naturals, Sequences, FiniteSets

CONSTANTS
  Encoder, Context, Surface,
  Kind,          \* the format of every surface, and whether it is empty
  AskedFormat,   \* the formats contexts are made for
  MaxFailures,   \* calls that fail and constructors that throw
  MaxSurfaces,   \* surfaces in a list
  NoContext, NoImage, NoCall

ASSUME JpegEncodeAssumption ==
  /\ Kind \in [Surface -> [format : STRING, empty : BOOLEAN]]
  /\ AskedFormat \subseteq STRING
  /\ MaxFailures \in Nat
  /\ MaxSurfaces \in Nat

VARIABLES
  held,            \* the encoders Python holds
  handle,          \* m_jpegHandle of every encoder: "none", "made" or "destroyed"
  context,         \* the contexts, or NoContext
  bits,            \* what the nvJPEG state of a context has compressed last, or NoImage
  abandoned,       \* what constructors of contexts that threw left behind
  m_jpegContext,   \* of every encoder, the context it was given last, or NoContext
  call,            \* the call of Run in progress, or NoCall
  result,          \* what the last call of Run returned, or NoCall
  failures

vars == <<held, handle, context, bits, abandoned, m_jpegContext, call, result, failures>>

Alive == {c \in Context : context[c] # NoContext}

------------------------------------------------------------------------------
(* What nvJPEG is told of a picture.                                        *)

YUV == {"YUV444", "YUV422", "YUV420"}
Supported == YUV \union {"RGB", "BGR", "RGB_PLANAR"}

\* The default NVJPEG_CSS_444 stays for the formats that are not YUV.
Subsampling(format) ==
  CASE format = "YUV422" -> "CSS_422" [] format = "YUV420" -> "CSS_420" [] OTHER -> "CSS_444"

\* The default NVJPEG_INPUT_RGB stays for YUV.
InputFormat(format) ==
  CASE format = "RGB" -> "INPUT_RGBI" [] format = "BGR" -> "INPUT_BGRI" [] OTHER -> "INPUT_RGB"

\* nvjpegEncodeYUV or nvjpegEncodeImage: chosen by the format of the surface,
\* and told what the context says.  An image is known by its surface, not by its
\* pixels: the channels nvJPEG reads all point to the first component, whichever
\* the format, so the colors of a planar picture are not its own.
Image(s, c) ==
  IF Kind[s].format \in YUV
  THEN [of |-> s, as |-> Subsampling(context[c].format)]
  ELSE [of |-> s, as |-> InputFormat(context[c].format)]

------------------------------------------------------------------------------
(* Who keeps a handle.                                                      *)

\* A mutant: the context has only a pointer.
BugPointerOnly(c, e) == FALSE
\* m_enc: a context is a reference to its encoder.
KeepsEncoder(c, e) == c \in Alive /\ context[c].enc = e

Referenced(e) ==
  \/ e \in held
  \/ \E c \in Context : KeepsEncoder(c, e)
  \/ \E left \in abandoned : left.enc = e

\* ~NvJpegEncodeFrame, when the last reference is gone.
HandlesAfter ==
  [e \in Encoder |-> IF handle[e] = "made" /\ ~Referenced(e)' THEN "destroyed" ELSE handle[e]]

------------------------------------------------------------------------------
Init ==
  /\ held = {}
  /\ handle = [e \in Encoder |-> "none"]
  /\ context = [c \in Context |-> NoContext]
  /\ bits = [c \in Context |-> NoImage]
  /\ abandoned = {}
  /\ m_jpegContext = [e \in Encoder |-> NoContext]
  /\ call = NoCall
  /\ result = NoCall
  /\ failures = 0

Fails == failures < MaxFailures /\ failures' = failures + 1

\* When nvjpegCreateSimple fails the constructor throws, and has no handle.
NewEncoder(e) ==
  /\ call = NoCall
  /\ handle[e] = "none"
  /\ \/ held' = held \union {e} /\ handle' = [handle EXCEPT ![e] = "made"] /\ UNCHANGED failures
     \/ Fails /\ UNCHANGED <<held, handle>>
  /\ UNCHANGED <<context, bits, abandoned, m_jpegContext, call, result>>

\* The constructor of a context succeeds.
NewContext(e, c, format) ==
  /\ call = NoCall
  /\ e \in held
  /\ c \notin Alive
  /\ format \in Supported
  /\ context' = [context EXCEPT ![c] = [enc |-> e, format |-> format]]
  /\ UNCHANGED <<held, handle, bits, abandoned, m_jpegContext, call, result, failures>>

\* It throws: the destructor does not run, so pImpl, its reference to the
\* encoder and what was created of the state and the parameters stay.
NewContextThrows(e, format) ==
  /\ call = NoCall
  /\ e \in held
  /\ Fails
  /\ \E created \in IF format \in Supported THEN {{}, {"state"}, {"state", "params"}} ELSE {{}} :
       abandoned' = abandoned \union {[enc |-> e, created |-> created]}
  /\ UNCHANGED <<held, handle, context, bits, m_jpegContext, call, result>>

\* ~PyNvJpegEncoder
DropEncoder(e) ==
  /\ call = NoCall
  /\ e \in held
  /\ held' = held \ {e}
  /\ UNCHANGED <<context, bits, abandoned, m_jpegContext, call, result, failures>>
  /\ handle' = HandlesAfter

\* ~NvJpegEncodeContext.  An encoder that was given the context keeps the pointer.
DropContext(c) ==
  /\ call = NoCall
  /\ c \in Alive
  /\ context' = [context EXCEPT ![c] = NoContext]
  /\ bits' = [bits EXCEPT ![c] = NoImage]
  /\ UNCHANGED <<held, abandoned, m_jpegContext, call, result, failures>>
  /\ handle' = HandlesAfter

\* CompressImpl up to the loop, SetEncoderContext in it.
Run(e, c, surfaces) ==
  /\ call = NoCall
  /\ e \in held
  /\ c \in Alive
  /\ m_jpegContext' = [m_jpegContext EXCEPT ![e] = c]
  /\ call' = [enc |-> e, with |-> c, surfaces |-> surfaces, next |-> 1, images |-> <<>>,
              info |-> "SUCCESS"]
  /\ result' = NoCall
  /\ UNCHANGED <<held, handle, context, bits, abandoned, failures>>

\* CudaCtxPush throws first: the caller gets the exception, nothing has changed.
RunThrows(e, c) ==
  /\ call = NoCall
  /\ e \in held
  /\ c \in Alive
  /\ Fails
  /\ result' = NoCall
  /\ UNCHANGED <<held, handle, context, bits, abandoned, m_jpegContext, call>>

MoreSurfaces == call # NoCall /\ call.info = "SUCCESS" /\ call.next <= Len(call.surfaces)
TheSurface == call.surfaces[call.next]
TaskContext == m_jpegContext[call.enc]
\* A mutant: the task takes any format.
BugAnyFormatFits(s) == TRUE
FitsContext(s) == Kind[s].format = context[TaskContext].format

\* The first error ends the loop.
Stop(info) == call' = [call EXCEPT !.info = info]
Stays == UNCHANGED <<held, handle, context, abandoned, m_jpegContext, result>>

\* CompressImpl and the task refuse the surface.
Refuse ==
  /\ MoreSurfaces
  /\ \/ Kind[TheSurface].empty /\ Stop("FAIL")
     \/ ~Kind[TheSurface].empty /\ ~FitsContext(TheSurface) /\ Stop("INVALID_INPUT")
  /\ Stays /\ UNCHANGED <<bits, failures>>

Accepted == MoreSurfaces /\ ~Kind[TheSurface].empty /\ FitsContext(TheSurface)

\* A call of nvJPEG fails, which the task reports, or an allocation throws.
CompressFails ==
  /\ Accepted
  /\ Fails
  /\ \/ Stop("INVALID_INPUT") /\ bits' = [bits EXCEPT ![TaskContext] = NoImage]
     \/ /\ \E info \in {"INVALID_INPUT", "FAIL"} : Stop(info)
        /\ bits' = [bits EXCEPT ![TaskContext] = Image(TheSurface, TaskContext)]
  /\ Stays

\* The state compresses the surface; its bitstream is retrieved and copied.
Compress ==
  /\ Accepted
  /\ bits' = [bits EXCEPT ![TaskContext] = Image(TheSurface, TaskContext)]
  /\ call' = [call EXCEPT !.next = @ + 1, !.images = Append(@, bits'[TaskContext])]
  /\ Stays /\ UNCHANGED failures

\* Only FAIL clears the images.
Returned(images, info) == IF info = "FAIL" THEN <<>> ELSE images

Return ==
  /\ call # NoCall
  /\ ~MoreSurfaces
  /\ result' = [surfaces |-> call.surfaces, images |-> Returned(call.images, call.info),
                info |-> call.info]
  /\ call' = NoCall
  /\ UNCHANGED <<held, handle, context, bits, abandoned, m_jpegContext, failures>>

Lists == UNION {[1 .. n -> Surface] : n \in 0 .. MaxSurfaces}

Next ==
  \/ \E e \in Encoder : NewEncoder(e) \/ DropEncoder(e)
  \/ \E e \in Encoder, c \in Context, format \in AskedFormat : NewContext(e, c, format)
  \/ \E e \in Encoder, format \in AskedFormat : NewContextThrows(e, format)
  \/ \E c \in Context : DropContext(c)
  \/ \E e \in Encoder, c \in Context : RunThrows(e, c)
  \/ \E e \in Encoder, c \in Context, surfaces \in Lists : Run(e, c, surfaces)
  \/ Refuse \/ CompressFails \/ Compress \/ Return

Spec == Init /\ [][Next]_vars

------------------------------------------------------------------------------
(* However Python drops encoders and contexts, and whichever context it    *)
(* gives to whichever encoder, a state of nvJPEG never outlives its        *)
(* handle: the destructor of a context can destroy its state, and a call   *)
(* in progress works with a context that still exists, on handles that     *)
(* still exist.  (This is what the comment on m_enc asks for; it also      *)
(* needs the task to be given the context anew in every call.)             *)
StatesHaveHandles ==
  /\ \A c \in Alive : handle[context[c].enc] = "made"
  /\ call # NoCall => /\ TaskContext \in Alive
                      /\ handle[call.enc] = "made"
                      /\ handle[context[TaskContext].enc] = "made"

(* Whichever contexts encoders share and wherever an error comes, the i-th *)
(* image returned is of the i-th surface of the list, described to nvJPEG  *)
(* by the surface's own format; there is one for every surface with        *)
(* SUCCESS and none with FAIL.  With INVALID_INPUT there may be some.      *)
ImagesOfTheirSurfaces ==
  result # NoCall =>
    LET n == Len(result.images)
        Describes(s) == IF Kind[s].format \in YUV THEN Subsampling(Kind[s].format)
                        ELSE InputFormat(Kind[s].format)
    IN /\ n <= Len(result.surfaces)
       /\ \A i \in 1 .. n : result.images[i] = [of |-> result.surfaces[i],
                                                as |-> Describes(result.surfaces[i])]
       /\ result.info = "SUCCESS" => n = Len(result.surfaces)
       /\ result.info = "FAIL" => n = 0

(* "Either we compress all of input Surfaces or none of them", as the      *)
(* comment where the images are cleared says, and the docstring of Run.    *)
(* The code clears them with FAIL only: this does not hold.                *)
AllOrNone ==
  result # NoCall =>
    result.images = <<>> \/ Len(result.images) = Len(result.surfaces)

=============================================================================
