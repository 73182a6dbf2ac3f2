-------------------------- MODULE JpegEncode_proofs --------------------------
(***************************************************************************)
(* What JpegEncode promises, for any encoders, contexts and surfaces, and  *)
(* any bounds: no state of nvJPEG outlives its handle, and what Run        *)
(* returns is the images of the first surfaces of the list.  The first     *)
(* rests on the count of references, the second on what a call in progress *)
(* has done.                                                               *)
(***************************************************************************)
EXTENDS JpegEncode, SequenceTheorems, TLAPS

Description == {"CSS_444", "CSS_422", "CSS_420", "INPUT_RGB", "INPUT_RGBI", "INPUT_BGRI"}
Picture == [of : Surface, as : Description]
ContextState == [enc : Encoder, format : STRING]
CallState == [enc : Encoder, with : Context, surfaces : Seq(Surface), next : Nat \ {0},
              images : Seq(Picture), info : {"SUCCESS", "FAIL", "INVALID_INPUT"}]

JpegTypeOK ==
  /\ held \subseteq Encoder
  /\ handle \in [Encoder -> {"none", "made", "destroyed"}]
  /\ context \in [Context -> ContextState \union {NoContext}]
  /\ bits \in [Context -> Picture \union {NoImage}]
  /\ abandoned \subseteq [enc : Encoder, created : SUBSET {"state", "params"}]
  /\ m_jpegContext \in [Encoder -> Context \union {NoContext}]
  /\ call \in CallState \union {NoCall}

\* A handle lives exactly as long as something refers to its encoder.
HandlesKept == \A e \in Encoder : Referenced(e) <=> handle[e] = "made"

\* A call works for an encoder Python holds and with a context that exists.
CallOnLiving == call # NoCall => call.enc \in held /\ TaskContext \in Alive

\* How the surface is described to nvJPEG by its own format.
OwnPicture(s) ==
  [of |-> s, as |-> IF Kind[s].format \in YUV THEN Subsampling(Kind[s].format)
                    ELSE InputFormat(Kind[s].format)]

\* The call has made the images of the surfaces before the next one.
ImagesOf(images, surfaces) ==
  /\ Len(images) <= Len(surfaces)
  /\ \A i \in 1 .. Len(images) : images[i] = OwnPicture(surfaces[i])
CallInOrder ==
  call # NoCall => /\ call.next = Len(call.images) + 1
                   /\ ImagesOf(call.images, call.surfaces)
                   /\ call.info # "SUCCESS" => call.next <= Len(call.surfaces)

JpegInv == JpegTypeOK /\ HandlesKept /\ CallOnLiving /\ CallInOrder /\ ImagesOfTheirSurfaces

\* Nothing exists at the start.
LEMMA InitJpegInv == Init => JpegInv
<1> SUFFICES ASSUME Init PROVE JpegInv
  OBVIOUS
<1> USE DEF Init
<1>1. JpegTypeOK
  BY DEF JpegTypeOK
<1>2. HandlesKept
  BY DEF HandlesKept, Referenced, KeepsEncoder, Alive
<1> QED BY <1>1, <1>2 DEF JpegInv, CallOnLiving, CallInOrder, ImagesOfTheirSurfaces

-----------------------------------------------------------------------------
(***************************************************************************)
(* Lists and pictures.                                                     *)
(***************************************************************************)

\* The lists Python gives are sequences of surfaces.
LEMMA ListsAreSequences == ASSUME NEW surfaces \in Lists PROVE surfaces \in Seq(Surface)
BY JpegEncodeAssumption DEF Lists

\* A surface that fits the context is described by its own format.
LEMMA FittingPicture ==
  ASSUME NEW s \in Surface, NEW c, Kind[s].format = context[c].format
  PROVE  Image(s, c) = OwnPicture(s)
BY DEF Image, OwnPicture

LEMMA PictureType ==
  ASSUME NEW s \in Surface, NEW c PROVE Image(s, c) \in Picture
BY DEF Image, Picture, Description, Subsampling, InputFormat

\* One more image keeps the images those of the first surfaces.
LEMMA OneMoreImage ==
  ASSUME NEW images \in Seq(Picture), NEW surfaces \in Seq(Surface),
         ImagesOf(images, surfaces), Len(images) + 1 <= Len(surfaces),
         NEW image \in Picture, image = OwnPicture(surfaces[Len(images) + 1])
  PROVE  /\ Append(images, image) \in Seq(Picture)
         /\ Len(Append(images, image)) = Len(images) + 1
         /\ ImagesOf(Append(images, image), surfaces)
<1>1. /\ Append(images, image) \in Seq(Picture)
      /\ Len(Append(images, image)) = Len(images) + 1
      /\ \A i \in 1 .. Len(images) : Append(images, image)[i] = images[i]
      /\ Append(images, image)[Len(images) + 1] = image
  BY AppendProperties
<1>2. Len(images) \in Nat /\ Len(surfaces) \in Nat
  BY LenProperties
<1>3. ASSUME NEW i \in 1 .. Len(images) + 1
      PROVE  Append(images, image)[i] = OwnPicture(surfaces[i])
  <2>1. CASE i \in 1 .. Len(images)
    BY <1>1, <2>1 DEF ImagesOf
  <2>2. CASE i = Len(images) + 1
    BY <1>1, <2>2
  <2> QED BY <1>2, <2>1, <2>2
<1> QED BY <1>1, <1>2, <1>3 DEF ImagesOf

-----------------------------------------------------------------------------
(***************************************************************************)
(* Types.                                                                  *)
(***************************************************************************)

\* What a surface the running call may still compress is.
LEMMA RunningCall ==
  ASSUME JpegInv, MoreSurfaces
  PROVE  /\ call \in CallState /\ call # NoCall /\ TheSurface \in Surface
         /\ TaskContext \in Context /\ context[TaskContext] \in ContextState
<1>1. call \in CallState /\ call # NoCall
  BY DEF JpegInv, JpegTypeOK, MoreSurfaces
<1>2. TheSurface \in Surface
  <2>1. /\ call.surfaces \in Seq(Surface) /\ call.next \in Nat \ {0}
        /\ call.next <= Len(call.surfaces)
    BY <1>1 DEF CallState, MoreSurfaces
  <2>2. call.next \in 1 .. Len(call.surfaces)
    BY <2>1, LenProperties
  <2> QED BY <2>1, <2>2, ElementOfSeq DEF TheSurface
<1> QED BY <1>1, <1>2 DEF JpegInv, JpegTypeOK, CallOnLiving, Alive

\* Every step keeps the types.
LEMMA JpegTypeStep == ASSUME JpegInv, [Next]_vars PROVE JpegTypeOK'
<1> USE JpegEncodeAssumption DEF JpegTypeOK
<1>t. JpegTypeOK
  BY DEF JpegInv
<1>1. CASE UNCHANGED vars
  BY <1>t, <1>1 DEF vars
<1>2. ASSUME NEW e \in Encoder, NewEncoder(e) PROVE JpegTypeOK'
  BY <1>t, <1>2 DEF NewEncoder
<1>3. ASSUME NEW e \in Encoder, DropEncoder(e) PROVE JpegTypeOK'
  <2>1. handle' \in [Encoder -> {"none", "made", "destroyed"}]
    BY <1>t, <1>3 DEF DropEncoder, HandlesAfter
  <2> QED BY <1>t, <1>3, <2>1 DEF DropEncoder
<1>4. ASSUME NEW e \in Encoder, NEW c \in Context, NEW format \in AskedFormat,
             NewContext(e, c, format)
      PROVE  JpegTypeOK'
  BY <1>t, <1>4 DEF NewContext, ContextState
<1>5. ASSUME NEW e \in Encoder, NEW format \in AskedFormat, NewContextThrows(e, format)
      PROVE  JpegTypeOK'
  BY <1>t, <1>5 DEF NewContextThrows
<1>6. ASSUME NEW c \in Context, DropContext(c) PROVE JpegTypeOK'
  <2>1. handle' \in [Encoder -> {"none", "made", "destroyed"}]
    BY <1>t, <1>6 DEF DropContext, HandlesAfter
  <2> QED BY <1>t, <1>6, <2>1 DEF DropContext
<1>7. ASSUME NEW e \in Encoder, NEW c \in Context, NEW surfaces \in Lists, Run(e, c, surfaces)
      PROVE  JpegTypeOK'
  <2>1. surfaces \in Seq(Surface) /\ <<>> \in Seq(Picture)
    BY ListsAreSequences
  <2>2. call' \in CallState
    BY <1>7, <2>1 DEF Run, CallState
  <2> QED BY <1>t, <1>7, <2>2 DEF Run
<1>8. CASE Refuse
  <2>1. call \in CallState
    BY <1>8, RunningCall DEF Refuse
  <2>2. call' \in CallState
    BY <1>8, <2>1 DEF Refuse, Stop, CallState
  <2> QED BY <1>t, <1>8, <2>2 DEF Refuse, Stays
<1>9. CASE CompressFails
  <2>1. /\ call \in CallState /\ TheSurface \in Surface /\ TaskContext \in Context
    BY <1>9, RunningCall DEF CompressFails, Accepted
  <2>2. call' \in CallState
    BY <1>9, <2>1 DEF CompressFails, Stop, CallState
  <2>3. Image(TheSurface, TaskContext) \in Picture
    BY <2>1, PictureType
  <2>4. bits' \in [Context -> Picture \union {NoImage}]
    BY <1>t, <1>9, <2>3 DEF CompressFails
  <2> QED BY <1>t, <1>9, <2>2, <2>4 DEF CompressFails, Stays
<1>10. CASE Compress
  <2>1. /\ call \in CallState /\ TheSurface \in Surface /\ TaskContext \in Context
    BY <1>10, RunningCall DEF Compress, Accepted
  <2>2. Image(TheSurface, TaskContext) \in Picture
    BY <2>1, PictureType
  <2>3. bits' \in [Context -> Picture \union {NoImage}] /\ bits'[TaskContext] \in Picture
    BY <1>t, <1>10, <2>1, <2>2 DEF Compress
  <2>4. /\ call.next + 1 \in Nat \ {0}
        /\ Append(call.images, bits'[TaskContext]) \in Seq(Picture)
    BY <2>1, <2>3, AppendProperties DEF CallState
  <2>5. call' = [call EXCEPT !.next = @ + 1, !.images = Append(@, bits'[TaskContext])]
    BY <1>10 DEF Compress
  <2>6. call' \in CallState
    BY <2>1, <2>4, <2>5 DEF CallState
  <2> QED BY <1>t, <1>10, <2>3, <2>6 DEF Compress, Stays
<1>11. CASE Return
  BY <1>t, <1>11 DEF Return
<1>12. ASSUME NEW e \in Encoder, NEW c \in Context, RunThrows(e, c)
       PROVE  JpegTypeOK'
  BY <1>t, <1>12 DEF RunThrows
<1> QED BY <1>1, <1>2, <1>3, <1>4, <1>5, <1>6, <1>7, <1>8, <1>9, <1>10, <1>11, <1>12
       DEF Next

-----------------------------------------------------------------------------
(***************************************************************************)
(* References.  Who refers to an encoder changes only where Python makes   *)
(* or drops something.                                                     *)
(***************************************************************************)

\* The destructor runs exactly for the encoders nothing refers to any more.
LEMMA DroppedHandles ==
  ASSUME JpegInv, handle' = HandlesAfter, \A e \in Encoder : Referenced(e)' => Referenced(e)
  PROVE  HandlesKept'
<1>1. \A e \in Encoder :
        handle'[e] = IF handle[e] = "made" /\ ~Referenced(e)' THEN "destroyed" ELSE handle[e]
  BY DEF HandlesAfter
<1>2. \A e \in Encoder : Referenced(e) <=> handle[e] = "made"
  BY DEF JpegInv, HandlesKept
<1> QED BY <1>1, <1>2, Zenon DEF HandlesKept

LEMMA SameReferences ==
  ASSUME JpegInv, UNCHANGED <<held, context, abandoned, handle>>
  PROVE  HandlesKept'
BY DEF JpegInv, HandlesKept, Referenced, KeepsEncoder, Alive

LEMMA HandlesStep == ASSUME JpegInv, [Next]_vars PROVE HandlesKept'
<1>t. JpegTypeOK /\ HandlesKept
  BY DEF JpegInv
<1> USE DEF JpegTypeOK
<1>1. CASE UNCHANGED vars
  BY <1>1, SameReferences DEF vars
<1>2. ASSUME NEW e \in Encoder, NewEncoder(e) PROVE HandlesKept'
  <2>1. CASE UNCHANGED <<held, handle>>
    BY <1>2, <2>1, SameReferences DEF NewEncoder
  <2>2. CASE held' = held \union {e} /\ handle' = [handle EXCEPT ![e] = "made"]
    BY <1>t, <1>2, <2>2 DEF NewEncoder, HandlesKept, Referenced, KeepsEncoder, Alive
  <2> QED BY <1>2, <2>1, <2>2 DEF NewEncoder
<1>3. ASSUME NEW e \in Encoder, DropEncoder(e) PROVE HandlesKept'
  <2>1. \A d \in Encoder : Referenced(d)' => Referenced(d)
    BY <1>3 DEF DropEncoder, Referenced, KeepsEncoder, Alive
  <2> QED BY <1>3, <2>1, DroppedHandles DEF DropEncoder
<1>4. ASSUME NEW e \in Encoder, NEW c \in Context, NEW format \in AskedFormat,
             NewContext(e, c, format)
      PROVE  HandlesKept'
  <2>1. /\ e \in held /\ c \notin Alive
        /\ context' = [context EXCEPT ![c] = [enc |-> e, format |-> format]]
        /\ UNCHANGED <<held, handle, abandoned>>
    BY <1>4 DEF NewContext
  <2>2. \A d \in Encoder : Referenced(d)' <=> Referenced(d)
    <3>1. ASSUME NEW d \in Encoder, NEW k \in Context
          PROVE  /\ k # c => (KeepsEncoder(k, d)' <=> KeepsEncoder(k, d))
                 /\ ~KeepsEncoder(c, d) /\ (KeepsEncoder(c, d)' => d = e)
      BY <1>t, <2>1 DEF KeepsEncoder, Alive
    <3> QED BY <2>1, <3>1 DEF Referenced
  <2> QED BY <1>t, <2>1, <2>2 DEF HandlesKept
<1>5. ASSUME NEW e \in Encoder, NEW format \in AskedFormat, NewContextThrows(e, format)
      PROVE  HandlesKept'
  <2>1. PICK created : abandoned' = abandoned \union {[enc |-> e, created |-> created]}
    BY <1>5 DEF NewContextThrows
  <2>2. e \in held /\ UNCHANGED <<held, handle, context>>
    BY <1>5 DEF NewContextThrows
  <2>3. \A d \in Encoder : Referenced(d)' <=> Referenced(d)
    BY <2>1, <2>2 DEF Referenced, KeepsEncoder, Alive
  <2> QED BY <1>t, <2>2, <2>3 DEF HandlesKept
<1>6. ASSUME NEW c \in Context, DropContext(c) PROVE HandlesKept'
  <2>1. \A d \in Encoder : Referenced(d)' => Referenced(d)
    BY <1>t, <1>6 DEF DropContext, Referenced, KeepsEncoder, Alive
  <2> QED BY <1>6, <2>1, DroppedHandles DEF DropContext
<1>7. ASSUME NEW e \in Encoder, NEW c \in Context, NEW surfaces \in Lists, Run(e, c, surfaces)
      PROVE  HandlesKept'
  BY <1>7, SameReferences DEF Run
<1>8. CASE Refuse
  BY <1>8, SameReferences DEF Refuse, Stays
<1>9. CASE CompressFails
  BY <1>9, SameReferences DEF CompressFails, Stays
<1>10. CASE Compress
  BY <1>10, SameReferences DEF Compress, Stays
<1>11. CASE Return
  BY <1>11, SameReferences DEF Return
<1>12. ASSUME NEW e \in Encoder, NEW c \in Context, RunThrows(e, c)
       PROVE  HandlesKept'
  BY <1>12, SameReferences DEF RunThrows
<1> QED BY <1>1, <1>2, <1>3, <1>4, <1>5, <1>6, <1>7, <1>8, <1>9, <1>10, <1>11, <1>12
       DEF Next

-----------------------------------------------------------------------------
(***************************************************************************)
(* The call in progress.                                                   *)
(***************************************************************************)

\* While a call runs nothing is dropped and the task keeps its context.
LEMMA SameCall ==
  ASSUME JpegInv, UNCHANGED <<held, context, m_jpegContext>>,
         call' # NoCall => call # NoCall /\ call'.enc = call.enc
  PROVE  CallOnLiving'
BY DEF JpegInv, CallOnLiving, TaskContext, Alive

LEMMA NoCallNow ==
  ASSUME call' = NoCall PROVE CallOnLiving' /\ CallInOrder'
BY DEF CallOnLiving, CallInOrder

LEMMA CallStep == ASSUME JpegInv, [Next]_vars PROVE CallOnLiving' /\ CallInOrder'
<1>t. JpegTypeOK /\ CallOnLiving /\ CallInOrder
  BY DEF JpegInv
<1>1. CASE UNCHANGED vars
  BY <1>t, <1>1 DEF vars, CallOnLiving, CallInOrder, TaskContext, Alive
<1>2. ASSUME NEW e \in Encoder, NewEncoder(e) \/ DropEncoder(e)
      PROVE  CallOnLiving' /\ CallInOrder'
  BY <1>2, NoCallNow DEF NewEncoder, DropEncoder
<1>3. ASSUME NEW e \in Encoder, NEW c \in Context, NEW format \in AskedFormat,
             NewContext(e, c, format)
      PROVE  CallOnLiving' /\ CallInOrder'
  BY <1>3, NoCallNow DEF NewContext
<1>4. ASSUME NEW e \in Encoder, NEW format \in AskedFormat, NewContextThrows(e, format)
      PROVE  CallOnLiving' /\ CallInOrder'
  BY <1>4, NoCallNow DEF NewContextThrows
<1>5. ASSUME NEW c \in Context, DropContext(c) PROVE CallOnLiving' /\ CallInOrder'
  BY <1>5, NoCallNow DEF DropContext
<1>6. ASSUME NEW e \in Encoder, NEW c \in Context, NEW surfaces \in Lists, Run(e, c, surfaces)
      PROVE  CallOnLiving' /\ CallInOrder'
  <2>1. CallOnLiving'
    BY <1>t, <1>6 DEF Run, JpegTypeOK, CallOnLiving, TaskContext, Alive
  <2>2. surfaces \in Seq(Surface)
    BY ListsAreSequences
  <2>3. call'.next = 1 /\ call'.images = <<>> /\ call'.surfaces = surfaces
        /\ call'.info = "SUCCESS"
    BY <1>6 DEF Run
  <2>4. ImagesOf(<<>>, surfaces)
    BY <2>2, LenProperties DEF ImagesOf
  <2> QED BY <2>1, <2>3, <2>4 DEF CallInOrder
<1>7. ASSUME NEW info, MoreSurfaces, Stop(info), Stays PROVE CallOnLiving' /\ CallInOrder'
  <2>1. call \in CallState /\ call # NoCall
    BY <1>7, RunningCall
  <2>2. /\ call'.enc = call.enc /\ call'.next = call.next
        /\ call'.images = call.images /\ call'.surfaces = call.surfaces
    BY <1>7, <2>1 DEF Stop, CallState
  <2>3. CallOnLiving'
    BY <1>7, <2>1, <2>2, SameCall DEF Stays
  <2>4. call.next <= Len(call.surfaces)
    BY <1>7 DEF MoreSurfaces
  <2> QED BY <1>t, <2>1, <2>2, <2>3, <2>4 DEF CallInOrder
<1>8. CASE Refuse
  BY <1>7, <1>8 DEF Refuse
<1>9. CASE CompressFails
  BY <1>7, <1>9 DEF CompressFails, Accepted
<1>10. CASE Compress
  <2>1. /\ call \in CallState /\ call # NoCall /\ TheSurface \in Surface
        /\ TaskContext \in Context
    BY <1>10, RunningCall DEF Compress, Accepted
  <2>2. /\ call.images \in Seq(Picture) /\ call.surfaces \in Seq(Surface)
        /\ call.next = Len(call.images) + 1 /\ call.next <= Len(call.surfaces)
        /\ ImagesOf(call.images, call.surfaces)
    BY <1>t, <1>10, <2>1 DEF Compress, Accepted, MoreSurfaces, CallState, CallInOrder
  <2>3. bits'[TaskContext] = Image(TheSurface, TaskContext)
    BY <1>t, <1>10, <2>1 DEF Compress, JpegTypeOK
  <2>4. bits'[TaskContext] \in Picture /\ bits'[TaskContext] = OwnPicture(TheSurface)
    BY <1>10, <2>1, <2>3, PictureType, FittingPicture DEF Compress, Accepted, FitsContext
  <2>5. TheSurface = call.surfaces[Len(call.images) + 1]
    BY <2>2 DEF TheSurface
  <2>6. /\ Len(Append(call.images, bits'[TaskContext])) = Len(call.images) + 1
        /\ ImagesOf(Append(call.images, bits'[TaskContext]), call.surfaces)
    BY <2>2, <2>4, <2>5, OneMoreImage
  <2>7. call' = [call EXCEPT !.next = @ + 1, !.images = Append(@, bits'[TaskContext])]
    BY <1>10 DEF Compress
  <2>8. /\ call'.next = call.next + 1 /\ call'.enc = call.enc
        /\ call'.images = Append(call.images, bits'[TaskContext])
        /\ call'.surfaces = call.surfaces /\ call'.info = call.info
    BY <2>1, <2>7 DEF CallState
  <2>9. CallOnLiving'
    BY <1>10, <2>1, <2>8, SameCall DEF Compress, Stays
  <2>10. call.info = "SUCCESS"
    BY <1>10 DEF Compress, Accepted, MoreSurfaces
  <2> QED BY <2>2, <2>6, <2>8, <2>9, <2>10 DEF CallInOrder
<1>11. CASE Return
  BY <1>11, NoCallNow DEF Return
<1>12. ASSUME NEW e \in Encoder, NEW c \in Context, RunThrows(e, c)
       PROVE  CallOnLiving' /\ CallInOrder'
  BY <1>12, NoCallNow DEF RunThrows
<1> QED BY <1>1, <1>2, <1>3, <1>4, <1>5, <1>6, <1>8, <1>9, <1>10, <1>11, <1>12
       DEF Next

\* A call returns the images it has made, and drops them with FAIL, when at
\* least the surface that failed has none.
LEMMA ResultStep == ASSUME JpegInv, [Next]_vars PROVE ImagesOfTheirSurfaces'
<1>1. CASE UNCHANGED result
  BY <1>1 DEF JpegInv, ImagesOfTheirSurfaces
<1>2. CASE result' = NoCall
  BY <1>2 DEF ImagesOfTheirSurfaces
<1>3. CASE Return
  <2>1. call \in CallState /\ call # NoCall /\ CallInOrder
    BY <1>3 DEF JpegInv, JpegTypeOK, Return
  <2> DEFINE images == Returned(call.images, call.info)
  <2>2. /\ result'.images = images /\ result'.surfaces = call.surfaces
        /\ result'.info = call.info
    BY <1>3 DEF Return
  <2>3. /\ call.images \in Seq(Picture) /\ call.surfaces \in Seq(Surface)
        /\ call.next = Len(call.images) + 1
        /\ ImagesOf(call.images, call.surfaces)
        /\ call.info # "SUCCESS" => call.next <= Len(call.surfaces)
        /\ call.info = "SUCCESS" => ~(call.next <= Len(call.surfaces))
        /\ call.info \in {"SUCCESS", "FAIL", "INVALID_INPUT"}
    BY <1>3, <2>1 DEF CallState, CallInOrder, Return, MoreSurfaces
  <2>4. Len(call.images) \in Nat /\ Len(call.surfaces) \in Nat
    BY <2>3, LenProperties
  <2>5. Len(call.images) <= Len(call.surfaces)
    BY <2>3 DEF ImagesOf
  <2>6. /\ Len(images) \in Nat /\ Len(images) <= Len(call.surfaces)
        /\ call.info = "SUCCESS" <=> Len(images) = Len(call.surfaces)
        /\ call.info = "FAIL" => Len(images) = 0
    <3>1. CASE call.info = "FAIL"
      BY <2>3, <2>4, <3>1 DEF Returned
    <3>2. CASE call.info # "FAIL"
      BY <2>3, <2>4, <2>5, <3>2 DEF Returned
    <3> QED BY <3>1, <3>2
  <2>7. \A i \in 1 .. Len(images) : images[i] = OwnPicture(call.surfaces[i])
    <3>1. CASE call.info = "FAIL"
      BY <2>6, <3>1
    <3>2. CASE call.info # "FAIL"
      BY <2>3, <3>2 DEF Returned, ImagesOf
    <3> QED BY <3>1, <3>2
  <2> QED BY <2>2, <2>6, <2>7 DEF ImagesOfTheirSurfaces, OwnPicture
<1> QED
  BY <1>1, <1>2, <1>3
     DEF Next, vars, NewEncoder, DropEncoder, NewContext, NewContextThrows, DropContext, Run,
         RunThrows, Refuse, CompressFails, Compress, Stays

-----------------------------------------------------------------------------
LEMMA JpegInvariant == Spec => []JpegInv
<1>1. JpegInv /\ [Next]_vars => JpegInv'
  BY JpegTypeStep, HandlesStep, CallStep, ResultStep DEF JpegInv
<1> QED BY InitJpegInv, <1>1, PTL DEF Spec

(* A handle of nvJPEG exists exactly as long as Python holds its encoder,  *)
(* or a context made from it is alive, or a constructor that threw has     *)
(* left its reference behind: NvJpegEncodeFrame goes with its last         *)
(* shared_ptr (PyNvJpegEncoder, NvJpegEncodeContext).                      *)
THEOREM HandlesLiveWithReferences == Spec => []HandlesKept
<1>1. JpegInv => HandlesKept
  BY DEF JpegInv
<1> QED BY JpegInvariant, <1>1, PTL

(* No state of nvJPEG outlives its handle, and a call in progress works    *)
(* with a context and handles that exist, in whichever order Python drops  *)
(* its objects and whichever encoder it gives a context to.                *)
THEOREM StatesKeepHandles == Spec => []StatesHaveHandles
<1>1. JpegInv => StatesHaveHandles
  <2> SUFFICES ASSUME JpegInv PROVE StatesHaveHandles
    OBVIOUS
  <2>1. \A c \in Alive : handle[context[c].enc] = "made"
    BY DEF JpegInv, JpegTypeOK, HandlesKept, Referenced, KeepsEncoder, Alive, ContextState
  <2>2. ASSUME call # NoCall
        PROVE  TaskContext \in Alive /\ handle[call.enc] = "made"
    BY <2>2 DEF JpegInv, JpegTypeOK, HandlesKept, Referenced, CallOnLiving
  <2> QED BY <2>1, <2>2 DEF StatesHaveHandles
<1> QED BY JpegInvariant, <1>1, PTL

(* The i-th image Run returns is of the i-th surface of the list and as    *)
(* its own format says, for lists of any length, contexts used by several  *)
(* encoders and errors anywhere; SUCCESS brings all of them, FAIL none     *)
(* (PyNvJpegEncoder::CompressImpl).                                        *)
THEOREM ImagesKeepTheirSurfaces == Spec => []ImagesOfTheirSurfaces
<1>1. JpegInv => ImagesOfTheirSurfaces
  BY DEF JpegInv
<1> QED BY JpegInvariant, <1>1, PTL

=============================================================================
