-------------------------- MODULE CudaResMgr_proofs --------------------------
(***************************************************************************)
(* What the two locks of CudaResMgr guarantee for every number of threads  *)
(* and GPUs and any failures of the CUDA calls.                            *)
(***************************************************************************)
EXTENDS CudaResMgr, TLAPS

(***************************************************************************)
(* The inductive invariant.  What a thread decided under a lock (the       *)
(* context is missing, the stream is missing) stays true while it holds    *)
(* the lock, and GetStream's lock is held around the whole call of GetCtx. *)
(***************************************************************************)
CallsOK ==
  \A t \in Thread :
    /\ pc[t] \in {"lockStr", "stream", "create"} => op[t] = "GetStream"
    /\ pc[t] # "idle" => op[t] \in Op
    /\ pc[t] \in {"retain", "gotCtx", "create"} => idx[t] \in Gpu
ContextsCounted == \A i \in Gpu : retained[i] = IF g_Contexts[i] THEN 1 ELSE 0
ContextMissing == \A t \in Thread : pc[t] = "retain" => ~g_Contexts[idx[t]]
StreamMissing ==
  \A t \in Thread : InGetStream(t) /\ pc[t] # "stream" => idx[t] \in Gpu /\ g_Streams[idx[t]] = Null
StreamsKept == \A p \in streams : g_Streams[p[1]] = p[2]

MgrInv ==
  /\ MgrTypeOK /\ CallsOK /\ LocksHeld
  /\ ContextsCounted /\ ContextMissing /\ StreamMissing /\ StreamsKept

\* No thread is in any part of a call at the start.
LEMMA InitInv == MgrInit => MgrInv
BY ResMgrAssumption
   DEF MgrInit, MgrInv, MgrTypeOK, CallsOK, LocksHeld, ContextsCounted, ContextMissing,
       StreamMissing, StreamsKept, InGetCtx, InGetStream, Where, Op

\* What every kind of call's end does to the locks of all threads.
LEMMA EndKeeps ==
  ASSUME MgrInv, NEW t \in Thread, End(t), pc[t] # "lockCtx", pc[t] # "lockStr",
         UNCHANGED <<g_Contexts, retained>>
  PROVE  /\ CallsOK' /\ LocksHeld' /\ ContextMissing'
         /\ gCtxMutex' \in Thread \cup {Nobody} /\ gStrMutex' \in Thread \cup {Nobody}
         /\ pc' \in [Thread -> Where] /\ op' \in [Thread -> Op \cup {"none"}]
         /\ idx' \in [Thread -> Gpu \cup {BadIndex}]
BY ResMgrAssumption
   DEF End, Goto, Released, MgrInv, MgrTypeOK, CallsOK, LocksHeld, ContextMissing, InGetCtx,
       InGetStream, Where, Op

-----------------------------------------------------------------------------
\* Every step keeps the invariant.
LEMMA NextInv == MgrInv /\ [MgrNext]_vars => MgrInv'
<1> USE ResMgrAssumption
         DEF MgrInv, MgrTypeOK, CallsOK, LocksHeld, ContextsCounted, ContextMissing,
             StreamMissing, StreamsKept, InGetCtx, InGetStream, Where, Op, Goto, made
<1> SUFFICES ASSUME MgrInv, [MgrNext]_vars PROVE MgrInv'
  OBVIOUS
<1>1. CASE UNCHANGED vars
  BY <1>1 DEF vars
<1>2. ASSUME NEW t \in Thread, NEW o \in Op, NEW i \in Gpu \cup {BadIndex}, Call(t, o, i)
      PROVE  MgrInv'
  BY <1>2 DEF Call
<1>3. ASSUME NEW t \in Thread, LockStr(t) PROVE MgrInv'
  BY <1>3 DEF LockStr, StrFree
<1>4. ASSUME NEW t \in Thread, End(t), UNCHANGED made,
             pc[t] # "lockCtx", pc[t] # "lockStr", failures' \in Nat
      PROVE  MgrInv'
  <2>1. StreamMissing'
    BY <1>4 DEF End
  <2> QED
    BY <1>4, <2>1, EndKeeps
<1>5. ASSUME NEW t \in Thread, NoSuchStream(t) \/ StreamKnown(t) PROVE MgrInv'
  BY <1>4, <1>5 DEF NoSuchStream, StreamKnown
<1>6. ASSUME NEW t \in Thread, NoSuchCtx(t) \/ GetCtxReturns(t) PROVE MgrInv'
  BY <1>4, <1>6 DEF NoSuchCtx, GetCtxReturns
<1>7. ASSUME NEW t \in Thread, RetainFails(t) \/ CreateStreamFails(t) PROVE MgrInv'
  BY <1>4, <1>7 DEF RetainFails, CreateStreamFails, CudaFails
<1>8. ASSUME NEW t \in Thread, StreamNeeded(t) PROVE MgrInv'
  BY <1>8 DEF StreamNeeded
<1>9. ASSUME NEW t \in Thread, LockCtx(t) PROVE MgrInv'
  BY <1>9 DEF LockCtx, CtxFree
<1>10. ASSUME NEW t \in Thread, CtxKnown(t) \/ CtxNeeded(t) PROVE MgrInv'
  <2>1. idx[t] \in Gpu /\ gCtxMutex = t /\ \A u \in Thread : u # t => ~InGetCtx(u)
    BY <1>10 DEF CtxKnown, CtxNeeded
  <2>2. PICK w \in {"gotCtx", "retain"} :
          Goto(t, w) /\ (w = "retain" => ~g_Contexts[idx[t]])
    BY <1>10 DEF CtxKnown, CtxNeeded
  <2>3. pc[t] = "ctx" /\ UNCHANGED <<made, gCtxMutex, gStrMutex, op, idx, failures>>
    BY <1>10 DEF CtxKnown, CtxNeeded
  <2>4. op[t] \in Op
    BY <2>1, <2>3
  <2>5. MgrTypeOK' /\ LocksHeld' /\ ContextsCounted' /\ StreamsKept'
    BY <2>1, <2>2, <2>3
  <2>6. CallsOK'
    BY <2>1, <2>2, <2>3, <2>4
  <2>7. ContextMissing'
    BY <2>1, <2>2, <2>3
  <2>8. StreamMissing'
    BY <2>1, <2>2, <2>3
  <2> QED
    BY <2>5, <2>6, <2>7, <2>8
<1>11. ASSUME NEW t \in Thread, Retain(t) PROVE MgrInv'
  <2>1. idx[t] \in Gpu /\ ~g_Contexts[idx[t]]
    BY <1>11 DEF Retain
  <2>2. \A u \in Thread : u # t => pc[u] # "retain"
    BY <1>11 DEF Retain
  <2>3. ContextsCounted' /\ ContextMissing'
    BY <1>11, <2>1, <2>2 DEF Retain
  <2>4. MgrTypeOK' /\ CallsOK' /\ LocksHeld'
    <3>1. MgrTypeOK'
      BY <1>11, <2>1 DEF Retain
    <3>2. CallsOK'
      BY <1>11, <2>1 DEF Retain
    <3>3. LocksHeld'
      BY <1>11, <2>1 DEF Retain
    <3> QED
      BY <3>1, <3>2, <3>3
  <2>5. StreamMissing' /\ StreamsKept'
    BY <1>11, <2>1 DEF Retain
  <2> QED
    BY <2>3, <2>4, <2>5
<1>12. ASSUME NEW t \in Thread, BackInGetStream(t) PROVE MgrInv'
  BY <1>12 DEF BackInGetStream, Released
<1>13. ASSUME NEW t \in Thread, CreateStream(t) PROVE MgrInv'
  <2>1. PICK str \in Stream : /\ g_Streams' = [g_Streams EXCEPT ![idx[t]] = str]
                              /\ streams' = streams \cup {<<idx[t], str>>}
    BY <1>13 DEF CreateStream
  <2>2. idx[t] \in Gpu /\ g_Streams[idx[t]] = Null
    BY <1>13 DEF CreateStream
  <2>3. StreamsKept'
    BY <2>1, <2>2
  <2>4. StreamMissing'
    BY <1>13, <2>1 DEF CreateStream, End
  <2>5. End(t) /\ pc[t] = "create" /\ UNCHANGED <<g_Contexts, retained, failures>>
    BY <1>13 DEF CreateStream
  <2> QED
    BY <2>1, <2>2, <2>3, <2>4, <2>5, EndKeeps
<1> QED
  BY <1>1, <1>2, <1>3, <1>5, <1>6, <1>7, <1>8, <1>9, <1>10, <1>11, <1>12, <1>13
     DEF MgrNext, Begin, Continue

\* The invariant holds in every behaviour.
LEMMA InvHolds == MgrSpec => []MgrInv
BY InitInv, NextInv, PTL DEF MgrSpec

-----------------------------------------------------------------------------
\* The state of CudaResMgr keeps its types.
THEOREM TypeCorrect == MgrSpec => []MgrTypeOK
<1>1. MgrInv => MgrTypeOK
  BY DEF MgrInv
<1> QED
  BY <1>1, InvHolds, PTL

\* Mutual exclusion: the threads in GetCtx or GetStream hold its lock, and
\* nobody else does, whatever the calls return or throw.
THEOREM LocksAreHeld == MgrSpec => []LocksHeld
<1>1. MgrInv => LocksHeld
  BY DEF MgrInv
<1> QED
  BY <1>1, InvHolds, PTL

\* No GPU's primary context is retained twice, however many threads ask.
THEOREM ContextRetainedOnce == MgrSpec => []RetainedOnce
<1>1. MgrInv => RetainedOnce
  BY DEF MgrInv, ContextsCounted, RetainedOnce
<1> QED
  BY <1>1, InvHolds, PTL

\* All threads share one stream per GPU, whatever failed before it was made.
THEOREM StreamCreatedOnce == MgrSpec => []OneStream
<1>1. MgrInv => OneStream
  BY DEF MgrInv, MgrTypeOK, StreamsKept, OneStream
<1> QED
  BY <1>1, InvHolds, PTL
=============================================================================
