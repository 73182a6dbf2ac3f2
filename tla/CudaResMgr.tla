----------------------------- MODULE CudaResMgr -----------------------------
(***************************************************************************)
(* CudaResMgr (TC/src/CudaUtils.cpp): the process-wide contexts and        *)
(* streams, one of each per GPU, made by the first thread that asks.       *)
(* Python threads call it at the same time: most of VALI's calls release   *)
(* the interpreter lock.                                                   *)
(***************************************************************************)
EXTENDS Naturals

CONSTANTS
  Thread,
  Gpu,          \* the GPUs found by cuDeviceGetCount
  BadIndex,     \* an index that is not below the number of GPUs
  Stream,       \* CUDA streams, at least one for every GPU
  Null,         \* no stream
  Nobody,       \* no thread
  MaxFailures   \* bound on the failing CUDA calls

ASSUME ResMgrAssumption ==
  Nobody \notin Thread /\ BadIndex \notin Gpu /\ Null \notin Stream /\ MaxFailures \in Nat

Op == {"GetCtx", "GetStream"}
Where == {"idle", "lockStr", "stream", "lockCtx", "ctx", "retain", "gotCtx", "create"}

VARIABLES
  g_Contexts,  \* g_Contexts[i]: has the primary context been retained
  g_Streams,   \* g_Streams[i]: the stream, or Null
  gCtxMutex, gStrMutex,   \* the thread that holds the lock, or Nobody
  pc,          \* where thread t is; "idle" outside of a call
  op, idx,     \* the call of thread t
  retained,    \* history: retained[i] counts cuDevicePrimaryCtxRetain
  streams,     \* history: the streams created, as pairs of GPU and stream
  failures

vars == <<g_Contexts, g_Streams, gCtxMutex, gStrMutex, pc, op, idx, retained, streams, failures>>
made == <<g_Contexts, g_Streams, retained, streams>>

MgrInit ==
  /\ g_Contexts = [i \in Gpu |-> FALSE] /\ g_Streams = [i \in Gpu |-> Null]
  /\ gCtxMutex = Nobody /\ gStrMutex = Nobody
  /\ pc = [t \in Thread |-> "idle"]
  /\ op = [t \in Thread |-> "none"] /\ idx = [t \in Thread |-> BadIndex]
  /\ retained = [i \in Gpu |-> 0] /\ streams = {} /\ failures = 0

Goto(t, where) == pc' = [pc EXCEPT ![t] = where]

(* A call ends, by return or exception; its lock_guards release what it    *)
(* holds.                                                                  *)
BugKept(mutex, t) == mutex
Released(mutex, t) == IF mutex = t THEN Nobody ELSE mutex
End(t) ==
  /\ Goto(t, "idle") /\ op' = [op EXCEPT ![t] = "none"] /\ idx' = [idx EXCEPT ![t] = BadIndex]
  /\ gCtxMutex' = Released(gCtxMutex, t) /\ gStrMutex' = Released(gStrMutex, t)
CudaFails(t) ==
  /\ failures < MaxFailures /\ failures' = failures + 1
  /\ End(t)
  /\ UNCHANGED made

Call(t, o, i) ==
  /\ pc[t] = "idle"
  /\ op' = [op EXCEPT ![t] = o] /\ idx' = [idx EXCEPT ![t] = i]
  /\ Goto(t, IF o = "GetStream" THEN "lockStr" ELSE "lockCtx")
  /\ UNCHANGED <<made, gCtxMutex, gStrMutex, failures>>

-----------------------------------------------------------------------------
(* GetStream: under gStrMutex, an index out of range gives null, a stream  *)
(* made before is returned, else the context is asked for.                 *)
BugStreamUnlocked(t) == TRUE
StrFree(t) == gStrMutex = Nobody
LockStr(t) ==
  /\ pc[t] = "lockStr" /\ StrFree(t)
  /\ gStrMutex' = t /\ Goto(t, "stream")
  /\ UNCHANGED <<made, gCtxMutex, op, idx, failures>>
NoSuchStream(t) ==
  /\ pc[t] = "stream" /\ idx[t] = BadIndex
  /\ End(t)
  /\ UNCHANGED <<made, failures>>
StreamKnown(t) ==
  /\ pc[t] = "stream" /\ idx[t] # BadIndex /\ g_Streams[idx[t]] # Null
  /\ End(t)
  /\ UNCHANGED <<made, failures>>
StreamNeeded(t) ==
  /\ pc[t] = "stream" /\ idx[t] # BadIndex /\ g_Streams[idx[t]] = Null
  /\ Goto(t, "lockCtx")
  /\ UNCHANGED <<made, gCtxMutex, gStrMutex, op, idx, failures>>

(* GetCtx: under gCtxMutex, the primary context is retained once.          *)
BugContextUnlocked(t) == TRUE
BugContextAfterStream(t) == gCtxMutex = Nobody /\ gStrMutex = Nobody
CtxFree(t) == gCtxMutex = Nobody
LockCtx(t) ==
  /\ pc[t] = "lockCtx" /\ CtxFree(t)
  /\ gCtxMutex' = t /\ Goto(t, "ctx")
  /\ UNCHANGED <<made, gStrMutex, op, idx, failures>>
NoSuchCtx(t) ==
  /\ pc[t] = "ctx" /\ idx[t] = BadIndex
  /\ End(t)
  /\ UNCHANGED <<made, failures>>
CtxKnown(t) ==
  /\ pc[t] = "ctx" /\ idx[t] # BadIndex /\ g_Contexts[idx[t]]
  /\ Goto(t, "gotCtx")
  /\ UNCHANGED <<made, gCtxMutex, gStrMutex, op, idx, failures>>
CtxNeeded(t) ==
  /\ pc[t] = "ctx" /\ idx[t] # BadIndex /\ ~g_Contexts[idx[t]]
  /\ Goto(t, "retain")
  /\ UNCHANGED <<made, gCtxMutex, gStrMutex, op, idx, failures>>
Retain(t) ==
  /\ pc[t] = "retain"
  /\ g_Contexts' = [g_Contexts EXCEPT ![idx[t]] = TRUE]
  /\ retained' = [retained EXCEPT ![idx[t]] = @ + 1]
  /\ Goto(t, "gotCtx")
  /\ UNCHANGED <<g_Streams, streams, gCtxMutex, gStrMutex, op, idx, failures>>
RetainFails(t) == pc[t] = "retain" /\ CudaFails(t)

(* GetCtx returns: to the caller, or into GetStream.                       *)
GetCtxReturns(t) ==
  /\ pc[t] = "gotCtx" /\ op[t] = "GetCtx"
  /\ End(t)
  /\ UNCHANGED <<made, failures>>
BackInGetStream(t) ==
  /\ pc[t] = "gotCtx" /\ op[t] = "GetStream"
  /\ gCtxMutex' = Released(gCtxMutex, t) /\ Goto(t, "create")
  /\ UNCHANGED <<made, gStrMutex, op, idx, failures>>
CreateStream(t) ==
  /\ pc[t] = "create"
  /\ \E str \in {new \in Stream : \A i \in Gpu : <<i, new>> \notin streams} :
       /\ g_Streams' = [g_Streams EXCEPT ![idx[t]] = str]
       /\ streams' = streams \cup {<<idx[t], str>>}
  /\ End(t)
  /\ UNCHANGED <<g_Contexts, retained, failures>>
CreateStreamFails(t) == pc[t] = "create" /\ CudaFails(t)

-----------------------------------------------------------------------------
Begin(t) == \E o \in Op, i \in Gpu \cup {BadIndex} : Call(t, o, i)
Continue(t) ==
  \/ LockStr(t) \/ NoSuchStream(t) \/ StreamKnown(t) \/ StreamNeeded(t)
  \/ LockCtx(t) \/ NoSuchCtx(t) \/ CtxKnown(t) \/ CtxNeeded(t) \/ Retain(t) \/ RetainFails(t)
  \/ GetCtxReturns(t) \/ BackInGetStream(t) \/ CreateStream(t) \/ CreateStreamFails(t)
MgrNext == \E t \in Thread : Begin(t) \/ Continue(t)

(* Every thread is scheduled, and a mutex is not withheld from a thread    *)
(* for ever while it is released again and again.                          *)
MgrSpec ==
  /\ MgrInit /\ [][MgrNext]_vars
  /\ \A t \in Thread : WF_vars(Continue(t)) /\ SF_vars(LockStr(t)) /\ SF_vars(LockCtx(t))

-----------------------------------------------------------------------------
(* The state keeps its types.                                              *)
MgrTypeOK ==
  /\ g_Contexts \in [Gpu -> BOOLEAN] /\ g_Streams \in [Gpu -> Stream \cup {Null}]
  /\ gCtxMutex \in Thread \cup {Nobody} /\ gStrMutex \in Thread \cup {Nobody}
  /\ pc \in [Thread -> Where] /\ op \in [Thread -> Op \cup {"none"}] /\ idx \in [Thread -> Gpu \cup {BadIndex}]
  /\ retained \in [Gpu -> Nat] /\ streams \subseteq Gpu \X Stream /\ failures \in Nat

(* However the threads interleave, and whatever failed before, the primary *)
(* context of a GPU is retained at most once, so that the one release of   *)
(* the destructor is enough.                                               *)
RetainedOnce == \A i \in Gpu : retained[i] <= 1

(* All threads share one stream per GPU: none is created twice and lost.   *)
OneStream ==
  /\ \A p, q \in streams : p[1] = q[1] => p = q
  /\ \A p \in streams : g_Streams[p[1]] = p[2]

(* A thread holds a lock exactly while it is inside the part of a call that *)
(* the lock protects, GetStream's also around its call of GetCtx: no two   *)
(* threads are there at once, and no return or exception leaves it locked. *)
InGetCtx(t) == pc[t] \in {"ctx", "retain", "gotCtx"}
InGetStream(t) ==
  pc[t] \in {"stream", "create"} \/ (op[t] = "GetStream" /\ (pc[t] = "lockCtx" \/ InGetCtx(t)))
LocksHeld ==
  \A t \in Thread : (gCtxMutex = t <=> InGetCtx(t)) /\ (gStrMutex = t <=> InGetStream(t))

(* Every call of GetCtx and GetStream returns or throws: GetStream holds   *)
(* one lock while it asks for the other.                                   *)
EveryCallReturns == \A t \in Thread : pc[t] # "idle" ~> pc[t] = "idle"
=============================================================================
