----------------------------- MODULE CudaStream -----------------------------
(***************************************************************************)
(* The CUDA stream that all tasks of a GPU share (CudaResMgr::GetStream):  *)
(* host threads enqueue work and events, the GPU performs them in order.   *)
(* A place is a component of a surface, or a part of a host array; what it *)
(* holds is a picture, Gray (a filled chroma channel), or Garbled.         *)
(***************************************************************************)
EXTENDS Integers, Sequences, FiniteSets

CONSTANTS Gray, Garbled

ASSUME StreamAssumption == Gray # Garbled

VARIABLES
  pending,   \* work and events enqueued and not yet performed
  content    \* what each place holds

streamVars == <<pending, content>>

Work(call, reads, writes) == [event |-> FALSE, call |-> call, reads |-> reads, writes |-> writes]
Event(call) == [event |-> TRUE, call |-> call, reads |-> {}, writes |-> {}]

PictureIn(places) ==
  LET seen == {content[p] : p \in places} \ {Gray}
  IN CASE seen = {} -> Gray
       [] Cardinality(seen) = 1 -> CHOOSE p \in seen : TRUE
       [] OTHER -> Garbled

Enqueue(entry) == pending' = Append(pending, entry)

IsPending(entry) == \E i \in DOMAIN pending : pending[i] = entry

Touched(places) ==
  \E i \in DOMAIN pending : (pending[i].reads \union pending[i].writes) \intersect places # {}

\* The GPU performs the oldest entry.
Perform ==
  /\ pending # <<>>
  /\ pending' = Tail(pending)
  /\ content' = [p \in DOMAIN content |->
                   IF p \in Head(pending).writes
                   THEN PictureIn(Head(pending).reads)
                   ELSE content[p]]
=============================================================================
