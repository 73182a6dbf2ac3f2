---------------------------- MODULE SurfacePlane ----------------------------
(***************************************************************************)
(* SurfacePlane (TC/src/SurfacePlane.cpp): who owns a chunk of GPU memory  *)
(* and who merely points to it.  An owner holds a shared_ptr to it, which  *)
(* nobody else holds, a borrower a weak_ptr, and a plane made of a DLPack  *)
(* tensor the raw pointer.  The C++ objects live at places; the operations *)
(* here give the value a place gets from one of the class's operations.    *)
(***************************************************************************)
EXTENDS Naturals

CONSTANTS
  Place,    \* where a SurfacePlane object may be
  Memory,   \* GPU allocations of cuMemAllocPitch
  Foreign,  \* GPU memory of other libraries, known by its raw pointer
  Null,     \* no memory
  Absent    \* no object at a place

VARIABLES
  plane,     \* plane[p]: the object at place p
  foreign,   \* the foreign memory still allocated
  owners     \* history: the places whose object should own memory

PlaneObject ==
  [m_own_mem : BOOLEAN, m_own_gpu_mem : Memory \cup {Null},
   m_borrowed_gpu_mem : Memory \cup {Null}, m_ptr : Foreign \cup {Null}, sized : BOOLEAN]

ASSUME MemoryAssumption ==
  Memory \cap Foreign = {} /\ Null \notin Memory \cup Foreign /\ Absent \notin PlaneObject

Exists(p) == plane[p] # Absent

(* A shared_ptr frees what it points to when no place holds it any more;   *)
(* Live is about the places other than those in without.                   *)
LiveWithout(m, without) ==
  \E p \in Place \ without : Exists(p) /\ plane[p].m_own_gpu_mem = m
Live(m) == LiveWithout(m, {})

(* The memory that a new allocation may be: none that a place refers to.   *)
Unused(m) ==
  \A p \in Place : Exists(p) => m \notin {plane[p].m_own_gpu_mem, plane[p].m_borrowed_gpu_mem}

-----------------------------------------------------------------------------
(* MakeBlank, and what the default constructor makes.                      *)
BlankPlane ==
  [m_own_mem |-> FALSE, m_own_gpu_mem |-> Null, m_borrowed_gpu_mem |-> Null,
   m_ptr |-> Null, sized |-> FALSE]

(* The constructors that allocate, and that wrap a DLPack tensor.          *)
OwningPlane(m) == [BlankPlane EXCEPT !.m_own_mem = TRUE, !.m_own_gpu_mem = m, !.sized = TRUE]
BugTensorOwned(x) == [BlankPlane EXCEPT !.m_own_mem = TRUE, !.m_own_gpu_mem = x, !.sized = TRUE]
PlaneOfTensor(x) == [BlankPlane EXCEPT !.m_ptr = x, !.sized = TRUE]

(* GpuMemImpl, read while the objects at the places in gone have already   *)
(* released their memory: a weak_ptr gives null once that was the owner.   *)
GpuMemImpl(o, gone) ==
  IF o.m_own_mem THEN o.m_own_gpu_mem
  ELSE IF o.m_borrowed_gpu_mem # Null /\ LiveWithout(o.m_borrowed_gpu_mem, gone)
       THEN o.m_borrowed_gpu_mem ELSE Null

FromDLPack(o) == o.m_ptr # Null
GpuMem(o) == IF FromDLPack(o) THEN o.m_ptr ELSE GpuMemImpl(o, {})
IsEmpty(o) == GpuMem(o) = Null
IsValid(o) == IF o.m_own_mem THEN o.m_own_gpu_mem # Null ELSE FromDLPack(o) \/ GpuMemImpl(o, {}) # Null

(* The copy constructor: a borrower of what the other owns or borrows.     *)
Copied(o) ==
  [m_own_mem |-> FALSE, m_own_gpu_mem |-> Null, m_borrowed_gpu_mem |-> GpuMemImpl(o, {}),
   m_ptr |-> o.m_ptr, sized |-> o.sized]

(* Copy assignment to place p blanks it before it reads the other, which   *)
(* may be the same object or borrow from it.                               *)
CopyAssigned(p, q) ==
  LET o == IF p = q THEN BlankPlane ELSE plane[q] IN
  [m_own_mem |-> FALSE, m_own_gpu_mem |-> Null, m_borrowed_gpu_mem |-> GpuMemImpl(o, {p}),
   m_ptr |-> o.m_ptr, sized |-> o.sized]

(* The move constructor tests its own m_own_mem, still FALSE, and not the  *)
(* other's: it borrows what the other, blanked next, owned.                *)
MoveConstructed(o) == Copied(o)

(* Move assignment to place p, blanked first: the ownership moves.         *)
MoveAssigned(p, q) ==
  LET o == IF p = q THEN BlankPlane ELSE plane[q] IN
  IF o.m_own_mem THEN [OwningPlane(o.m_own_gpu_mem) EXCEPT !.m_ptr = o.m_ptr]
  ELSE CopyAssigned(p, q)

-----------------------------------------------------------------------------
(* Steps of the objects at single places.  The history says who should own *)
(* memory: whoever allocated it, or what that was last moved to.           *)
PlaneInit == plane = [p \in Place |-> Absent] /\ foreign = Foreign /\ owners = {}
MovedOwners(p, q) == (owners \ {p, q}) \cup {r \in {p} : q \in owners /\ p # q}

Construct(p, m) ==
  /\ ~Exists(p) /\ Unused(m)
  /\ plane' = [plane EXCEPT ![p] = OwningPlane(m)]
  /\ owners' = owners \cup {p} /\ UNCHANGED foreign
CopyConstruct(p, q) ==
  /\ ~Exists(p) /\ Exists(q)
  /\ plane' = [plane EXCEPT ![p] = Copied(plane[q])]
  /\ UNCHANGED <<foreign, owners>>
CopyAssign(p, q) ==
  /\ Exists(p) /\ Exists(q)
  /\ plane' = [plane EXCEPT ![p] = CopyAssigned(p, q)]
  /\ owners' = owners \ {p} /\ UNCHANGED foreign
BugOtherKeepsOwnership(p, q) ==
  /\ Exists(p) /\ Exists(q)
  /\ plane' = [plane EXCEPT ![p] = MoveAssigned(p, q)]
  /\ owners' = MovedOwners(p, q) /\ UNCHANGED foreign
MoveAssign(p, q) ==
  /\ Exists(p) /\ Exists(q)
  /\ plane' = [plane EXCEPT ![p] = MoveAssigned(p, q), ![q] = BlankPlane]
  /\ owners' = MovedOwners(p, q) /\ UNCHANGED foreign
Destroy(p) ==
  /\ Exists(p)
  /\ plane' = [plane EXCEPT ![p] = Absent]
  /\ owners' = owners \ {p} /\ UNCHANGED foreign
ForeignFreed(x) ==
  /\ x \in foreign /\ foreign' = foreign \ {x}
  /\ UNCHANGED <<plane, owners>>

-----------------------------------------------------------------------------
(* The state keeps its types.                                              *)
PlaneTypeOK ==
  /\ plane \in [Place -> PlaneObject \cup {Absent}]
  /\ foreign \subseteq Foreign /\ owners \subseteq Place

(* Memory has one owner: no operation of the class makes two objects       *)
(* responsible for the same allocation.                                    *)
OneOwner ==
  \A p, q \in Place :
    Exists(p) /\ Exists(q) /\ plane[p].m_own_gpu_mem # Null
    /\ plane[p].m_own_gpu_mem = plane[q].m_own_gpu_mem => p = q

(* Ownership is never lost on the way: whatever was allocated by a         *)
(* constructor or moved to an object is owned by it until it is destroyed, *)
(* moved from or assigned to, as the comments on the class say.            *)
OwnersOwn == \A p \in owners : Exists(p) /\ plane[p].m_own_mem /\ IsValid(plane[p])
=============================================================================
