------------------------------ MODULE Surfaces ------------------------------
(***************************************************************************)
(* Surfaces (TC/src/Surfaces.cpp, MemoryInterfaces.cpp) and the SurfacePlane *)
(* handles that Python gets of their planes (PySurface.cpp).  A surface    *)
(* keeps its planes in a std::vector.                                      *)
(***************************************************************************)
EXTENDS SurfacePlane

CONSTANTS
  Surface,   \* surface objects
  PlanesOf,  \* PlanesOf[s]: NumPlanes() of the format of s
  Handle     \* SurfacePlane objects on their own

SurfacePlaces(s) == {<<s, i>> : i \in 1 .. PlanesOf[s]}

ASSUME SurfacesAssumption ==
  /\ PlanesOf \in [Surface -> Nat \ {0}]
  /\ Handle \subseteq Place
  /\ \A s \in Surface : SurfacePlaces(s) \subseteq Place /\ SurfacePlaces(s) \cap Handle = {}

Made(s) == Exists(<<s, 1>>)
OwnMemory(s) == \A p \in SurfacePlaces(s) : plane[p].m_own_mem
EmptySurface(s) == \A p \in SurfacePlaces(s) : IsEmpty(plane[p])

(* The vector is filled one emplace_back at a time.  When it is full it    *)
(* reallocates and move-constructs the planes it holds; the constructors   *)
(* of surfaces with several planes reserve the room for all of them.       *)
BugNothingReserved(s) == 0
Reserved(s) == PlanesOf[s]
EmplacedPlane(s, i, m) ==
  IF \E full \in i .. PlanesOf[s] - 1 : full >= Reserved(s)
  THEN MoveConstructed(OwningPlane(m)) ELSE OwningPlane(m)

(* mem gives every plane of s an allocation of its own.  When one fails,   *)
(* the constructor throws and the planes made before it are destroyed: it  *)
(* leaves no trace.                                                        *)
Allocations(s) ==
  {mem \in [1 .. PlanesOf[s] -> Memory] :
     \A i, j \in 1 .. PlanesOf[s] : Unused(mem[i]) /\ (i # j => mem[i] # mem[j])}
FillSurface(s, objects) ==
  plane' = [p \in Place |-> IF p \in SurfacePlaces(s) THEN objects[p[2]] ELSE plane[p]]

-----------------------------------------------------------------------------
MakeSurface(s) ==
  /\ ~Made(s)
  /\ \E mem \in Allocations(s) : FillSurface(s, [i \in 1 .. PlanesOf[s] |-> EmplacedPlane(s, i, mem[i])])
  /\ owners' = owners \cup SurfacePlaces(s) /\ UNCHANGED foreign
MakeEmptySurface(s) ==
  /\ ~Made(s)
  /\ FillSurface(s, [i \in 1 .. PlanesOf[s] |-> BlankPlane]) /\ UNCHANGED <<foreign, owners>>
DeleteSurface(s) ==
  /\ Made(s)
  /\ FillSurface(s, [i \in 1 .. PlanesOf[s] |-> Absent])
  /\ owners' = owners \ SurfacePlaces(s) /\ UNCHANGED foreign

(* Surface::Clone: an empty surface gives an empty one, any other a copy   *)
(* in memory of its own.  If only some planes are empty it throws.         *)
Clone(s, t) ==
  /\ Made(s) /\ s # t /\ PlanesOf[s] = PlanesOf[t]
  /\ IF EmptySurface(s) THEN MakeEmptySurface(t)
     ELSE (\A p \in SurfacePlaces(s) : ~IsEmpty(plane[p])) /\ MakeSurface(t)

(* Surface.from_dlpack: an empty surface, updated with a temporary plane.  *)
(* Update refuses too few planes; its result is not looked at, so a        *)
(* surface with several planes just stays empty.                           *)
SurfaceFromDLPack(s, x) ==
  /\ ~Made(s) /\ x \in foreign
  /\ FillSurface(s, [i \in 1 .. PlanesOf[s] |->
                       IF PlanesOf[s] = 1 THEN Copied(PlaneOfTensor(x)) ELSE BlankPlane])
  /\ UNCHANGED <<foreign, owners>>

(* Surface::Update with the planes of the handles h.  A surface that owns  *)
(* its memory refuses, and so it does planes of another element size; all  *)
(* have the same here but blank ones, where it is zero.                    *)
BugUpdateOwner(s) == TRUE
UpdateAllowed(s) == ~OwnMemory(s)
ValidatePlanes(s, h) == \A i \in 1 .. PlanesOf[s] : Exists(h[i]) /\ plane[h[i]].sized
Update(s, h) ==
  /\ Made(s) /\ UpdateAllowed(s) /\ ValidatePlanes(s, h)
  /\ FillSurface(s, [i \in 1 .. PlanesOf[s] |-> CopyAssigned(<<s, i>>, h[i])])
  /\ UNCHANGED <<foreign, owners>>

(* Surface.Planes: handles are copies.                                     *)
GetPlane(h, s, i) == CopyConstruct(h, <<s, i>>)

-----------------------------------------------------------------------------
SurfaceSteps ==
  \E s \in Surface :
    \/ MakeSurface(s) \/ MakeEmptySurface(s) \/ DeleteSurface(s)
    \/ \E t \in Surface : Clone(s, t)
    \/ \E x \in Foreign : SurfaceFromDLPack(s, x)
    \/ \E h \in [1 .. PlanesOf[s] -> Handle] : Update(s, h)
    \/ \E h \in Handle, i \in 1 .. PlanesOf[s] : GetPlane(h, s, i)
HandleSteps ==
  \E p \in Handle :
    \/ Destroy(p)
    \/ \E m \in Memory : Construct(p, m)
    \/ \E q \in Handle : CopyConstruct(p, q) \/ CopyAssign(p, q) \/ MoveAssign(p, q)
SurfNext == SurfaceSteps \/ HandleSteps \/ \E x \in Foreign : ForeignFreed(x)
surfVars == <<plane, foreign, owners>>
SurfSpec == PlaneInit /\ [][SurfNext]_surfVars

-----------------------------------------------------------------------------
(* A surface is made or deleted as a whole, and owns all of its planes or  *)
(* none.                                                                   *)
SurfacesWhole ==
  \A s \in Surface :
    /\ \A p \in SurfacePlaces(s) : Exists(p) = Made(s)
    /\ Made(s) => \A p \in SurfacePlaces(s) : plane[p].m_own_mem = OwnMemory(s)

Shown(o) == IF FromDLPack(o) THEN o.m_ptr ELSE o.m_borrowed_gpu_mem

(* Updating a surface with planes that show live memory gives a surface    *)
(* that shows the same memory, also when the planes were taken from it.    *)
UpdateShowsPlanes ==
  [][\A s \in Surface : \A h \in [1 .. PlanesOf[s] -> Handle] :
       Update(s, h) /\ (\A i \in 1 .. PlanesOf[s] : IsValid(plane[h[i]]))
         => \A i \in 1 .. PlanesOf[s] : Shown(plane'[<<s, i>>]) = GpuMem(plane[h[i]])
    ]_surfVars
=============================================================================
