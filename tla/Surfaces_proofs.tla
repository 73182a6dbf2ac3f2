---------------------------- MODULE Surfaces_proofs ----------------------------
(***************************************************************************)
(* GPU memory keeps exactly one owner for any number of surfaces, planes   *)
(* per surface, handles and allocations.                                   *)
(***************************************************************************)
EXTENDS Surfaces, TLAPS

(***************************************************************************)
(* The inductive invariant is the conjunction of the invariants themselves: *)
(* an update is refused to a surface that owns its planes, and because of  *)
(* SurfacesWhole it then reaches no plane that owns anything.              *)
(***************************************************************************)
SurfInv == PlaneTypeOK /\ OneOwner /\ OwnersOwn /\ SurfacesWhole

\* The objects that the class's operations make are objects of the class.
LEMMA ObjectsTyped ==
  /\ BlankPlane \in PlaneObject
  /\ \A m \in Memory : OwningPlane(m) \in PlaneObject
  /\ \A x \in Foreign : PlaneOfTensor(x) \in PlaneObject
  /\ \A o \in PlaneObject : Copied(o) \in PlaneObject
BY DEF BlankPlane, OwningPlane, PlaneOfTensor, Copied, PlaneObject, GpuMemImpl

\* An assigned object is one too; what a copy assignment gives owns nothing.
LEMMA AssignedTyped ==
  ASSUME PlaneTypeOK, NEW p \in Place, NEW q \in Place, Exists(q)
  PROVE  /\ CopyAssigned(p, q) \in PlaneObject /\ CopyAssigned(p, q).m_own_mem = FALSE
         /\ CopyAssigned(p, q).m_own_gpu_mem = Null
         /\ MoveAssigned(p, q) \in PlaneObject
<1> DEFINE o == IF p = q THEN BlankPlane ELSE plane[q]
<1>1. o \in PlaneObject
  BY ObjectsTyped DEF PlaneTypeOK, Exists
<1>2. GpuMemImpl(o, {p}) \in Memory \cup {Null}
  BY <1>1 DEF GpuMemImpl, PlaneObject
<1>3. CopyAssigned(p, q) =
        [m_own_mem |-> FALSE, m_own_gpu_mem |-> Null, m_borrowed_gpu_mem |-> GpuMemImpl(o, {p}),
         m_ptr |-> o.m_ptr, sized |-> o.sized]
  BY DEF CopyAssigned
<1>4. MoveAssigned(p, q) =
        IF o.m_own_mem THEN [OwningPlane(o.m_own_gpu_mem) EXCEPT !.m_ptr = o.m_ptr]
        ELSE CopyAssigned(p, q)
  BY DEF MoveAssigned
<1>5. CopyAssigned(p, q) \in PlaneObject /\ CopyAssigned(p, q).m_own_mem = FALSE
      /\ CopyAssigned(p, q).m_own_gpu_mem = Null
  <2> HIDE DEF o
  <2> QED
    BY <1>1, <1>2, <1>3 DEF PlaneObject
<1>6. MoveAssigned(p, q) \in PlaneObject
  <2> HIDE DEF o
  <2> QED
    BY <1>1, <1>4, <1>5 DEF PlaneObject, OwningPlane, BlankPlane
<1> QED
  BY <1>5, <1>6

\* A moved object owns what the other owned.
LEMMA MovedOwns ==
  ASSUME PlaneTypeOK, NEW p \in Place, NEW q \in Place, Exists(q), p # q
  PROVE  /\ MoveAssigned(p, q).m_own_mem = plane[q].m_own_mem
         /\ plane[q].m_own_mem => MoveAssigned(p, q).m_own_gpu_mem = plane[q].m_own_gpu_mem
         /\ ~plane[q].m_own_mem => MoveAssigned(p, q).m_own_gpu_mem = Null
<1>1. plane[q] \in PlaneObject
  BY DEF PlaneTypeOK, Exists
<1> QED
  BY <1>1, AssignedTyped DEF MoveAssigned, OwningPlane, BlankPlane, PlaneObject

\* Room is reserved for all planes, so none is moved while the vector fills.
LEMMA EmplacedOwns ==
  ASSUME NEW s \in Surface, NEW i \in 1 .. PlanesOf[s], NEW m \in Memory
  PROVE  EmplacedPlane(s, i, m) = OwningPlane(m)
<1>1. PlanesOf[s] \in Nat \ {0}
  BY SurfacesAssumption
<1>2. ~\E full \in i .. PlanesOf[s] - 1 : full >= PlanesOf[s]
  BY <1>1
<1> QED
  BY <1>2 DEF EmplacedPlane, Reserved

-----------------------------------------------------------------------------
\* Where surfaces keep their planes.
LEMMA PlacesOfSurface ==
  ASSUME NEW s \in Surface
  PROVE  /\ SurfacePlaces(s) \subseteq Place /\ <<s, 1>> \in SurfacePlaces(s)
         /\ SurfacePlaces(s) \cap Handle = {}
         /\ \A t \in Surface : t # s => SurfacePlaces(s) \cap SurfacePlaces(t) = {}
         /\ \A p \in SurfacePlaces(s) : p[2] \in 1 .. PlanesOf[s] /\ p = <<s, p[2]>>
<1>1. PlanesOf[s] \in Nat \ {0}
  BY SurfacesAssumption
<1>2. SurfacePlaces(s) \subseteq Place
  BY SurfacesAssumption
<1>3. <<s, 1>> \in SurfacePlaces(s)
  BY <1>1 DEF SurfacePlaces
<1>4. SurfacePlaces(s) \cap Handle = {}
  BY SurfacesAssumption
<1>5. \A p \in SurfacePlaces(s) : p[2] \in 1 .. PlanesOf[s] /\ p = <<s, p[2]>>
  BY DEF SurfacePlaces
<1>6. ASSUME NEW t \in Surface, t # s
      PROVE  SurfacePlaces(s) \cap SurfacePlaces(t) = {}
  BY <1>6 DEF SurfacePlaces
<1> QED
  BY <1>2, <1>3, <1>4, <1>5, <1>6

\* A surface that is filled alike stays whole, and so do the others.
LEMMA WholeAfterFill ==
  ASSUME SurfacesWhole, NEW s \in Surface, NEW own \in BOOLEAN,
         \A p \in Place \ SurfacePlaces(s) : plane'[p] = plane[p],
         \/ \A p \in SurfacePlaces(s) : plane'[p] = Absent
         \/ \A p \in SurfacePlaces(s) : plane'[p] # Absent /\ plane'[p].m_own_mem = own
  PROVE  SurfacesWhole'
<1> SUFFICES ASSUME NEW t \in Surface
             PROVE  /\ \A p \in SurfacePlaces(t) : Exists(p)' = Made(t)'
                    /\ Made(t)' => \A p \in SurfacePlaces(t) : plane'[p].m_own_mem = OwnMemory(t)'
  BY DEF SurfacesWhole, SurfacePlaces, Made, OwnMemory, Exists
<1>1. CASE t = s
  BY <1>1, PlacesOfSurface DEF Made, Exists, OwnMemory
<1>2. CASE t # s
  <2>1. \A p \in SurfacePlaces(t) : plane'[p] = plane[p]
    BY <1>2, PlacesOfSurface
  <2> QED
    BY <2>1, PlacesOfSurface DEF SurfacesWhole, Made, Exists, OwnMemory
<1> QED
  BY <1>1, <1>2

\* What is done to a handle leaves every surface whole.
LEMMA WholeAfterHandle ==
  ASSUME SurfacesWhole, \A p \in Place \ Handle : plane'[p] = plane[p]
  PROVE  SurfacesWhole'
<1> SUFFICES ASSUME NEW t \in Surface
             PROVE  /\ \A p \in SurfacePlaces(t) : Exists(p)' = Made(t)'
                    /\ Made(t)' => \A p \in SurfacePlaces(t) : plane'[p].m_own_mem = OwnMemory(t)'
  BY DEF SurfacesWhole, SurfacePlaces, Made, OwnMemory, Exists
<1>1. \A p \in SurfacePlaces(t) : plane'[p] = plane[p]
  BY PlacesOfSurface
<1> QED
  BY <1>1, PlacesOfSurface DEF SurfacesWhole, Made, Exists, OwnMemory

-----------------------------------------------------------------------------
\* A surface is made in memory that nobody else owns.
LEMMA MakeSurfaceInv ==
  ASSUME SurfInv, NEW s \in Surface, MakeSurface(s)
  PROVE  SurfInv'
<1>1. PICK mem \in Allocations(s) : FillSurface(s, [i \in 1 .. PlanesOf[s] |-> EmplacedPlane(s, i, mem[i])])
  BY DEF MakeSurface
<1>2. /\ mem \in [1 .. PlanesOf[s] -> Memory]
      /\ \A i, j \in 1 .. PlanesOf[s] : Unused(mem[i]) /\ (i # j => mem[i] # mem[j])
  BY DEF Allocations
<1>3. /\ \A p \in SurfacePlaces(s) : plane'[p] = EmplacedPlane(s, p[2], mem[p[2]])
      /\ \A p \in Place \ SurfacePlaces(s) : plane'[p] = plane[p]
      /\ plane' = [p \in Place |-> plane'[p]]
  BY <1>1, PlacesOfSurface DEF FillSurface
<1>4. \A p \in SurfacePlaces(s) :
        p[2] \in 1 .. PlanesOf[s] /\ p = <<s, p[2]>> /\ mem[p[2]] \in Memory
  <2> SUFFICES ASSUME NEW p \in SurfacePlaces(s)
               PROVE  p[2] \in 1 .. PlanesOf[s] /\ p = <<s, p[2]>> /\ mem[p[2]] \in Memory
    OBVIOUS
  <2>1. p[2] \in 1 .. PlanesOf[s] /\ p = <<s, p[2]>>
    BY PlacesOfSurface
  <2> QED
    BY <1>2, <2>1
<1>5. ASSUME NEW p \in SurfacePlaces(s)
      PROVE  /\ plane'[p] = OwningPlane(mem[p[2]])
             /\ plane'[p] \in PlaneObject /\ plane'[p] # Absent
             /\ plane'[p].m_own_mem /\ plane'[p].m_own_gpu_mem = mem[p[2]]
  <2>1. plane'[p] = OwningPlane(mem[p[2]])
    BY <1>3, <1>4, EmplacedOwns
  <2>2. OwningPlane(mem[p[2]]) \in PlaneObject
    BY <1>4, ObjectsTyped
  <2>3. OwningPlane(mem[p[2]]).m_own_mem /\ OwningPlane(mem[p[2]]).m_own_gpu_mem = mem[p[2]]
    BY DEF OwningPlane, BlankPlane
  <2> QED
    BY <2>1, <2>2, <2>3, MemoryAssumption
<1>6. PlaneTypeOK'
  BY <1>3, <1>5, PlacesOfSurface DEF SurfInv, PlaneTypeOK, MakeSurface
<1>7. OneOwner'
  <2> SUFFICES ASSUME NEW p \in Place, NEW q \in Place, Exists(p)', Exists(q)',
                      plane'[p].m_own_gpu_mem # Null,
                      plane'[p].m_own_gpu_mem = plane'[q].m_own_gpu_mem
               PROVE  p = q
    BY DEF OneOwner
  <2>1. \A r \in Place \ SurfacePlaces(s), u \in SurfacePlaces(s) :
          Exists(r)' => plane'[r].m_own_gpu_mem # plane'[u].m_own_gpu_mem
    <3> SUFFICES ASSUME NEW r \in Place \ SurfacePlaces(s), NEW u \in SurfacePlaces(s), Exists(r)'
                 PROVE  plane'[r].m_own_gpu_mem # mem[u[2]]
      BY <1>5
    <3>1. Unused(mem[u[2]])
      BY <1>2, <1>4
    <3> QED
      BY <1>3, <3>1 DEF Unused, Exists
  <2>2. CASE p \in SurfacePlaces(s) /\ q \in SurfacePlaces(s)
    <3>1. mem[p[2]] = mem[q[2]]
      BY <1>5, <2>2
    <3>2. p[2] = q[2]
      BY <1>2, <1>4, <2>2, <3>1
    <3> QED
      BY <1>4, <2>2, <3>2
  <2>3. CASE p \notin SurfacePlaces(s) /\ q \notin SurfacePlaces(s)
    BY <1>3, <2>3 DEF SurfInv, OneOwner, Exists
  <2> QED
    BY <2>1, <2>2, <2>3
<1>8. OwnersOwn'
  <2> SUFFICES ASSUME NEW p \in owners'
               PROVE  Exists(p)' /\ plane'[p].m_own_mem /\ IsValid(plane[p])'
    BY DEF OwnersOwn
  <2>1. CASE p \in SurfacePlaces(s)
    BY <1>4, <1>5, <2>1, MemoryAssumption DEF Exists, IsValid
  <2>2. CASE p \notin SurfacePlaces(s)
    <3>1. p \in owners /\ p \in Place /\ plane'[p] = plane[p]
      BY <1>3, <2>2 DEF SurfInv, PlaneTypeOK, MakeSurface
    <3> QED
      BY <3>1 DEF SurfInv, OwnersOwn, Exists, IsValid
  <2> QED
    BY <2>1, <2>2
<1>9. SurfacesWhole'
  BY <1>3, <1>5, WholeAfterFill DEF SurfInv
<1> QED
  BY <1>6, <1>7, <1>8, <1>9 DEF SurfInv

-----------------------------------------------------------------------------
\* Objects that own nothing may appear anywhere but at the places of owners.
LEMMA BorrowInv ==
  ASSUME SurfInv, plane' \in [Place -> PlaneObject \cup {Absent}], foreign' \subseteq Foreign,
         owners' \subseteq owners,
         \A p \in Place :
           \/ plane'[p] = plane[p]
           \/ p \notin owners' /\ (plane'[p] = Absent \/ plane'[p].m_own_gpu_mem = Null),
         SurfacesWhole'
  PROVE  SurfInv'
<1>1. PlaneTypeOK'
  BY DEF SurfInv, PlaneTypeOK
<1>2. OneOwner'
  BY DEF SurfInv, OneOwner, Exists
<1>3. OwnersOwn'
  <2> SUFFICES ASSUME NEW p \in owners'
               PROVE  Exists(p)' /\ plane'[p].m_own_mem /\ IsValid(plane[p])'
    BY DEF OwnersOwn
  <2>1. p \in Place /\ p \in owners /\ plane'[p] = plane[p]
    BY DEF SurfInv, PlaneTypeOK
  <2> QED
    BY <2>1 DEF SurfInv, OwnersOwn, Exists, IsValid
<1> QED
  BY <1>1, <1>2, <1>3 DEF SurfInv

\* A blank object and a copy own nothing.
LEMMA BorrowersOwnNothing ==
  /\ BlankPlane.m_own_gpu_mem = Null /\ BlankPlane.m_own_mem = FALSE
  /\ \A o \in PlaneObject : Copied(o).m_own_gpu_mem = Null /\ Copied(o).m_own_mem = FALSE
BY DEF BlankPlane, Copied

\* Making a surface without memory of its own.
LEMMA MakeEmptySurfaceInv ==
  ASSUME SurfInv, NEW s \in Surface, MakeEmptySurface(s)
  PROVE  SurfInv'
<1>1. /\ \A p \in SurfacePlaces(s) : plane'[p] = BlankPlane
      /\ \A p \in Place \ SurfacePlaces(s) : plane'[p] = plane[p]
      /\ plane' = [p \in Place |-> plane'[p]] /\ UNCHANGED <<foreign, owners>>
  BY PlacesOfSurface DEF MakeEmptySurface, FillSurface
<1>2. plane' \in [Place -> PlaneObject \cup {Absent}]
  BY <1>1, ObjectsTyped DEF SurfInv, PlaneTypeOK
<1>3. SurfacesWhole'
  <2>1. \A p \in SurfacePlaces(s) : plane'[p] # Absent /\ plane'[p].m_own_mem = FALSE
    BY <1>1, BorrowersOwnNothing, ObjectsTyped, MemoryAssumption
  <2> QED
    BY <1>1, <2>1, WholeAfterFill DEF SurfInv
<1>4. \A p \in SurfacePlaces(s) : p \notin owners
  BY PlacesOfSurface DEF SurfInv, SurfacesWhole, OwnersOwn, MakeEmptySurface, Made, Exists
<1> QED
  BY <1>1, <1>2, <1>3, <1>4, BorrowersOwnNothing, BorrowInv DEF SurfInv, PlaneTypeOK

\* Deleting a surface.
LEMMA DeleteSurfaceInv ==
  ASSUME SurfInv, NEW s \in Surface, DeleteSurface(s)
  PROVE  SurfInv'
<1>1. /\ \A p \in SurfacePlaces(s) : plane'[p] = Absent
      /\ \A p \in Place \ SurfacePlaces(s) : plane'[p] = plane[p]
      /\ plane' = [p \in Place |-> plane'[p]] /\ owners' = owners \ SurfacePlaces(s)
      /\ UNCHANGED foreign
  BY PlacesOfSurface DEF DeleteSurface, FillSurface
<1>2. plane' \in [Place -> PlaneObject \cup {Absent}]
  BY <1>1 DEF SurfInv, PlaneTypeOK
<1>3. SurfacesWhole'
  BY <1>1, WholeAfterFill DEF SurfInv
<1> QED
  BY <1>1, <1>2, <1>3, BorrowInv DEF SurfInv, PlaneTypeOK

\* Making a surface of a DLPack tensor.
LEMMA SurfaceFromDLPackInv ==
  ASSUME SurfInv, NEW s \in Surface, NEW x \in Foreign, SurfaceFromDLPack(s, x)
  PROVE  SurfInv'
<1> DEFINE o == IF PlanesOf[s] = 1 THEN Copied(PlaneOfTensor(x)) ELSE BlankPlane
<1>1. o \in PlaneObject /\ o # Absent /\ o.m_own_gpu_mem = Null /\ o.m_own_mem = FALSE
  BY ObjectsTyped, BorrowersOwnNothing, MemoryAssumption
<1>2. /\ \A p \in SurfacePlaces(s) : plane'[p] = o
      /\ \A p \in Place \ SurfacePlaces(s) : plane'[p] = plane[p]
      /\ plane' = [p \in Place |-> plane'[p]] /\ UNCHANGED <<foreign, owners>>
  BY PlacesOfSurface DEF SurfaceFromDLPack, FillSurface
<1>3. plane' \in [Place -> PlaneObject \cup {Absent}]
  BY <1>1, <1>2 DEF SurfInv, PlaneTypeOK
<1>4. SurfacesWhole'
  <2>1. \A p \in SurfacePlaces(s) : plane'[p] # Absent /\ plane'[p].m_own_mem = FALSE
    BY <1>1, <1>2
  <2> QED
    BY <1>1, <1>2, <2>1, WholeAfterFill DEF SurfInv
<1>5. \A p \in SurfacePlaces(s) : p \notin owners
  BY PlacesOfSurface DEF SurfInv, SurfacesWhole, OwnersOwn, SurfaceFromDLPack, Made, Exists
<1> QED
  BY <1>1, <1>2, <1>3, <1>4, <1>5, BorrowInv DEF SurfInv, PlaneTypeOK

\* Updating a surface, which owns none of its planes.
LEMMA UpdateInv ==
  ASSUME SurfInv, NEW s \in Surface, NEW h \in [1 .. PlanesOf[s] -> Handle], Update(s, h)
  PROVE  SurfInv'
<1>1. /\ \A p \in SurfacePlaces(s) : plane'[p] = CopyAssigned(<<s, p[2]>>, h[p[2]])
      /\ \A p \in Place \ SurfacePlaces(s) : plane'[p] = plane[p]
      /\ plane' = [p \in Place |-> plane'[p]] /\ UNCHANGED <<foreign, owners>>
  BY PlacesOfSurface DEF Update, FillSurface
<1>2. ASSUME NEW p \in SurfacePlaces(s)
      PROVE  /\ plane'[p] \in PlaneObject /\ plane'[p] # Absent
             /\ plane'[p].m_own_mem = FALSE /\ plane'[p].m_own_gpu_mem = Null
  <2>1. p \in Place /\ p = <<s, p[2]>> /\ p[2] \in 1 .. PlanesOf[s]
    BY PlacesOfSurface
  <2>2. h[p[2]] \in Handle /\ Exists(h[p[2]])
    BY <2>1 DEF Update, ValidatePlanes
  <2>3. h[p[2]] \in Place
    BY <2>2, SurfacesAssumption
  <2>4. plane'[p] = CopyAssigned(p, h[p[2]])
    BY <1>1, <2>1
  <2>5. PlaneTypeOK
    BY DEF SurfInv
  <2>6. /\ CopyAssigned(p, h[p[2]]) \in PlaneObject /\ CopyAssigned(p, h[p[2]]).m_own_mem = FALSE
        /\ CopyAssigned(p, h[p[2]]).m_own_gpu_mem = Null
    BY <2>1, <2>2, <2>3, <2>5, AssignedTyped
  <2> QED
    BY <2>4, <2>6, MemoryAssumption
<1>3. plane' \in [Place -> PlaneObject \cup {Absent}]
  BY <1>1, <1>2 DEF SurfInv, PlaneTypeOK
<1>4. SurfacesWhole'
  <2>1. \A p \in SurfacePlaces(s) : plane'[p] # Absent /\ plane'[p].m_own_mem = FALSE
    BY <1>1, <1>2
  <2> QED
    BY <1>1, <1>2, <2>1, WholeAfterFill DEF SurfInv
<1>5. \A p \in SurfacePlaces(s) : p \notin owners
  <2>1. \A p \in SurfacePlaces(s) : ~plane[p].m_own_mem
    <3>1. ~OwnMemory(s) /\ \A p \in SurfacePlaces(s) : plane[p].m_own_mem = OwnMemory(s)
      BY DEF SurfInv, SurfacesWhole, Update, UpdateAllowed
    <3> QED
      BY <3>1
  <2> QED
    BY <2>1 DEF SurfInv, OwnersOwn
<1> QED
  BY <1>1, <1>2, <1>3, <1>4, <1>5, BorrowInv DEF SurfInv, PlaneTypeOK

-----------------------------------------------------------------------------
\* A handle that allocates.
LEMMA ConstructInv ==
  ASSUME SurfInv, NEW p \in Handle, NEW m \in Memory, Construct(p, m)
  PROVE  SurfInv'
<1>1. p \in Place /\ plane \in [Place -> PlaneObject \cup {Absent}]
  BY SurfacesAssumption DEF SurfInv, PlaneTypeOK
<1>2. plane'[p] = OwningPlane(m) /\ \A q \in Place : q # p => plane'[q] = plane[q]
  BY <1>1 DEF Construct
<1>3. /\ OwningPlane(m) \in PlaneObject /\ OwningPlane(m) # Absent
      /\ OwningPlane(m).m_own_mem = TRUE /\ OwningPlane(m).m_own_gpu_mem = m
  BY ObjectsTyped, MemoryAssumption DEF OwningPlane, BlankPlane
<1>4. PlaneTypeOK'
  BY <1>1, <1>3 DEF SurfInv, PlaneTypeOK, Construct
<1>5. OneOwner'
  <2>1. \A q \in Place : q # p /\ Exists(q) => plane[q].m_own_gpu_mem # m
    BY DEF Construct, Unused
  <2> QED
    BY <1>2, <1>3, <2>1 DEF SurfInv, OneOwner, Exists
<1>6. OwnersOwn'
  <2> SUFFICES ASSUME NEW q \in owners'
               PROVE  Exists(q)' /\ plane'[q].m_own_mem /\ IsValid(plane[q])'
    BY DEF OwnersOwn
  <2>1. CASE q = p
    BY <1>2, <1>3, <2>1, MemoryAssumption DEF Exists, IsValid
  <2>2. CASE q # p
    <3>1. q \in owners /\ q \in Place /\ plane'[q] = plane[q]
      BY <1>2, <2>2 DEF SurfInv, PlaneTypeOK, Construct
    <3> QED
      BY <3>1 DEF SurfInv, OwnersOwn, Exists, IsValid
  <2> QED
    BY <2>1, <2>2
<1>7. SurfacesWhole'
  BY <1>2, WholeAfterHandle DEF SurfInv
<1> QED
  BY <1>4, <1>5, <1>6, <1>7 DEF SurfInv

\* A handle that copies another, or a plane of a surface.
LEMMA CopyConstructInv ==
  ASSUME SurfInv, NEW p \in Handle, NEW q \in Place, CopyConstruct(p, q)
  PROVE  SurfInv'
<1>1. p \in Place /\ plane \in [Place -> PlaneObject \cup {Absent}]
  BY SurfacesAssumption DEF SurfInv, PlaneTypeOK
<1>2. plane'[p] = Copied(plane[q]) /\ \A r \in Place : r # p => plane'[r] = plane[r]
  BY <1>1 DEF CopyConstruct
<1>3. Copied(plane[q]) \in PlaneObject /\ Copied(plane[q]).m_own_gpu_mem = Null
  BY <1>1, ObjectsTyped, BorrowersOwnNothing DEF CopyConstruct, Exists
<1>4. p \notin owners
  BY DEF SurfInv, OwnersOwn, CopyConstruct
<1>5. plane' \in [Place -> PlaneObject \cup {Absent}]
  BY <1>1, <1>3 DEF CopyConstruct
<1>6. SurfacesWhole'
  BY <1>2, WholeAfterHandle DEF SurfInv
<1> QED
  BY <1>2, <1>3, <1>4, <1>5, <1>6, BorrowInv DEF SurfInv, PlaneTypeOK, CopyConstruct

\* A handle that is copied to another gives up what it owned.
LEMMA CopyAssignInv ==
  ASSUME SurfInv, NEW p \in Handle, NEW q \in Handle, CopyAssign(p, q)
  PROVE  SurfInv'
<1>1. p \in Place /\ q \in Place /\ plane \in [Place -> PlaneObject \cup {Absent}]
  BY SurfacesAssumption DEF SurfInv, PlaneTypeOK
<1>2. plane'[p] = CopyAssigned(p, q) /\ \A r \in Place : r # p => plane'[r] = plane[r]
  BY <1>1 DEF CopyAssign
<1>3. CopyAssigned(p, q) \in PlaneObject /\ CopyAssigned(p, q).m_own_gpu_mem = Null
  BY <1>1, AssignedTyped DEF SurfInv, CopyAssign
<1>4. plane' \in [Place -> PlaneObject \cup {Absent}]
  BY <1>1, <1>3 DEF CopyAssign
<1>5. SurfacesWhole'
  BY <1>2, WholeAfterHandle DEF SurfInv
<1> QED
  BY <1>2, <1>3, <1>4, <1>5, BorrowInv DEF SurfInv, PlaneTypeOK, CopyAssign

\* A handle that is moved to another hands its ownership over.
LEMMA MoveAssignInv ==
  ASSUME SurfInv, NEW p \in Handle, NEW q \in Handle, MoveAssign(p, q)
  PROVE  SurfInv'
<1>1. p \in Place /\ q \in Place /\ plane \in [Place -> PlaneObject \cup {Absent}]
  BY SurfacesAssumption DEF SurfInv, PlaneTypeOK
<1>2. /\ plane'[q] = BlankPlane /\ (p # q => plane'[p] = MoveAssigned(p, q))
      /\ \A r \in Place : r # p /\ r # q => plane'[r] = plane[r]
  BY <1>1 DEF MoveAssign
<1>3. MoveAssigned(p, q) \in PlaneObject /\ BlankPlane \in PlaneObject
  BY <1>1, AssignedTyped, ObjectsTyped DEF SurfInv, MoveAssign
<1>4. PlaneTypeOK'
  <2>1. plane' \in [Place -> PlaneObject \cup {Absent}]
    BY <1>1, <1>3 DEF MoveAssign
  <2>2. owners' \subseteq Place /\ foreign' \subseteq Foreign
    BY <1>1 DEF SurfInv, PlaneTypeOK, MoveAssign, MovedOwners
  <2> QED
    BY <2>1, <2>2 DEF PlaneTypeOK
<1>5. SurfacesWhole'
  BY <1>2, WholeAfterHandle DEF SurfInv
<1>6. CASE p = q
  <2>1. SurfInv'
    <3>1. owners' = owners \ {p}
      BY <1>6 DEF MoveAssign, MovedOwners
    <3> QED
      BY <1>2, <1>4, <1>5, <1>6, <3>1, BorrowersOwnNothing, BorrowInv DEF PlaneTypeOK
  <2> QED
    BY <2>1
<1>7. CASE p # q
  <2>1. /\ MoveAssigned(p, q).m_own_mem = plane[q].m_own_mem
        /\ plane[q].m_own_mem => MoveAssigned(p, q).m_own_gpu_mem = plane[q].m_own_gpu_mem
        /\ ~plane[q].m_own_mem => MoveAssigned(p, q).m_own_gpu_mem = Null
    BY <1>1, <1>7, MovedOwns DEF SurfInv, MoveAssign
  <2>2. Exists(q) /\ (Exists(p)' /\ Exists(q)')
    BY <1>2, <1>3, <1>7, MemoryAssumption DEF MoveAssign, Exists
  <2>3. OneOwner'
    <3> SUFFICES ASSUME NEW r \in Place, NEW u \in Place, Exists(r)', Exists(u)', r # u,
                        plane'[r].m_own_gpu_mem # Null
                 PROVE  plane'[r].m_own_gpu_mem # plane'[u].m_own_gpu_mem
      BY DEF OneOwner
    <3> DEFINE from(x) == IF x = p THEN q ELSE x
    <3>1. \A x \in Place : Exists(x)' /\ plane'[x].m_own_gpu_mem # Null
            => x # q /\ Exists(from(x)) /\ plane'[x].m_own_gpu_mem = plane[from(x)].m_own_gpu_mem
      BY <1>2, <1>7, <2>1, <2>2, BorrowersOwnNothing DEF Exists
    <3> QED
      BY <1>1, <3>1 DEF SurfInv, OneOwner
  <2>4. OwnersOwn'
    <3> SUFFICES ASSUME NEW r \in owners'
                 PROVE  Exists(r)' /\ plane'[r].m_own_mem /\ IsValid(plane[r])'
      BY DEF OwnersOwn
    <3>1. CASE r = p
      <4>1. q \in owners
        BY <3>1, <1>7 DEF MoveAssign, MovedOwners
      <4>2. plane[q].m_own_mem /\ plane[q].m_own_gpu_mem # Null
        BY <4>1 DEF SurfInv, OwnersOwn, IsValid
      <4> QED
        BY <1>2, <1>7, <2>1, <2>2, <3>1, <4>2 DEF IsValid
    <3>2. CASE r # p
      <4>1. r \in owners /\ r \in Place /\ plane'[r] = plane[r]
        BY <1>2, <3>2 DEF SurfInv, PlaneTypeOK, MoveAssign, MovedOwners
      <4> QED
        BY <4>1 DEF SurfInv, OwnersOwn, Exists, IsValid
    <3> QED
      BY <3>1, <3>2
  <2> QED
    BY <1>4, <1>5, <2>3, <2>4 DEF SurfInv
<1> QED
  BY <1>6, <1>7

\* A handle that goes away frees what it owned.
LEMMA DestroyInv ==
  ASSUME SurfInv, NEW p \in Handle, Destroy(p)
  PROVE  SurfInv'
<1>1. p \in Place /\ plane \in [Place -> PlaneObject \cup {Absent}]
  BY SurfacesAssumption DEF SurfInv, PlaneTypeOK
<1>2. plane'[p] = Absent /\ \A r \in Place : r # p => plane'[r] = plane[r]
  BY <1>1 DEF Destroy
<1>3. plane' \in [Place -> PlaneObject \cup {Absent}]
  BY <1>1 DEF Destroy
<1>4. SurfacesWhole'
  BY <1>2, WholeAfterHandle DEF SurfInv
<1> QED
  BY <1>2, <1>3, <1>4, BorrowInv DEF SurfInv, PlaneTypeOK, Destroy

\* Steps that change no object.
LEMMA OthersInv ==
  ASSUME SurfInv, UNCHANGED <<plane, owners>>, foreign' \subseteq foreign
  PROVE  SurfInv'
BY DEF SurfInv, PlaneTypeOK, OneOwner, OwnersOwn, SurfacesWhole, Exists, IsValid, Made, OwnMemory,
       GpuMemImpl, LiveWithout, FromDLPack, SurfacePlaces

-----------------------------------------------------------------------------
\* Every step keeps the invariant.
LEMMA NextInv == SurfInv /\ [SurfNext]_surfVars => SurfInv'
<1> SUFFICES ASSUME SurfInv, [SurfNext]_surfVars PROVE SurfInv'
  OBVIOUS
<1>1. CASE UNCHANGED surfVars
  BY <1>1, OthersInv DEF surfVars
<1>2. CASE SurfaceSteps
  <2>1. PICK s \in Surface :
          \/ MakeSurface(s) \/ MakeEmptySurface(s) \/ DeleteSurface(s)
          \/ \E t \in Surface : Clone(s, t)
          \/ \E x \in Foreign : SurfaceFromDLPack(s, x)
          \/ \E h \in [1 .. PlanesOf[s] -> Handle] : Update(s, h)
          \/ \E h \in Handle, i \in 1 .. PlanesOf[s] : GetPlane(h, s, i)
    BY <1>2 DEF SurfaceSteps
  <2>2. CASE \E t \in Surface : Clone(s, t)
    BY <2>2, MakeSurfaceInv, MakeEmptySurfaceInv DEF Clone
  <2>3. CASE \E h \in Handle, i \in 1 .. PlanesOf[s] : GetPlane(h, s, i)
    <3>1. PICK h \in Handle, i \in 1 .. PlanesOf[s] : CopyConstruct(h, <<s, i>>)
      BY <2>3 DEF GetPlane
    <3>2. <<s, i>> \in Place
      BY SurfacesAssumption DEF SurfacePlaces
    <3> QED
      BY <3>1, <3>2, CopyConstructInv
  <2> QED
    BY <2>1, <2>2, <2>3, MakeSurfaceInv, MakeEmptySurfaceInv, DeleteSurfaceInv,
       SurfaceFromDLPackInv, UpdateInv
<1>3. CASE HandleSteps
  BY <1>3, SurfacesAssumption, DestroyInv, ConstructInv, CopyConstructInv, CopyAssignInv,
     MoveAssignInv DEF HandleSteps
<1>4. CASE \E x \in Foreign : ForeignFreed(x)
  BY <1>4, OthersInv DEF ForeignFreed
<1> QED
  BY <1>1, <1>2, <1>3, <1>4 DEF SurfNext

\* Nothing exists at the start.
LEMMA InitInv == PlaneInit => SurfInv
BY PlacesOfSurface
   DEF PlaneInit, SurfInv, PlaneTypeOK, OneOwner, OwnersOwn, SurfacesWhole, Exists, Made

\* The invariant holds in every behaviour.
LEMMA InvHolds == SurfSpec => []SurfInv
BY InitInv, NextInv, PTL DEF SurfSpec

\* Planes keep their types.
THEOREM PlanesTyped == SurfSpec => []PlaneTypeOK
<1>1. SurfInv => PlaneTypeOK
  BY DEF SurfInv
<1> QED
  BY <1>1, InvHolds, PTL

\* No two planes, of whatever surfaces and handles, own the same memory.
THEOREM MemoryHasOneOwner == SurfSpec => []OneOwner
<1>1. SurfInv => OneOwner
  BY DEF SurfInv
<1> QED
  BY <1>1, InvHolds, PTL

\* Whatever was allocated or moved to an object stays owned by it: neither
\* filling a vector of planes nor updating a surface loses ownership.
THEOREM OwnershipKept == SurfSpec => []OwnersOwn
<1>1. SurfInv => OwnersOwn
  BY DEF SurfInv
<1> QED
  BY <1>1, InvHolds, PTL

\* A surface owns all of its planes or none.
THEOREM SurfacesStayWhole == SurfSpec => []SurfacesWhole
<1>1. SurfInv => SurfacesWhole
  BY DEF SurfInv
<1> QED
  BY <1>1, InvHolds, PTL

-----------------------------------------------------------------------------
(***************************************************************************)
(* What an update shows.  CopyAssign blanks a plane before it reads the    *)
(* other, whose memory may be that plane's own.  It is not, in a surface   *)
(* that may be updated: none of its planes owns, and who does not own      *)
(* holds no memory either.                                                 *)
(***************************************************************************)
Sound(o) == o = Absent \/ o.m_own_mem \/ o.m_own_gpu_mem = Null
OnlyOwnersHold == \A p \in Place : Sound(plane[p])

\* Whatever the operations of the class make is sound.
LEMMA SoundObjects ==
  /\ Sound(Absent) /\ Sound(BlankPlane)
  /\ \A m \in Memory : Sound(OwningPlane(m))
  /\ \A o \in PlaneObject : Sound(Copied(o))
BY DEF Sound, BlankPlane, OwningPlane, Copied

LEMMA SoundAssigned ==
  ASSUME PlaneTypeOK, NEW p \in Place, NEW q \in Place, Exists(q)
  PROVE  Sound(CopyAssigned(p, q)) /\ Sound(MoveAssigned(p, q))
<1> DEFINE o == IF p = q THEN BlankPlane ELSE plane[q]
<1>1. Sound(CopyAssigned(p, q))
  BY AssignedTyped DEF Sound
<1>2. ASSUME o.m_own_mem
      PROVE  MoveAssigned(p, q) = [OwningPlane(o.m_own_gpu_mem) EXCEPT !.m_ptr = o.m_ptr]
  BY <1>2 DEF MoveAssigned
<1>3. ASSUME ~o.m_own_mem
      PROVE  MoveAssigned(p, q) = CopyAssigned(p, q)
  BY <1>3 DEF MoveAssigned
<1> HIDE DEF o
<1>4. [OwningPlane(o.m_own_gpu_mem) EXCEPT !.m_ptr = o.m_ptr].m_own_mem
  BY DEF OwningPlane, BlankPlane
<1> QED BY <1>1, <1>2, <1>3, <1>4 DEF Sound

\* Filling the places of a surface with sound objects.
LEMMA SoundFill ==
  ASSUME OnlyOwnersHold, NEW s \in Surface, NEW objects, FillSurface(s, objects),
         \A i \in 1 .. PlanesOf[s] : Sound(objects[i])
  PROVE  OnlyOwnersHold'
<1>1. ASSUME NEW p \in Place PROVE Sound(plane'[p])
  <2>1. CASE p \in SurfacePlaces(s)
    <3>1. p[2] \in 1 .. PlanesOf[s] /\ plane'[p] = objects[p[2]]
      BY <2>1, PlacesOfSurface DEF FillSurface
    <3> QED BY <3>1
  <2>2. CASE p \notin SurfacePlaces(s)
    BY <2>2 DEF FillSurface, OnlyOwnersHold
  <2> QED BY <2>1, <2>2
<1> QED BY <1>1 DEF OnlyOwnersHold, Sound

\* A step of a handle that leaves a sound object at p, and perhaps none at q.
LEMMA SoundHandle ==
  ASSUME OnlyOwnersHold, PlaneTypeOK, NEW p \in Place, NEW o, Sound(o),
         \/ plane' = [plane EXCEPT ![p] = o]
         \/ \E q \in Place : plane' = [plane EXCEPT ![p] = o, ![q] = BlankPlane]
  PROVE  OnlyOwnersHold'
<1>1. ASSUME NEW r \in Place PROVE plane'[r] \in {plane[r], o, BlankPlane}
  BY DEF PlaneTypeOK
<1> QED BY <1>1, SoundObjects DEF OnlyOwnersHold, Sound

LEMMA SoundNext == SurfInv /\ OnlyOwnersHold /\ [SurfNext]_surfVars => OnlyOwnersHold'
<1> SUFFICES ASSUME SurfInv, OnlyOwnersHold, [SurfNext]_surfVars PROVE OnlyOwnersHold'
  OBVIOUS
<1>0. PlaneTypeOK
  BY DEF SurfInv
<1>1. CASE UNCHANGED plane
  BY <1>1 DEF OnlyOwnersHold, Sound
<1>2. ASSUME NEW s \in Surface, MakeSurface(s) PROVE OnlyOwnersHold'
  <2>1. PICK mem \in Allocations(s) :
          FillSurface(s, [i \in 1 .. PlanesOf[s] |-> EmplacedPlane(s, i, mem[i])])
    BY <1>2 DEF MakeSurface
  <2>2. \A i \in 1 .. PlanesOf[s] : mem[i] \in Memory
    BY DEF Allocations
  <2>3. \A i \in 1 .. PlanesOf[s] : Sound(EmplacedPlane(s, i, mem[i]))
    BY <2>2, EmplacedOwns, SoundObjects
  <2> QED BY <2>1, <2>3, SoundFill
<1>3. ASSUME NEW s \in Surface, MakeEmptySurface(s) PROVE OnlyOwnersHold'
  BY <1>3, SoundObjects, SoundFill DEF MakeEmptySurface
<1>4. ASSUME NEW s \in Surface, DeleteSurface(s) PROVE OnlyOwnersHold'
  BY <1>4, SoundObjects, SoundFill DEF DeleteSurface
<1>5. ASSUME NEW s \in Surface, NEW x \in Foreign, SurfaceFromDLPack(s, x) PROVE OnlyOwnersHold'
  <2>1. Sound(Copied(PlaneOfTensor(x)))
    BY ObjectsTyped, SoundObjects
  <2> QED BY <1>5, <2>1, SoundObjects, SoundFill DEF SurfaceFromDLPack
<1>6. ASSUME NEW s \in Surface, NEW h \in [1 .. PlanesOf[s] -> Handle], Update(s, h)
      PROVE  OnlyOwnersHold'
  <2>1. ASSUME NEW i \in 1 .. PlanesOf[s] PROVE Sound(CopyAssigned(<<s, i>>, h[i]))
    <3>1. <<s, i>> \in Place /\ h[i] \in Place /\ Exists(h[i])
      BY <1>6, SurfacesAssumption DEF SurfacePlaces, Update, ValidatePlanes
    <3> QED BY <1>0, <3>1, SoundAssigned
  <2> QED BY <1>6, <2>1, SoundFill DEF Update
<1>7. ASSUME NEW p \in Place, NEW q \in Place, CopyConstruct(p, q) PROVE OnlyOwnersHold'
  <2>1. Sound(Copied(plane[q]))
    BY <1>0, <1>7, SoundObjects DEF CopyConstruct, PlaneTypeOK, Exists
  <2> QED BY <1>0, <1>7, <2>1, SoundHandle DEF CopyConstruct
<1>8. ASSUME NEW p \in Place, NEW m \in Memory, Construct(p, m) PROVE OnlyOwnersHold'
  BY <1>0, <1>8, SoundObjects, SoundHandle DEF Construct
<1>9. ASSUME NEW p \in Place, Destroy(p) PROVE OnlyOwnersHold'
  BY <1>0, <1>9, SoundObjects, SoundHandle DEF Destroy
<1>10. ASSUME NEW p \in Place, NEW q \in Place, CopyAssign(p, q) \/ MoveAssign(p, q)
       PROVE  OnlyOwnersHold'
  <2>1. Sound(CopyAssigned(p, q)) /\ Sound(MoveAssigned(p, q))
    BY <1>0, <1>10, SoundAssigned DEF CopyAssign, MoveAssign
  <2>2. CASE CopyAssign(p, q)
    BY <1>0, <2>1, <2>2, SoundHandle DEF CopyAssign
  <2>3. CASE MoveAssign(p, q)
    BY <1>0, <2>1, <2>3, SoundHandle DEF MoveAssign
  <2> QED BY <1>10, <2>2, <2>3
<1>11. CASE SurfaceSteps
  <2>1. PICK s \in Surface :
          \/ MakeSurface(s) \/ MakeEmptySurface(s) \/ DeleteSurface(s)
          \/ \E t \in Surface : Clone(s, t)
          \/ \E x \in Foreign : SurfaceFromDLPack(s, x)
          \/ \E h \in [1 .. PlanesOf[s] -> Handle] : Update(s, h)
          \/ \E h \in Handle, i \in 1 .. PlanesOf[s] : GetPlane(h, s, i)
    BY <1>11 DEF SurfaceSteps
  <2>2. CASE \E t \in Surface : Clone(s, t)
    BY <1>2, <1>3, <2>2 DEF Clone
  <2>3. CASE \E h \in Handle, i \in 1 .. PlanesOf[s] : GetPlane(h, s, i)
    <3>1. PICK h \in Handle, i \in 1 .. PlanesOf[s] : CopyConstruct(h, <<s, i>>)
      BY <2>3 DEF GetPlane
    <3>2. <<s, i>> \in Place /\ h \in Place
      BY SurfacesAssumption DEF SurfacePlaces
    <3> QED BY <1>7, <3>1, <3>2
  <2> QED BY <1>2, <1>3, <1>4, <1>5, <1>6, <2>1, <2>2, <2>3
<1>12. CASE HandleSteps
  BY <1>7, <1>8, <1>9, <1>10, <1>12, SurfacesAssumption DEF HandleSteps
<1>13. CASE \E x \in Foreign : ForeignFreed(x)
  BY <1>1, <1>13 DEF ForeignFreed
<1> QED BY <1>1, <1>11, <1>12, <1>13 DEF SurfNext, surfVars

LEMMA OnlyOwnersDo == SurfSpec => []OnlyOwnersHold
<1>1. PlaneInit => OnlyOwnersHold
  BY DEF PlaneInit, OnlyOwnersHold, Sound
<1> QED BY <1>1, SoundNext, InvHolds, PTL DEF SurfSpec

\* A surface updated with planes that show live memory shows the same memory,
\* also when the planes were taken from the surface itself.
THEOREM UpdatesShow == SurfSpec => UpdateShowsPlanes
<1> DEFINE Shows ==
      \A s \in Surface : \A h \in [1 .. PlanesOf[s] -> Handle] :
        Update(s, h) /\ (\A i \in 1 .. PlanesOf[s] : IsValid(plane[h[i]]))
          => \A i \in 1 .. PlanesOf[s] : Shown(plane'[<<s, i>>]) = GpuMem(plane[h[i]])
<1>1. ASSUME SurfInv, OnlyOwnersHold, NEW s \in Surface,
             NEW h \in [1 .. PlanesOf[s] -> Handle], Update(s, h),
             \A i \in 1 .. PlanesOf[s] : IsValid(plane[h[i]]), NEW i \in 1 .. PlanesOf[s]
      PROVE  Shown(plane'[<<s, i>>]) = GpuMem(plane[h[i]])
  <2> DEFINE p == <<s, i>>
             o == plane[h[i]]
  <2>1. p \in SurfacePlaces(s) /\ p \in Place /\ h[i] \in Handle /\ h[i] \in Place
        /\ p # h[i] /\ Exists(h[i])
    BY <1>1, SurfacesAssumption DEF SurfacePlaces, Update, ValidatePlanes
  <2>2. plane'[p] = CopyAssigned(p, h[i])
    BY <1>1, <2>1 DEF Update, FillSurface
  <2>3. plane[p].m_own_gpu_mem = Null
    <3>1. ~OwnMemory(s) /\ Made(s)
      BY <1>1 DEF Update, UpdateAllowed
    <3>2. Exists(p) /\ plane[p].m_own_mem = OwnMemory(s)
      BY <1>1, <2>1, <3>1 DEF SurfInv, SurfacesWhole
    <3> QED BY <1>1, <2>1, <3>1, <3>2 DEF OnlyOwnersHold, Sound, Exists
  <2>4. o \in PlaneObject /\ IsValid(o)
    BY <1>1, <2>1 DEF SurfInv, PlaneTypeOK, Exists
  <2> HIDE DEF p
  <2>5. GpuMemImpl(o, {p}) = GpuMemImpl(o, {})
    <3>1. \A m \in Memory : LiveWithout(m, {}) => LiveWithout(m, {p})
      BY <2>3, MemoryAssumption DEF LiveWithout
    <3>2. \A m \in Memory : LiveWithout(m, {p}) => LiveWithout(m, {})
      BY DEF LiveWithout
    <3>3. o.m_borrowed_gpu_mem \in Memory \cup {Null}
      BY <2>4 DEF PlaneObject
    <3> HIDE DEF o
    <3> QED BY <3>1, <3>2, <3>3 DEF GpuMemImpl
  <2>6. CopyAssigned(p, h[i]).m_ptr = o.m_ptr
        /\ CopyAssigned(p, h[i]).m_borrowed_gpu_mem = GpuMemImpl(o, {p})
    BY <2>1 DEF CopyAssigned
  <2> HIDE DEF o
  <2>7. Shown(plane'[p]) = IF o.m_ptr # Null THEN o.m_ptr ELSE GpuMemImpl(o, {})
    BY <2>2, <2>5, <2>6 DEF Shown, FromDLPack
  <2> QED BY <2>7 DEF GpuMem, FromDLPack, p, o
<1>2. SurfInv /\ OnlyOwnersHold => Shows
  BY <1>1
<1>3. SurfInv /\ OnlyOwnersHold /\ [SurfNext]_surfVars => [Shows]_surfVars
  BY <1>2
<1> QED BY <1>3, InvHolds, OnlyOwnersDo, PTL DEF SurfSpec, UpdateShowsPlanes
=============================================================================
