SPECIFICATION SurfSpec
CONSTANTS
  packed = packed
  planar = planar
  twin = twin
  Surface = {packed, planar, twin}
  PlanesOf <- MCPlanesOf
  Place <- MCPlace
  Handle = {h1, h2}
  Memory = {m1, m2, m3}
  Foreign = {x1}
  Null = Null
  Absent = Absent
SYMMETRY Alike
INVARIANTS
  PlaneTypeOK
  OneOwner
  OwnersOwn
  SurfacesWhole
PROPERTIES
  UpdateShowsPlanes
CHECK_DEADLOCK FALSE
