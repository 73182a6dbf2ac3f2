SPECIFICATION Spec
CONSTANTS
  e1 = e1
  e2 = e2
  c1 = c1
  c2 = c2
  rgb = rgb
  yuv420 = yuv420
  empty = empty
  NoContext = NoContext
  NoImage = NoImage
  NoCall = NoCall
  Encoder <- MCEncoder
  Context <- MCContext
  Surface <- MCSurface
  Kind <- MCKind
  AskedFormat <- MCAskedFormat
  MaxFailures = 2
  MaxSurfaces = 2
SYMMETRY MCSymmetry
INVARIANTS
  AllOrNone
\* Once Python has dropped everything, nothing is left to do.
CHECK_DEADLOCK FALSE
