CONSTANTS
  Objects = {o1, o2}
  Buffers = {b1, b2, b3}
  NoBuffer = noBuffer
  Indices = {i1, i2}
  Names = {n1, n2}
  MaxEntries = 2
SPECIFICATION Spec
INVARIANT IInv
INVARIANT PointersAreOwn
PROPERTY ImplementsTable
SYMMETRY Symmetry
