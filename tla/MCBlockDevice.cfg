\* Two objects, two devices, two descriptors, two buffers over two blocks:
\* transfers that are cut short, refused, misaligned, past the end, or at an
\* offset that overflows.
CONSTANTS
  Buffers = {b1, b2}
  Addresses = {1, 2}
  Sizes = {0, 2}
  Alignments = {1}
  Values = {old, new}
  Objects = {o1, o2}
  Descriptors = {3, 4}
  Paths = {"small", "large"}
  CellsOf <- MCCellsOf
  SectorOf <- MCSectorOf
  Fallback = 2
  Lbas = {0, 4}
  Wrap = 8
SPECIFICATION Spec
INVARIANTS
  EachBlockHasOneOwner
  BufferFitsItsBlock
  EachDescriptorHasOneOwner
  AddressedByItsDevice
  TrueMeansTransferred
SYMMETRY MCSymmetry
CHECK_DEADLOCK FALSE
