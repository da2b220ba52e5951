\* A disk, and a mapper device on it.
CONSTANTS
  Devices <- MCMapperDevices
  Canonical <- MCMapperCanonical
  BackedBy <- MCMapperBackedBy
  Loops <- MCLoops
  Mountable <- MCMapperMountable
  Swappable = {}
  IsLinux = TRUE
SPECIFICATION Spec
INVARIANT MappedPartitionsCount
CHECK_DEADLOCK FALSE
