SPECIFICATION Spec
CONSTANTS
  HeapSize = 36
  Hdr = 3
  MinRest = 2
  Align = 2
  Requests <- Sizes
  NULL = NULL
INVARIANTS TypeOK ListOK FullyCoalesced
PROPERTIES Implements
