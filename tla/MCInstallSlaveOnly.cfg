SPECIFICATION InstallSpec
CONSTANTS
  a = a
  b = b
  None = None
  Blocks <- BlocksValue
  Contents <- ContentsValue
  FirstContents <- ContentsValue
  MaxPayload = 2
  Sectors <- SlaveOnly
  DataLba = 3
  Reserve = 2
  Faults = {}
  MaxFaults = 0
  KernelLba = 1
  KernelLen = 2
  KernelMax = 2
INVARIANTS SystemIntact
