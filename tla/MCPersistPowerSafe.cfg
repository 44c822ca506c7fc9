SPECIFICATION Spec
CONSTANTS
  a = a
  b = b
  None = None
  Blocks <- BlocksValue
  Contents <- TwoSnapshots
  FirstContents <- TwoSnapshots
  MaxPayload = 2
  Sectors <- SlaveOnly
  DataLba = 2
  Reserve = 1
  Faults = {}
  MaxFaults = 0
INVARIANTS PowerSafe
